-------------------------- MODULE BlockStateProofs --------------------------
(* What TLAPS proves of the known state block by block: on sound tables an    *)
(* echo and the re-read it leads to leave what a scan would install.          *)
EXTENDS BlockState, TLAPS, FiniteSetTheorems

-----------------------------------------------------------------------------
(* The invariant.                                                             *)

\* The unit keeps its addresses; a count of 3 is a CORE's.
UnitInv ==
    /\ memory = [a \in DOMAIN memory |-> memory[a]]
    /\ None \notin DOMAIN memory
    /\ \A a \in DOMAIN memory : memory[a] \in Raws(a)
    /\ fx_count \in {3, 4}
    /\ fx_count = 3 => IsCore
    /\ raised \subseteq {"inbound"}
    /\ edits \in 0..MaxEdits

\* An entry, whatever it shows.
Slider == {None} \cup [label : Sliders \ {None}, value : Nat \cup {None}]
IsEntry(e, id) ==
    /\ e = [fx_id |-> id, state |-> e.state, name |-> e.name,
            sliders |-> [i \in 1..2 |-> e.sliders[i]]]
    /\ e.state \in {"ON", "OFF", None}
    /\ \A i \in 1..2 : e.sliders[i] \in Slider

\* Every type has been scanned, or none; a CORE may have been scanned as a
\* GT-1000, with an entry too many.
Known == DOMAIN state # {}
EntriesInv ==
    Known =>
       /\ state = [t \in FxTypes |-> state[t]]
       /\ \A t \in FxTypes :
             /\ \E k \in Count(t)..FxBlockCount(t) : DOMAIN state[t] = 1..k
             /\ state[t] = [n \in DOMAIN state[t] |-> state[t][n]]
             /\ \A n \in DOMAIN state[t] : IsEntry(state[t][n], NormalizedId(t, n))

\* The effect of every block scanned is recorded, and one it can have; the
\* fourth block of a CORE has none.
NamesInv ==
    /\ fx_names = [n \in DOMAIN fx_names |-> fx_names[n]]
    /\ DOMAIN fx_names \subseteq 1..4
    /\ \A n \in DOMAIN fx_names : fx_names[n] \in Loadable(n)
    /\ IsCore /\ 4 \in DOMAIN fx_names => fx_names[4] = None
    /\ Known => DOMAIN state["fx"] \subseteq DOMAIN fx_names

\* A re-read is of a block the unit has, and no equalizer.
Tasks == {Full} \cup [kind : {"sliders"}, fx_type : FxTypes \ {"eq"}, n : 0..4]
Target(task) == IF task.n = 0 THEN 1 ELSE task.n
Rereadable(task) ==
    /\ Known
    /\ Target(task) \in 1..FxBlockCount(task.fx_type)
    /\ IsCore => ~(task.fx_type = "fx" /\ Target(task) = 4)
QueueInv ==
    /\ queue \in Seq(Tasks)
    /\ \A i \in 1..Len(queue) : queue[i] # Full => Rereadable(queue[i])

\* What a task in the queue will put right.
FullWaits == Contains(queue, Full)
RereadWaits(t, n) ==
    \E i \in 1..Len(queue) :
       queue[i].kind = "sliders" /\ queue[i].fx_type = t /\ Target(queue[i]) = n

Current(t, n) ==
    /\ state[t][n].state = ReadName(t, n, "SW")
    /\ state[t][n].name = BlockName(t, n)
    /\ ~RereadWaits(t, n) => state[t][n].sliders = SlidersFor(t, n, BlockName(t, n))
CurrentInv ==
    Known /\ ~FullWaits =>
       /\ \A n \in DOMAIN fx_names : fx_names[n] = ReadName("fx", n, "TYPE")
       /\ \A t \in FxTypes : \A n \in 1..Count(t) : Current(t, n)

BlockInv == UnitInv /\ EntriesInv /\ NamesInv /\ QueueInv /\ CurrentInv

-----------------------------------------------------------------------------
(* Blocks, their ids and their places.                                        *)

\* A block by its type and number.
LEMMA Blocked ==
    ASSUME NEW t \in FxTypes, NEW n \in 1..FxBlockCount(t)
    PROVE  <<t, n>> \in Blocks /\ n \in 1..4
  <1>1. FxBlockCount(t) \in 1..4
    BY CountsAssumption
  <1>2. n \in 1..4 /\ n <= FxBlockCount(t)
    BY <1>1
  <1> QED
    BY <1>2 DEF Blocks

\* Blocks of a type have ids of their own.
LEMMA IdsApart ==
    ASSUME NEW t \in FxTypes, NEW m \in 1..FxBlockCount(t), NEW n \in 1..FxBlockCount(t),
           NormalizedId(t, m) = NormalizedId(t, n)
    PROVE  m = n
  <1>1. FxBlockCount(t) \in 1..4 /\ (t = "preamp" => FxBlockCount(t) <= 2)
    BY CountsAssumption
  <1>2. CASE FxBlockCount(t) = 1
    BY <1>2
  <1>3. CASE FxBlockCount(t) # 1 /\ t = "preamp"
    <2>1. m \in {1, 2} /\ n \in {1, 2}
      BY <1>1, <1>3
    <2>2. <<"A", "B">>[m] = <<"A", "B">>[n]
      BY <1>3 DEF NormalizedId
    <2> QED
      BY <2>1, <2>2
  <1>4. CASE FxBlockCount(t) # 1 /\ t # "preamp"
    <2>1. m \in {1, 2, 3, 4} /\ n \in {1, 2, 3, 4}
      BY <1>1
    <2>2. <<"1", "2", "3", "4">>[m] = <<"1", "2", "3", "4">>[n]
      BY <1>4 DEF NormalizedId
    <2> QED
      BY <2>1, <2>2
  <1> QED
    BY <1>2, <1>3, <1>4

\* Only a type with a single block leaves its id empty.
LEMMA NoIdApart == NoId \notin {"A", "B", "1", "2", "3", "4"}
  BY Zenon DEF NoId

LEMMA OnlyBlock ==
    ASSUME NEW t \in FxTypes, NEW n \in 1..FxBlockCount(t), NormalizedId(t, n) = NoId
    PROVE  n = 1 /\ FxBlockCount(t) = 1
  <1>1. FxBlockCount(t) \in 1..4 /\ (t = "preamp" => FxBlockCount(t) <= 2)
    BY CountsAssumption
  <1>2. SUFFICES ASSUME FxBlockCount(t) # 1 PROVE FALSE
    BY <1>1
  <1>3. CASE t = "preamp"
    <2>1. n \in {1, 2}
      BY <1>1, <1>3
    <2>2. <<"A", "B">>[n] = NoId
      BY <1>2, <1>3 DEF NormalizedId
    <2> QED
      BY <2>1, <2>2, NoIdApart
  <1>4. CASE t # "preamp"
    <2>1. n \in {1, 2, 3, 4}
      BY <1>1
    <2>2. <<"1", "2", "3", "4">>[n] = NoId
      BY <1>2, <1>4 DEF NormalizedId
    <2> QED
      BY <2>1, <2>2, NoIdApart
  <1> QED
    BY <1>3, <1>4

\* Four fx blocks, or three.
LEMMA Counted ==
    ASSUME fx_count \in {3, 4}, NEW t \in FxTypes
    PROVE  /\ Count(t) \in 1..4 /\ Count(t) <= FxBlockCount(t) /\ FxBlockCount(t) \in 1..4
           /\ (t # "fx" => Count(t) = FxBlockCount(t))
  BY CountsAssumption DEF Count

\* A place is the address and the entry of AddressMap.
LEMMA Placed ==
    ASSUME NEW t, NEW n, <<t, n>> \in Blocks, NEW s \in SettingNames, NEW e \in Effects
    PROVE  /\ Place(t, n, s, e).address = BlockAddress(t, n, s, e)
           /\ Place(t, n, s, e).entry = BlockEntry(t, n, s, e)
           /\ Place(t, n, s, e) = Places[<<t, n>>][s][e]
  BY PlacesAssumption DEF Place, AllPlaces

LEMMA Plain == None \in Effects /\ {"SW", "TYPE"} \subseteq SettingNames
  BY PolicyAssumption DEF Effects

\* A scan fills every type at once.
LEMMA ReadyWhenKnown ==
    ASSUME EntriesInv
    PROVE  Ready <=> Known
  <1>1. CASE Known
    <2>1. DOMAIN state = FxTypes
      BY <1>1 DEF EntriesInv
    <2> QED
      BY <1>1, <2>1 DEF Ready
  <1>2. CASE ~Known
    <2>1. DOMAIN state = {}
      BY <1>2 DEF Known
    <2>2. Cardinality(FxTypes) # 0
      BY CountsAssumption, FS_EmptySet
    <2>3. Cardinality({}) = 0
      BY FS_EmptySet
    <2> QED
      BY <1>2, <2>1, <2>2, <2>3 DEF Ready
  <1> QED
    BY <1>1, <1>2

-----------------------------------------------------------------------------
(* What a read returns.                                                       *)

\* A parameter shown is one of the tables of the policy.
LEMMA ParamsKnown ==
    ASSUME NEW t \in FxTypes, NEW name, NEW i \in 1..2
    PROVE  Params(t, name)[i] \in Sliders
  <1>1. CASE t = "eq"
    <2>1. Params(t, name)[i] \in {"LEVEL1", "LEVEL", None}
      BY <1>1 DEF Params
    <2> QED
      BY <2>1 DEF Sliders
  <1>2. CASE t \notin {"eq", "fx"}
    <2>1. t \in DOMAIN SliderParams /\ Params(t, name) = SliderParams[t]
      BY <1>2, PolicyAssumption DEF Params
    <2>2. SliderParams[t][i] \in Range(SliderParams[t])
      BY <2>1, PolicyAssumption DEF Range
    <2> QED
      BY <2>1, <2>2 DEF Sliders
  <1>3. CASE t = "fx" /\ name \in DOMAIN FxSliderParams
    <2>1. Params(t, name) = FxSliderParams[name]
      BY <1>3 DEF Params
    <2>2. FxSliderParams[name][i] \in Range(FxSliderParams[name])
      BY <1>3, PolicyAssumption DEF Range
    <2> QED
      BY <1>3, <2>1, <2>2 DEF Sliders
  <1>4. CASE t = "fx" /\ name \notin DOMAIN FxSliderParams
    <2>1. Params(t, name)[i] = None
      BY <1>4 DEF Params
    <2> QED
      BY <2>1 DEF Sliders
  <1> QED
    BY <1>1, <1>2, <1>3, <1>4

LEMMA RawsAreNumbers ==
    ASSUME TablesComplete, NEW a
    PROVE  Raws(a) \subseteq Nat
  BY DEF TablesComplete, Raws

\* A value read is one the address can hold, or None.
LEMMA ValueRead ==
    ASSUME UnitInv, NEW t, NEW n, NEW s, NEW e
    PROVE  LET a == Place(t, n, s, e).address IN
           /\ Value(t, n, s, e) # None => a \in DOMAIN memory
           /\ Value(t, n, s, e) \in Raws(a) \cup {None}
  BY DEF Value, UnitInv

LEMMA ValueTyped ==
    ASSUME UnitInv, TablesComplete, NEW t, NEW n, NEW s, NEW e
    PROVE  Value(t, n, s, e) \in Nat \cup {None}
  BY ValueRead, RawsAreNumbers

\* The effect of an fx block is one it can have.
LEMMA LoadedName ==
    ASSUME UnitInv, NEW n
    PROVE  ReadName("fx", n, "TYPE") \in Loadable(n) /\ BlockName("fx", n) = ReadName("fx", n, "TYPE")
  <1>1. CASE Value("fx", n, "TYPE", None) = None
    BY <1>1 DEF ReadName, Loadable, BlockName
  <1>2. CASE Value("fx", n, "TYPE", None) # None
    <2>1. Value("fx", n, "TYPE", None) \in Raws(Place("fx", n, "TYPE", None).address)
      BY <1>2, ValueRead
    <2> QED
      BY <1>2, <2>1 DEF ReadName, Loadable, BlockName
  <1> QED
    BY <1>1, <1>2

\* Sliders of an effect the block can have are read without an exception.
Fits(t, n, name) == t = "fx" => name \in Loadable(n)

LEMMA NoneRaises ==
    ASSUME TablesComplete, NEW t \in FxTypes, NEW n \in 1..FxBlockCount(t), NEW name,
           Fits(t, n, name)
    PROVE  ~SlidersRaise(t, n, name)
  <1> SUFFICES ASSUME NEW i \in 1..2, Params(t, name)[i] # None
               PROVE  /\ ~RangeRaises(t, n, Params(t, name)[i], EffectOf(t, name))
                      /\ ~ReadRaises(t, n, Params(t, name)[i], EffectOf(t, name))
    BY DEF SlidersRaise
  <1>1. CASE t = "fx"
    <2>1. n \in 1..4 /\ name \in Loadable(n)
      BY <1>1, Blocked DEF Fits
    <2>2. /\ ~RangeRaises("fx", n, Params("fx", name)[i], name)
          /\ FxTable(name) \in DOMAIN SettingTables
      BY <1>1, <2>1 DEF TablesComplete, FxTable
    <2> QED
      BY <1>1, <2>2 DEF EffectOf, ReadRaises
  <1>2. CASE t # "fx"
    <2>1. \E nm \in {"PARAMETRIC", "GRAPHIC"} : Params(t, name) = Params(t, nm)
      BY <1>2 DEF Params
    <2>2. <<t, n>> \in Blocks /\ <<t, n>>[1] = t /\ <<t, n>>[2] = n
      BY Blocked
    <2>3. PICK nm \in {"PARAMETRIC", "GRAPHIC"} : Params(t, name) = Params(t, nm)
      BY <2>1
    <2>4. ~RangeRaises(t, n, Params(t, name)[i], None)
      BY <1>2, <2>2, <2>3 DEF TablesComplete
    <2> QED
      BY <1>2, <2>4 DEF EffectOf, ReadRaises
  <1> QED
    BY <1>1, <1>2

\* A scan reads every block to its end.
LEMMA NoBlockRaises ==
    ASSUME UnitInv, TablesComplete, NEW t \in FxTypes
    PROVE  Raising(t) = {}
  <1> SUFFICES ASSUME NEW n \in 1..Count(t) PROVE ~SlidersRaise(t, n, BlockName(t, n))
    BY DEF Raising
  <1>1. n \in 1..FxBlockCount(t)
    BY Counted DEF UnitInv
  <1>2. Fits(t, n, BlockName(t, n))
    BY LoadedName DEF Fits
  <1> QED
    BY <1>1, <1>2, NoneRaises

\* The setting a slider is for.
LEMMA ParamPlaced ==
    ASSUME TablesComplete, NEW t \in FxTypes, NEW n \in 1..FxBlockCount(t), NEW name,
           Fits(t, n, name), NEW i \in 1..2, Params(t, name)[i] # None
    PROVE  /\ Params(t, name)[i] \in SettingNames \ {"SW", "TYPE"}
           /\ EffectOf(t, name) \in Effects
  <1>1. Params(t, name)[i] \in SettingNames \ {"SW", "TYPE"}
    BY ParamsKnown, PolicyAssumption
  <1>2. CASE t = "fx"
    BY <1>1, <1>2, Blocked DEF TablesComplete, EffectOf, Fits
  <1>3. CASE t # "fx"
    BY <1>1, <1>3, Plain DEF EffectOf
  <1> QED
    BY <1>2, <1>3

\* The value of an effect's slider has no name: it is shown as the byte it is.
LEMMA Nameless ==
    ASSUME TablesComplete, NEW t \in FxTypes, NEW n \in 1..FxBlockCount(t), NEW name,
           Fits(t, n, name), NEW i \in 1..2, NEW p, p = Params(t, name)[i], p # None,
           NEW e, e = EffectOf(t, name), t = "fx", Place(t, n, p, e).address # None
    PROVE  \A raw : LabelForRaw(Place(t, n, p, e).entry.values, raw) = None
  <1>1. n \in 1..4 /\ <<t, n>> \in Blocks /\ name \in Loadable(n) /\ e = name
    BY Blocked DEF Fits, EffectOf
  <1>2. p \in SettingNames /\ e \in Effects
    BY ParamPlaced
  <1>3. BlockAddress(t, n, p, e) # None
    BY <1>1, <1>2, Placed
  <1>4. BlockEntry(t, n, p, e) # None
    BY <1>3 DEF BlockAddress, BlockEntry, AddressFor
  <1>5. Place(t, n, p, e).entry # None
    BY <1>1, <1>2, <1>4, Placed
  <1>6. DOMAIN Place(t, n, p, e).entry.values = {}
    BY <1>1, <1>5 DEF TablesComplete
  <1> QED
    BY <1>6 DEF LabelForRaw

LEMMA ReadNumber ==
    ASSUME TablesComplete, NEW t \in FxTypes, NEW n \in 1..FxBlockCount(t), NEW name,
           Fits(t, n, name), NEW i \in 1..2, NEW p, p = Params(t, name)[i], p # None,
           NEW e, e = EffectOf(t, name), None \notin DOMAIN memory
    PROVE  /\ ReadValue(t, n, p, e) = Value(t, n, p, e)
           /\ DOMAIN memory' = DOMAIN memory =>
                 ReadValue(t, n, p, e)' = Value(t, n, p, e)'
  <1>1. CASE t # "fx"
    BY <1>1 DEF ReadValue
  <1>2. CASE t = "fx" /\ Place(t, n, p, e).address = None
    <2>1. Value(t, n, p, e) = None
      BY <1>2 DEF Value
    <2>2. DOMAIN memory' = DOMAIN memory => Value(t, n, p, e)' = None
      BY <1>2 DEF Value
    <2> QED
      BY <2>1, <2>2 DEF ReadValue
  <1>3. CASE t = "fx" /\ Place(t, n, p, e).address # None
    <2>1. \A raw : LabelForRaw(Place(t, n, p, e).entry.values, raw) = None
      BY <1>3, Nameless
    <2> QED
      BY <2>1 DEF ReadValue
  <1> QED
    BY <1>1, <1>2, <1>3

LEMMA SlidersTyped ==
    ASSUME UnitInv, TablesComplete, NEW t \in FxTypes, NEW n \in 1..FxBlockCount(t),
           NEW name, Fits(t, n, name), NEW i \in 1..2
    PROVE  SlidersFor(t, n, name)[i] \in Slider
  <1>1. PICK p : p = Params(t, name)[i]
    OBVIOUS
  <1>2. PICK e : e = EffectOf(t, name)
    OBVIOUS
  <1>3. PICK v : v = ReadValue(t, n, p, e)
    OBVIOUS
  <1>4. p \in Sliders
    BY <1>1, ParamsKnown
  <1>5. p # None => v \in Nat \cup {None}
    BY <1>1, <1>2, <1>3, ReadNumber, ValueTyped DEF UnitInv
  <1>6. SlidersFor(t, n, name)[i] = Resolve(t, n, p, e)
    BY <1>1, <1>2 DEF SlidersFor
  <1>7. Resolve(t, n, p, e) \in {None, [label |-> p, value |-> v]}
        /\ (p = None => Resolve(t, n, p, e) = None)
    BY <1>3 DEF Resolve
  <1> QED
    BY <1>4, <1>5, <1>6, <1>7 DEF Slider

\* A switch is ON or OFF, or not known.
LEMMA SwitchNamed ==
    ASSUME TablesComplete, NEW t \in FxTypes, NEW n \in 1..FxBlockCount(t), NEW raw
    PROVE  LabelForRaw(Place(t, n, "SW", None).entry.values, raw) \in {"ON", "OFF", None}
  <1> DEFINE values == Places[<<t, n>>]["SW"][None].entry.values
  <1>1. Place(t, n, "SW", None).entry.values = values
    BY DEF Place
  <1>2. DOMAIN values \subseteq {"ON", "OFF"}
    BY Blocked DEF TablesComplete
  <1> HIDE DEF values
  <1>3. LabelForRaw(values, raw) \in {None} \cup DOMAIN values
    <2> DEFINE names == {name \in DOMAIN values : values[name] = raw}
    <2>1. CASE names = {}
      BY <2>1 DEF LabelForRaw
    <2>2. CASE names # {}
      <3>1. (CHOOSE name \in names : TRUE) \in names
        BY <2>2
      <3> QED
        BY <2>2, <3>1 DEF LabelForRaw
    <2> QED
      BY <2>1, <2>2
  <1> QED
    BY <1>1, <1>2, <1>3

\* What a scan makes of a block is an entry.
LEMMA SnapshotTyped ==
    ASSUME UnitInv, TablesComplete, NEW t \in FxTypes, NEW n \in 1..FxBlockCount(t)
    PROVE  IsEntry(Snapshot(t, n), NormalizedId(t, n))
  <1>1. ReadName(t, n, "SW") \in {"ON", "OFF", None}
    BY SwitchNamed DEF ReadName
  <1>2. \A i \in 1..2 : SlidersFor(t, n, BlockName(t, n))[i] \in Slider
    <2>1. Fits(t, n, BlockName(t, n))
      BY LoadedName DEF Fits
    <2> QED
      BY <2>1, SlidersTyped
  <1>3. SlidersFor(t, n, BlockName(t, n)) =
        [i \in 1..2 |-> SlidersFor(t, n, BlockName(t, n))[i]]
    BY DEF SlidersFor
  <1> QED
    BY <1>1, <1>2, <1>3 DEF Snapshot, IsEntry

-----------------------------------------------------------------------------
(* A scan.                                                                    *)

\* The fourth block of a CORE has no effect.
LEMMA FourthOfCore ==
    ASSUME IsCore
    PROVE  ReadName("fx", 4, "TYPE") = None
  BY DEF IsCore, ReadName, Value

LEMMA Counts == Count("fx") = fx_count
  BY DEF Count

\* What recording the effects of blocks read leaves.
LEMMA RecordedNames ==
    ASSUME UnitInv, NamesInv, TablesComplete, NEW ns \in SUBSET (1..fx_count)
    PROVE  /\ DOMAIN Recorded(ns) = DOMAIN fx_names \cup ns
           /\ Recorded(ns) = [n \in DOMAIN Recorded(ns) |-> Recorded(ns)[n]]
           /\ \A n \in ns : Recorded(ns)[n] = ReadName("fx", n, "TYPE")
           /\ \A n \in DOMAIN fx_names \ ns : Recorded(ns)[n] = fx_names[n]
           /\ DOMAIN Recorded(ns) \subseteq 1..4
           /\ \A n \in DOMAIN Recorded(ns) : Recorded(ns)[n] \in Loadable(n)
           /\ IsCore /\ 4 \in DOMAIN Recorded(ns) => Recorded(ns)[4] = None
  <1>1. Raising("fx") = {}
    BY NoBlockRaises, CountsAssumption
  <1>2. {n \in ns : \A m \in Raising("fx") \cap ns : n <= m} = ns
    BY <1>1
  <1>3. Recorded(ns) = [n \in DOMAIN fx_names \cup ns |->
                          IF n \in ns THEN BlockName("fx", n) ELSE fx_names[n]]
    BY <1>2 DEF Recorded
  <1>4. \A n : BlockName("fx", n) = ReadName("fx", n, "TYPE")
               /\ ReadName("fx", n, "TYPE") \in Loadable(n)
    BY LoadedName
  <1>5. ns \subseteq 1..4
    BY DEF UnitInv
  <1>6. /\ DOMAIN Recorded(ns) = DOMAIN fx_names \cup ns
        /\ Recorded(ns) = [n \in DOMAIN Recorded(ns) |-> Recorded(ns)[n]]
        /\ \A n \in ns : Recorded(ns)[n] = ReadName("fx", n, "TYPE")
        /\ \A n \in DOMAIN fx_names \ ns : Recorded(ns)[n] = fx_names[n]
    BY <1>3, <1>4
  <1>7. DOMAIN Recorded(ns) \subseteq 1..4
        /\ \A n \in DOMAIN Recorded(ns) : Recorded(ns)[n] \in Loadable(n)
    BY <1>4, <1>5, <1>6 DEF NamesInv
  <1>8. IsCore /\ 4 \in DOMAIN Recorded(ns) => Recorded(ns)[4] = None
    BY <1>6, FourthOfCore DEF NamesInv
  <1> QED
    BY <1>6, <1>7, <1>8

\* A scan records every type and, of each fx block, its effect.
LEMMA TypesOrdered ==
    ASSUME NEW i \in DOMAIN ScanOrder
    PROVE  ScanOrder[i] \in FxTypes
  BY OrderAssumption DEF Range

LEMMA ScanReads ==
    ASSUME UnitInv, EntriesInv, TablesComplete, RefreshState
    PROVE  /\ state' = [t \in FxTypes |-> SnapshotAll(t)]
           /\ fx_names' = Recorded(1..fx_count)
           /\ raised' = raised
  <1>1. \A t \in FxTypes : Raising(t) = {}
    BY NoBlockRaises
  <1>2. /\ state' = Scanned(FxTypes)
        /\ fx_names' = Recorded(1..Count("fx"))
        /\ raised' = raised
    BY <1>1, TypesOrdered DEF RefreshState
  <1>3. DOMAIN state \cup FxTypes = FxTypes
    BY DEF EntriesInv, Known
  <1>4. Scanned(FxTypes) = [t \in FxTypes |-> SnapshotAll(t)]
    BY <1>3 DEF Scanned
  <1> QED
    BY <1>2, <1>4, Counts

\* What is read of a unit that has not changed.
LEMMA UnitKept ==
    ASSUME memory' = memory, NEW t, NEW n
    PROVE  /\ ReadName(t, n, "SW")' = ReadName(t, n, "SW")
           /\ ReadName(t, n, "TYPE")' = ReadName(t, n, "TYPE")
           /\ BlockName(t, n)' = BlockName(t, n)
           /\ SlidersFor(t, n, BlockName(t, n))' = SlidersFor(t, n, BlockName(t, n))
  <1>1. \A s, e : Value(t, n, s, e)' = Value(t, n, s, e)
    BY DEF Value
  <1>2. \A s : ReadName(t, n, s)' = ReadName(t, n, s)
    BY <1>1 DEF ReadName
  <1>3. BlockName(t, n)' = BlockName(t, n)
    BY <1>2 DEF BlockName
  <1>4. \A p, e : Resolve(t, n, p, e)' = Resolve(t, n, p, e)
    <2>1. \A p, e : ReadValue(t, n, p, e)' = ReadValue(t, n, p, e)
      BY <1>1 DEF ReadValue
    <2> QED
      BY <2>1 DEF Resolve
  <1>5. \A nm : SlidersFor(t, n, nm)' = SlidersFor(t, n, nm)
    BY <1>4 DEF SlidersFor
  <1>6. SlidersFor(t, n, BlockName(t, n))' = SlidersFor(t, n, BlockName(t, n))
    <2>1. PICK nm : nm = BlockName(t, n)
      OBVIOUS
    <2>2. SlidersFor(t, n, BlockName(t, n))' = SlidersFor(t, n, nm)'
      BY <1>3, <2>1 DEF SlidersFor
    <2> QED
      BY <1>5, <2>1, <2>2
  <1> QED
    BY <1>2, <1>3, <1>6

LEMMA ScanStep ==
    ASSUME UnitInv, EntriesInv, NamesInv, TablesComplete, RefreshState,
           UNCHANGED <<memory, fx_count, edits>>
    PROVE  UnitInv' /\ EntriesInv' /\ NamesInv' /\ CurrentInv' /\ Known'
  <1>1. /\ state' = [t \in FxTypes |-> SnapshotAll(t)]
        /\ fx_names' = Recorded(1..fx_count)
        /\ raised' = raised
    BY ScanReads
  <1>2. IsCore' = IsCore /\ \A t \in FxTypes : Count(t)' = Count(t)
    BY DEF IsCore, Count
  <1>3. UnitInv'
    BY <1>1, <1>2 DEF UnitInv
  <1>4. Known'
    BY <1>1, CountsAssumption DEF Known
  <1>5. ASSUME NEW t \in FxTypes
        PROVE  state'[t] = [n \in 1..Count(t) |-> Snapshot(t, n)]
    BY <1>1 DEF SnapshotAll
  <1>6. EntriesInv'
    <2>1. ASSUME NEW t \in FxTypes
          PROVE  /\ \E k \in Count(t)..FxBlockCount(t) : DOMAIN state'[t] = 1..k
                 /\ state'[t] = [n \in DOMAIN state'[t] |-> state'[t][n]]
                 /\ \A n \in DOMAIN state'[t] : IsEntry(state'[t][n], NormalizedId(t, n))
      <3>1. Count(t) \in 1..4 /\ Count(t) <= FxBlockCount(t) /\ FxBlockCount(t) \in 1..4
        BY Counted DEF UnitInv
      <3>2. \A n \in 1..Count(t) : n \in 1..FxBlockCount(t)
        BY <3>1
      <3>3. DOMAIN state'[t] = 1..Count(t)
        BY <1>5
      <3>4. \E k \in Count(t)..FxBlockCount(t) : DOMAIN state'[t] = 1..k
        <4>1. Count(t) \in Count(t)..FxBlockCount(t)
          BY <3>1
        <4> QED
          BY <3>3, <4>1
      <3>5. \A n \in 1..Count(t) : state'[t][n] = Snapshot(t, n)
        BY <1>5
      <3>6. \A n \in 1..Count(t) : IsEntry(Snapshot(t, n), NormalizedId(t, n))
        BY <3>2, SnapshotTyped
      <3>7. state'[t] = [n \in DOMAIN state'[t] |-> state'[t][n]]
        BY <1>5
      <3>8. \A n \in DOMAIN state'[t] : IsEntry(state'[t][n], NormalizedId(t, n))
        BY <3>3, <3>5, <3>6
      <3> QED
        BY <3>4, <3>7, <3>8
    <2>2. state' = [t \in FxTypes |-> state'[t]]
      BY <1>1
    <2> QED
      BY <1>2, <2>1, <2>2 DEF EntriesInv
  <1>7. NamesInv'
    <2>1. DOMAIN state'["fx"] = 1..fx_count
      BY <1>5, Counts, CountsAssumption
    <2>2. 1..fx_count \in SUBSET (1..fx_count)
      OBVIOUS
    <2>3. DOMAIN state'["fx"] \subseteq DOMAIN fx_names'
      BY <1>1, <2>1, <2>2, RecordedNames
    <2> QED
      BY <1>1, <1>2, <2>2, <2>3, RecordedNames DEF NamesInv
  <1>8. CurrentInv'
    <2>1. ASSUME NEW n \in DOMAIN fx_names'
          PROVE  fx_names'[n] = ReadName("fx", n, "TYPE")
      <3>1. CASE n \in 1..fx_count
        BY <1>1, <3>1, RecordedNames
      <3>2. CASE n \notin 1..fx_count
        <4>1. n \in 1..4
          BY <1>1, RecordedNames
        <4>2. n = 4 /\ IsCore
          BY <3>2, <4>1 DEF UnitInv
        <4> QED
          BY <1>1, <4>2, RecordedNames, FourthOfCore
      <3> QED
        BY <3>1, <3>2
    <2>2. \A n : ReadName("fx", n, "TYPE")' = ReadName("fx", n, "TYPE")
      BY DEF ReadName, Value
    <2>3. ASSUME NEW t \in FxTypes, NEW n \in 1..Count(t)
          PROVE  Current(t, n)'
      <3>1. state'[t][n] = Snapshot(t, n)
        BY <1>5, <2>3
      <3>2. Snapshot(t, n)' = Snapshot(t, n) /\ ReadName(t, n, "SW")' = ReadName(t, n, "SW")
            /\ BlockName(t, n)' = BlockName(t, n)
            /\ SlidersFor(t, n, BlockName(t, n))' = SlidersFor(t, n, BlockName(t, n))
        BY UnitKept DEF Snapshot
      <3> QED
        BY <3>1, <3>2 DEF Current, Snapshot
    <2> QED
      BY <1>2, <2>1, <2>2, <2>3 DEF CurrentInv
  <1> QED
    BY <1>3, <1>4, <1>6, <1>7, <1>8

-----------------------------------------------------------------------------
(* What an edit changes in the unit.                                          *)

\* The address of an edit is that of its setting, and takes its value.
LEMMA EditedAt ==
    ASSUME NEW c \in Controls \cup Switches, Faithful(c)
    PROVE  /\ c.fx_type \in FxTypes /\ c.n \in 1..FxBlockCount(c.fx_type)
           /\ Place(c.fx_type, c.n, c.setting, c.fx_name).address = Edits[c].address
           /\ c.raw \in Raws(Edits[c].address)
  <1>1. <<c.fx_type, c.n>> \in Blocks /\ c.setting \in SettingNames /\ c.fx_name \in Effects
    BY DEF Faithful
  <1>2. c.fx_type \in FxTypes /\ c.n \in 1..FxBlockCount(c.fx_type)
    <2>1. c.fx_type \in FxTypes /\ c.n \in 1..4 /\ c.n <= FxBlockCount(c.fx_type)
      BY <1>1 DEF Blocks
    <2> QED
      BY <2>1, CountsAssumption
  <1>3. Edits[c].address = BlockAddress(c.fx_type, c.n, c.setting, c.fx_name)
    BY EchoesAssumption DEF AllEdits
  <1>4. c \in Settable
    BY DEF Settable
  <1> QED
    BY <1>1, <1>2, <1>3, <1>4, Placed DEF Raws

\* An edit changes the setting it is for, and no other: not its value,
LEMMA EditedValue ==
    ASSUME UnitInv, NEW c \in Controls \cup Switches, Faithful(c), Stored(c),
           NEW t, NEW n, <<t, n>> \in Blocks, NEW s \in SettingNames, NEW e \in Effects
    PROVE  Value(t, n, s, e)' =
             IF t = c.fx_type /\ n = c.n /\ s = c.setting /\ e = c.fx_name
             THEN c.raw ELSE Value(t, n, s, e)
  <1> DEFINE a == Edits[c].address
             p == Place(t, n, s, e).address
  <1>1. /\ a \in DOMAIN memory
        /\ memory' = [memory EXCEPT ![a] = c.raw]
    BY DEF Stored
  <1>2. p = a <=> t = c.fx_type /\ n = c.n /\ s = c.setting /\ e = c.fx_name
    <2>1. p = a => <<t, n>> = <<c.fx_type, c.n>> /\ s = c.setting /\ e = c.fx_name
      BY DEF Faithful, Place
    <2> QED
      BY <2>1, EditedAt
  <1>3. Value(t, n, s, e)' = IF p \in DOMAIN memory' THEN memory'[p] ELSE None
    BY DEF Value
  <1>4. Value(t, n, s, e) = IF p \in DOMAIN memory THEN memory[p] ELSE None
    BY DEF Value
  <1> HIDE DEF a, p
  <1>5. memory = [x \in DOMAIN memory |-> memory[x]]
    BY DEF UnitInv
  <1> QED
    BY <1>1, <1>2, <1>3, <1>4, <1>5

LEMMA EditedUnit ==
    ASSUME UnitInv, NEW c \in Controls \cup Switches, Faithful(c), Stored(c),
           raised' \subseteq raised
    PROVE  UnitInv' /\ IsCore' = IsCore /\ \A t \in FxTypes : Count(t)' = Count(t)
  <1>1. /\ Edits[c].address \in DOMAIN memory
        /\ memory' = [memory EXCEPT ![Edits[c].address] = c.raw]
        /\ edits < MaxEdits /\ edits' = edits + 1 /\ fx_count' = fx_count
    BY DEF Stored
  <1>2. c.raw \in Raws(Edits[c].address)
    BY EditedAt
  <1>3. DOMAIN memory' = DOMAIN memory
    BY <1>1
  <1>4. IsCore' = IsCore /\ \A t \in FxTypes : Count(t)' = Count(t)
    BY <1>1, <1>3 DEF IsCore, Count
  <1>5. /\ memory' = [a \in DOMAIN memory' |-> memory'[a]]
        /\ \A a \in DOMAIN memory' : memory'[a] \in Raws(a)
    BY <1>1, <1>2 DEF UnitInv
  <1>6. edits' \in 0..MaxEdits
    BY <1>1, EditsAssumption DEF UnitInv
  <1> QED
    BY <1>1, <1>3, <1>4, <1>5, <1>6 DEF UnitInv

\* The unit has no fourth fx block's TYPE to edit if it is a CORE.
LEMMA EditedFx ==
    ASSUME UnitInv, NEW c \in Controls \cup Switches, Faithful(c), Stored(c),
           c.fx_type = "fx", c.setting = "TYPE", c.fx_name = None
    PROVE  c.n \in 1..fx_count /\ (IsCore => c.n # 4)
  <1>1. c.n \in 1..4 /\ Place("fx", c.n, "TYPE", None).address \in DOMAIN memory
    BY EditedAt, Blocked DEF Stored
  <1> QED
    BY <1>1 DEF IsCore, UnitInv

\* not the name of a value,
LEMMA EditedName ==
    ASSUME UnitInv, TablesComplete, NEW c \in Controls \cup Switches, Faithful(c), Stored(c),
           NEW t, NEW n, <<t, n>> \in Blocks, NEW s \in {"SW", "TYPE"}
    PROVE  ReadName(t, n, s)' =
             IF t = c.fx_type /\ n = c.n /\ s = c.setting /\ None = c.fx_name
             THEN Edits[c].decoded.label ELSE ReadName(t, n, s)
  <1>1. Value(t, n, s, None)' =
          IF t = c.fx_type /\ n = c.n /\ s = c.setting /\ None = c.fx_name
          THEN c.raw ELSE Value(t, n, s, None)
    BY EditedValue, Plain
  <1>2. c.raw # None
    BY EditedAt, RawsAreNumbers, NoneAssumption
  <1>3. Edits[c].decoded.label =
          LabelForRaw(Place(c.fx_type, c.n, c.setting, c.fx_name).entry.values, c.raw)
    BY DEF Faithful, Place
  <1> QED
    BY <1>1, <1>2, <1>3 DEF ReadName

\* not a slider.
LEMMA EditedParam ==
    ASSUME UnitInv, TablesComplete, NEW c \in Controls \cup Switches, Faithful(c), Stored(c),
           NEW t, NEW n, <<t, n>> \in Blocks, NEW p, NEW e,
           p # None => /\ p \in SettingNames /\ e \in Effects
                       /\ ReadValue(t, n, p, e) = Value(t, n, p, e)
                       /\ ReadValue(t, n, p, e)' = Value(t, n, p, e)'
    PROVE  Resolve(t, n, p, e)' =
             IF p # None /\ t = c.fx_type /\ n = c.n /\ p = c.setting /\ e = c.fx_name
             THEN [label |-> c.setting, value |-> c.raw]
             ELSE Resolve(t, n, p, e)
  <1>1. CASE p = None
    BY <1>1 DEF Resolve
  <1>2. CASE p # None
    <2>1. Value(t, n, p, e)' =
            IF t = c.fx_type /\ n = c.n /\ p = c.setting /\ e = c.fx_name
            THEN c.raw ELSE Value(t, n, p, e)
      BY <1>2, EditedValue
    <2>2. c.raw # None
      BY EditedAt, RawsAreNumbers, NoneAssumption
    <2> QED
      BY <1>2, <2>1, <2>2 DEF Resolve
  <1> QED
    BY <1>1, <1>2

LEMMA EditedSlider ==
    ASSUME UnitInv, TablesComplete, NEW c \in Controls \cup Switches, Faithful(c), Stored(c),
           NEW t \in FxTypes, NEW n \in 1..FxBlockCount(t), NEW name, Fits(t, n, name),
           NEW i \in 1..2
    PROVE  SlidersFor(t, n, name)'[i] =
             IF /\ Params(t, name)[i] # None /\ t = c.fx_type /\ n = c.n
                /\ Params(t, name)[i] = c.setting /\ EffectOf(t, name) = c.fx_name
             THEN [label |-> c.setting, value |-> c.raw]
             ELSE SlidersFor(t, n, name)[i]
  <1>1. PICK p : p = Params(t, name)[i]
    OBVIOUS
  <1>2. PICK e : e = EffectOf(t, name)
    OBVIOUS
  <1>3. p # None => /\ p \in SettingNames /\ e \in Effects
                    /\ ReadValue(t, n, p, e) = Value(t, n, p, e)
                    /\ ReadValue(t, n, p, e)' = Value(t, n, p, e)'
    <2>1. DOMAIN memory' = DOMAIN memory /\ None \notin DOMAIN memory
      BY DEF Stored, UnitInv
    <2> QED
      BY <1>1, <1>2, <2>1, ParamPlaced, ReadNumber
  <1>4. <<t, n>> \in Blocks
    BY Blocked
  <1>5. Resolve(t, n, p, e)' =
          IF p # None /\ t = c.fx_type /\ n = c.n /\ p = c.setting /\ e = c.fx_name
          THEN [label |-> c.setting, value |-> c.raw]
          ELSE Resolve(t, n, p, e)
    BY <1>3, <1>4, EditedParam
  <1>6. /\ SlidersFor(t, n, name)'[i] = Resolve(t, n, p, e)'
        /\ SlidersFor(t, n, name)[i] = Resolve(t, n, p, e)
    BY <1>1, <1>2 DEF SlidersFor
  <1>7. SlidersFor(t, n, name)'[i] =
          IF p # None /\ t = c.fx_type /\ n = c.n /\ p = c.setting /\ e = c.fx_name
          THEN [label |-> c.setting, value |-> c.raw]
          ELSE SlidersFor(t, n, name)[i]
    BY <1>5, <1>6
  <1> QED
    BY <1>1, <1>2, <1>7

-----------------------------------------------------------------------------
(* What its echo changes in the entries.                                      *)

LEMMA EntryParts ==
    ASSUME NEW e, NEW id, IsEntry(e, id)
    PROVE  \E a, b, l : e = [fx_id |-> id, state |-> a, name |-> b, sliders |-> l]
  BY DEF IsEntry

LEMMA EntryId ==
    ASSUME NEW e, NEW id, IsEntry(e, id)
    PROVE  e.fx_id = id
  BY EntryParts

LEMMA EntriesAt ==
    ASSUME UnitInv, EntriesInv, Known, NEW t \in FxTypes
    PROVE  /\ \E k \in 1..4 : DOMAIN state[t] = 1..k
           /\ 1..Count(t) \subseteq DOMAIN state[t]
           /\ DOMAIN state[t] \subseteq 1..FxBlockCount(t)
           /\ \A i \in DOMAIN state[t] : IsEntry(state[t][i], NormalizedId(t, i))
           /\ \A i \in DOMAIN state[t] : state[t][i].fx_id = NormalizedId(t, i)
           /\ state[t] = [i \in DOMAIN state[t] |-> state[t][i]]
  <1>1. PICK k \in Count(t)..FxBlockCount(t) : DOMAIN state[t] = 1..k
    BY DEF EntriesInv
  <1>2. Count(t) \in 1..4 /\ FxBlockCount(t) \in 1..4
    BY Counted DEF UnitInv
  <1>3. k \in 1..4 /\ 1..Count(t) \subseteq 1..k /\ 1..k \subseteq 1..FxBlockCount(t)
    BY <1>2
  <1>4. /\ \A i \in DOMAIN state[t] : IsEntry(state[t][i], NormalizedId(t, i))
        /\ state[t] = [i \in DOMAIN state[t] |-> state[t][i]]
    BY DEF EntriesInv
  <1>5. \A i \in DOMAIN state[t] : state[t][i].fx_id = NormalizedId(t, i)
    BY <1>4, EntryId
  <1> QED
    BY <1>1, <1>3, <1>4, <1>5

\* The entries with an id are those of one block.
LEMMA IdMatches ==
    ASSUME UnitInv, EntriesInv, Known, NEW t \in FxTypes, NEW n \in 1..FxBlockCount(t),
           NEW i \in DOMAIN state[t]
    PROVE  state[t][i].fx_id = NormalizedId(t, n) <=> i = n
  <1>1. i \in 1..FxBlockCount(t) /\ state[t][i].fx_id = NormalizedId(t, i)
    BY EntriesAt
  <1> QED
    BY <1>1, IdsApart

\* Before the first scan an echo is refused; after it, it finds its entry.
LEMMA NothingKnown ==
    ASSUME EntriesInv, ~Known, NEW d
    PROVE  ~Reaches(d) /\ ~Strays(d) /\ ~Lands(d) /\ ~TypeChanged(d) /\ Applied(d) = state
  BY ReadyWhenKnown DEF Reaches, Strays, Lands, TypeChanged, Applied

LEMMA Landing ==
    ASSUME UnitInv, EntriesInv, Known, NEW c \in Controls \cup Switches,
           Faithful(c), Numbered(c)
    PROVE  LET d == Edits[c].decoded IN
           /\ ~Strays(d)
           /\ Lands(d) <=> c.n \in DOMAIN state[c.fx_type]
  <1> DEFINE d == Edits[c].decoded
  <1>1. d # None /\ d.fx_type = c.fx_type /\ DecodedId(d) = NormalizedId(c.fx_type, c.n)
    BY DEF Faithful, Numbered
  <1>2. c.fx_type \in FxTypes /\ c.n \in 1..FxBlockCount(c.fx_type)
    BY EditedAt
  <1>3. Reaches(d)
    BY <1>1, ReadyWhenKnown DEF Reaches
  <1>4. ~Strays(d)
    BY <1>1, <1>2 DEF Strays, EntriesInv
  <1>5. \A i \in DOMAIN state[c.fx_type] :
          state[c.fx_type][i].fx_id = DecodedId(d) <=> i = c.n
    BY <1>1, <1>2, IdMatches
  <1> QED
    BY <1>1, <1>3, <1>4, <1>5 DEF Lands

LEMMA ChangedAt ==
    ASSUME NEW st, NEW t \in DOMAIN st, NEW id, NEW entries
    PROVE  /\ DOMAIN Changed(st, t, id, entries) = DOMAIN st
           /\ Changed(st, t, id, entries) =
                [x \in DOMAIN st |-> Changed(st, t, id, entries)[x]]
           /\ \A x \in DOMAIN st \ {t} : Changed(st, t, id, entries)[x] = st[x]
           /\ Changed(st, t, id, entries)[t] =
                [i \in DOMAIN st[t] |-> IF st[t][i].fx_id = id THEN entries[i] ELSE st[t][i]]
  BY DEF Changed

\* The entry of block n of type t of st becomes new, the others are kept.
OneEntry(st, new, t, n) ==
    /\ DOMAIN new = DOMAIN st
    /\ new = [x \in DOMAIN st |-> new[x]]
    /\ \A x \in DOMAIN st \ {t} : new[x] = st[x]
    /\ DOMAIN new[t] = DOMAIN st[t]
    /\ new[t] = [i \in DOMAIN st[t] |-> new[t][i]]
    /\ \A i \in DOMAIN st[t] \ {n} : new[t][i] = st[t][i]

\* An echo changes the entry of the block that was edited, and no other.
LEMMA AppliedAt ==
    ASSUME UnitInv, EntriesInv, Known, NEW c \in Controls \cup Switches,
           Faithful(c), Numbered(c)
    PROVE  LET d == Edits[c].decoded IN
           /\ OneEntry(state, Applied(d), c.fx_type, c.n)
           /\ c.n \in DOMAIN state[c.fx_type] =>
                Applied(d)[c.fx_type][c.n] = EntryEchoed(state[c.fx_type][c.n], d)
  <1> DEFINE d == Edits[c].decoded
             t == c.fx_type
             n == c.n
             echoed == [i \in DOMAIN state[t] |-> EntryEchoed(state[t][i], d)]
  <1>1. d.fx_type = t /\ DecodedId(d) = NormalizedId(t, n)
    BY DEF Faithful, Numbered
  <1>2. t \in FxTypes /\ n \in 1..FxBlockCount(t) /\ DOMAIN state = FxTypes
    BY EditedAt DEF EntriesInv
  <1>3. Lands(d) <=> n \in DOMAIN state[t]
    BY Landing
  <1>4. state[t] = [i \in DOMAIN state[t] |-> state[t][i]]
        /\ state = [x \in DOMAIN state |-> state[x]]
    BY <1>2 DEF EntriesInv
  <1>5. CASE n \notin DOMAIN state[t]
    <2>1. Applied(d) = state
      BY <1>3, <1>5 DEF Applied
    <2> QED
      BY <1>4, <1>5, <2>1 DEF OneEntry
  <1>6. CASE n \in DOMAIN state[t]
    <2>1. Applied(d) = Changed(state, t, NormalizedId(t, n), echoed)
      BY <1>1, <1>3, <1>6 DEF Applied
    <2>2. \A i \in DOMAIN state[t] : state[t][i].fx_id = NormalizedId(t, n) <=> i = n
      BY <1>2, IdMatches
    <2> HIDE DEF t, n, d
    <2>3. Applied(d)[t] = [i \in DOMAIN state[t] |->
              IF state[t][i].fx_id = NormalizedId(t, n) THEN echoed[i] ELSE state[t][i]]
      BY <1>2, <2>1, ChangedAt
    <2>4. /\ DOMAIN Applied(d) = DOMAIN state
          /\ Applied(d) = [x \in DOMAIN state |-> Applied(d)[x]]
          /\ \A x \in DOMAIN state \ {t} : Applied(d)[x] = state[x]
      <3> HIDE DEF echoed
      <3> DEFINE changed == Changed(state, t, NormalizedId(t, n), echoed)
      <3>1. /\ DOMAIN changed = DOMAIN state
            /\ changed = [x \in DOMAIN state |-> changed[x]]
            /\ \A x \in DOMAIN state \ {t} : changed[x] = state[x]
        BY <1>2 DEF Changed
      <3>2. Applied(d) = changed
        BY <2>1
      <3> HIDE DEF changed
      <3> QED
        BY <3>1, <3>2
    <2>5. /\ DOMAIN Applied(d)[t] = DOMAIN state[t]
          /\ Applied(d)[t] = [i \in DOMAIN state[t] |-> Applied(d)[t][i]]
      BY <2>3
    <2>6. \A i \in DOMAIN state[t] :
            Applied(d)[t][i] = IF i = n THEN EntryEchoed(state[t][i], d) ELSE state[t][i]
      BY <2>2, <2>3
    <2>7. OneEntry(state, Applied(d), t, n)
      BY <2>4, <2>5, <2>6 DEF OneEntry
    <2>8. Applied(d)[t][n] = EntryEchoed(state[t][n], d)
      BY <1>6, <2>6
    <2> QED
      BY <2>7, <2>8 DEF t, n, d
  <1> QED
    BY <1>5, <1>6

\* The same of a toggle, whose echo may find no entry.
LEMMA LenOf ==
    ASSUME NEW s, NEW k \in Nat, s = [i \in 1..k |-> s[i]]
    PROVE  Len(s) = k
  OBVIOUS

LEMMA SetFxAt ==
    ASSUME UnitInv, EntriesInv, Known, NEW t \in FxTypes, NEW n \in 1..FxBlockCount(t),
           NEW st, OneEntry(state, st, t, n), NEW v,
           \A i \in DOMAIN st[t] : st[t][i].fx_id = NormalizedId(t, i)
    PROVE  LET new == SetFx(st, t, NormalizedId(t, n), v) IN
           /\ OneEntry(state, new, t, n)
           /\ n \in DOMAIN state[t] => new[t][n] = [st[t][n] EXCEPT !.state = v]
  <1> DEFINE id == IF Len(st[t]) = 1 THEN st[t][1].fx_id ELSE NormalizedId(t, n)
             entries == [i \in DOMAIN st[t] |-> [st[t][i] EXCEPT !.state = v]]
             new == SetFx(st, t, NormalizedId(t, n), v)
  <1>1. /\ DOMAIN st = DOMAIN state /\ t \in DOMAIN st
        /\ DOMAIN st[t] = DOMAIN state[t]
        /\ st[t] = [i \in DOMAIN st[t] |-> st[t][i]]
    BY DEF OneEntry, EntriesInv
  <1>2. PICK k \in 1..4 : DOMAIN state[t] = 1..k
    BY EntriesAt
  <1>3. Len(st[t]) = k
    BY <1>1, <1>2, LenOf
  <1>4. Count(t) <= k
    <2>1. 1..Count(t) \subseteq 1..k /\ Count(t) \in 1..4
      BY <1>2, EntriesAt, Counted DEF UnitInv
    <2>2. Count(t) \in 1..Count(t)
      BY <2>1
    <2>3. Count(t) \in 1..k
      BY <2>1, <2>2
    <2> QED
      BY <1>2, <2>3
  <1>5. ASSUME NEW i \in DOMAIN st[t] PROVE st[t][i].fx_id = id <=> i = n
    <2>1. CASE k = 1
      <3>1. Count(t) = 1 /\ t # "fx"
        BY <1>4, <2>1, Counted, Counts DEF UnitInv
      <3>2. n = 1
        BY <3>1, Counted DEF UnitInv
      <3>3. i = 1
        BY <1>1, <1>2, <2>1
      <3> QED
        BY <1>3, <2>1, <3>2, <3>3
    <2>2. CASE k # 1
      <3>1. i \in 1..FxBlockCount(t)
        BY <1>1, EntriesAt
      <3> QED
        BY <1>3, <2>2, <3>1, IdsApart
    <2> QED
      BY <2>1, <2>2
  <1>6. new = Changed(st, t, id, entries)
    BY DEF SetFx
  <1> HIDE DEF id, entries, new
  <1>7. /\ DOMAIN new = DOMAIN st
        /\ new = [x \in DOMAIN st |-> new[x]]
        /\ \A x \in DOMAIN st \ {t} : new[x] = st[x]
        /\ new[t] = [i \in DOMAIN st[t] |-> IF st[t][i].fx_id = id THEN entries[i] ELSE st[t][i]]
    BY <1>1, <1>6 DEF Changed
  <1>8. new[t] = [i \in DOMAIN st[t] |-> IF i = n THEN entries[i] ELSE st[t][i]]
    BY <1>5, <1>7
  <1>9. OneEntry(state, new, t, n)
    BY <1>1, <1>7, <1>8 DEF OneEntry
  <1>10. n \in DOMAIN state[t] => new[t][n] = [st[t][n] EXCEPT !.state = v]
    BY <1>1, <1>8 DEF entries
  <1> QED
    BY <1>9, <1>10 DEF new

LEMMA SwitchedId ==
    ASSUME NEW e, NEW id, IsEntry(e, id), NEW v
    PROVE  [e EXCEPT !.state = v].fx_id = id
  <1>1. PICK a, b, l : e = [fx_id |-> id, state |-> a, name |-> b, sliders |-> l]
    BY EntryParts
  <1> QED
    BY <1>1

LEMMA SwitchedAt ==
    ASSUME UnitInv, EntriesInv, Known, EchoesFollowed, NEW c \in Switches
    PROVE  LET d == Edits[c].decoded
               t == c.fx_type
               new == SetFx(Applied(d), t, NormalizedId(t, c.n), c.label)
           IN /\ ~Strays(d) /\ ~TypeChanged(d)
              /\ OneEntry(state, new, t, c.n)
              /\ c.n \in DOMAIN state[t] => new[t][c.n] = EntryEchoed(state[t][c.n], d)
  <1> DEFINE d == Edits[c].decoded
             t == c.fx_type
             n == c.n
             new == SetFx(Applied(d), t, NormalizedId(t, n), c.label)
  <1>1. /\ Faithful(c) /\ d.setting = "SW" /\ d.fx_type = t /\ c.label = d.label
    BY DEF EchoesFollowed, Faithful
  <1>2. t \in FxTypes /\ n \in 1..FxBlockCount(t) /\ DOMAIN state = FxTypes
    BY <1>1, EditedAt DEF EntriesInv
  <1>3. ~TypeChanged(d) /\ ~Strays(d)
    BY <1>1, <1>2 DEF TypeChanged, Strays
  <1>4. /\ OneEntry(state, Applied(d), t, n)
        /\ n \in DOMAIN state[t] =>
              Applied(d)[t][n] \in {state[t][n], [state[t][n] EXCEPT !.state = c.label]}
    <2>1. CASE Numbered(c)
      BY <1>1, <2>1, AppliedAt DEF EntryEchoed
    <2>2. CASE ~Numbered(c)
      <3>1. \A i \in 1..FxBlockCount(t) : DecodedId(d) # NormalizedId(t, i)
        BY <2>2 DEF EchoesFollowed
      <3>2. \A i \in DOMAIN state[t] : state[t][i].fx_id # DecodedId(d)
        BY <1>2, <3>1, EntriesAt
      <3>3. Applied(d) = state
        BY <1>1, <3>2 DEF Applied, Lands
      <3>4. state[t] = [i \in DOMAIN state[t] |-> state[t][i]]
            /\ state = [x \in DOMAIN state |-> state[x]]
        BY <1>2 DEF EntriesInv
      <3> QED
        BY <3>3, <3>4 DEF OneEntry
    <2> QED
      BY <2>1, <2>2
  <1>5. ASSUME NEW i \in DOMAIN Applied(d)[t] PROVE Applied(d)[t][i].fx_id = NormalizedId(t, i)
    <2>1. i \in DOMAIN state[t] /\ state[t][i].fx_id = NormalizedId(t, i)
      BY <1>2, <1>4, <1>5, EntriesAt DEF OneEntry
    <2>2. CASE i # n
      BY <1>4, <2>1, <2>2 DEF OneEntry
    <2>3. CASE i = n
      <3>1. IsEntry(state[t][i], NormalizedId(t, i))
        BY <1>2, <2>1, EntriesAt
      <3>2. [state[t][i] EXCEPT !.state = c.label].fx_id = NormalizedId(t, i)
        BY <3>1, SwitchedId
      <3>3. Applied(d)[t][i] \in {state[t][i], [state[t][i] EXCEPT !.state = c.label]}
        BY <1>4, <2>1, <2>3
      <3> HIDE DEF d, t, n
      <3> QED
        BY <2>1, <3>2, <3>3
    <2> QED
      BY <2>2, <2>3
  <1> HIDE DEF d, t, n
  <1>6. /\ OneEntry(state, new, t, n)
        /\ n \in DOMAIN state[t] => new[t][n] = [Applied(d)[t][n] EXCEPT !.state = c.label]
    BY <1>2, <1>4, <1>5, SetFxAt
  <1>7. ASSUME n \in DOMAIN state[t] PROVE new[t][n] = EntryEchoed(state[t][n], d)
    <2>1. EntryEchoed(state[t][n], d) = [state[t][n] EXCEPT !.state = c.label]
      BY <1>1 DEF EntryEchoed
    <2>2. [[state[t][n] EXCEPT !.state = c.label] EXCEPT !.state = c.label] =
          [state[t][n] EXCEPT !.state = c.label]
      OBVIOUS
    <2> HIDE DEF new
    <2> QED
      BY <1>4, <1>6, <1>7, <2>1, <2>2
  <1> QED
    BY <1>3, <1>6, <1>7 DEF d, t, n

-----------------------------------------------------------------------------
(* An entry that was right is right after the edit and its echo.              *)

LEMMA EchoTyped ==
    ASSUME TablesComplete, NEW c \in Controls \cup Switches, Faithful(c),
           c.setting = "SW" => c.fx_name = None,
           NEW e, NEW id, IsEntry(e, id)
    PROVE  IsEntry(EntryEchoed(e, Edits[c].decoded), id)
  <1> DEFINE d == Edits[c].decoded
  <1>1. d.setting = c.setting /\ d.raw = c.raw
    BY DEF Faithful
  <1>2. PICK a, b, l : e = [fx_id |-> id, state |-> a, name |-> b, sliders |-> l]
    BY EntryParts
  <1>3. /\ a \in {"ON", "OFF", None} /\ l = [i \in 1..2 |-> l[i]]
        /\ \A i \in 1..2 : l[i] \in Slider
    <2>1. e.state = a /\ e.sliders = l
      BY <1>2
    <2>2. /\ e.state \in {"ON", "OFF", None} /\ \A i \in 1..2 : e.sliders[i] \in Slider
          /\ e = [fx_id |-> id, state |-> e.state, name |-> e.name,
                  sliders |-> [i \in 1..2 |-> e.sliders[i]]]
      BY DEF IsEntry
    <2>3. e.sliders = [i \in 1..2 |-> e.sliders[i]]
      BY <2>2
    <2> QED
      BY <2>1, <2>2, <2>3
  <1>4. CASE c.setting = "SW"
    <2>1. d.label \in {"ON", "OFF", None}
      <3>1. d.label = LabelForRaw(Place(c.fx_type, c.n, "SW", None).entry.values, c.raw)
        BY <1>4 DEF Faithful, Place
      <3>2. c.fx_type \in FxTypes /\ c.n \in 1..FxBlockCount(c.fx_type)
        BY EditedAt
      <3> QED
        BY <3>1, <3>2, SwitchNamed
    <2>2. EntryEchoed(e, d) = [fx_id |-> id, state |-> d.label, name |-> b, sliders |-> l]
      BY <1>1, <1>2, <1>4 DEF EntryEchoed
    <2> HIDE DEF d
    <2> QED
      BY <1>3, <2>1, <2>2 DEF IsEntry, d
  <1>5. CASE c.setting = "TYPE"
    <2>1. EntryEchoed(e, d) = [fx_id |-> id, state |-> a, name |-> d.label, sliders |-> l]
      BY <1>1, <1>2, <1>5 DEF EntryEchoed
    <2> HIDE DEF d
    <2> QED
      BY <1>3, <2>1 DEF IsEntry, d
  <1>6. CASE c.setting \notin {"SW", "TYPE"}
    <2>1. d.raw \in Nat
      BY <1>1, EditedAt, RawsAreNumbers
    <2>2. EntryEchoed(e, d) = [fx_id |-> id, state |-> a, name |-> b,
                               sliders |-> [i \in 1..2 |-> SliderEchoed(l[i], d)]]
      BY <1>1, <1>2, <1>6 DEF EntryEchoed
    <2>3. ASSUME NEW i \in 1..2 PROVE SliderEchoed(l[i], d) \in Slider
      <3>1. CASE l[i] = None
        BY <3>1 DEF SliderEchoed, Slider
      <3>2. CASE l[i] # None
        <4>1. PICK p \in Sliders \ {None}, v \in Nat \cup {None} :
                l[i] = [label |-> p, value |-> v]
          BY <1>3, <3>2 DEF Slider
        <4>2. SliderEchoed(l[i], d) \in {l[i], [label |-> p, value |-> d.raw]}
          BY <4>1 DEF SliderEchoed
        <4> QED
          BY <1>3, <2>1, <4>1, <4>2 DEF Slider
      <3> QED
        BY <3>1, <3>2
    <2> HIDE DEF d
    <2> QED
      BY <1>3, <2>2, <2>3 DEF IsEntry, d
  <1> QED
    BY <1>4, <1>5, <1>6

\* One entry replaced by another of its block.
LEMMA EntriesKept ==
    ASSUME UnitInv, EntriesInv, Known, NEW t \in FxTypes, NEW n,
           OneEntry(state, state', t, n),
           n \in DOMAIN state[t] => IsEntry(state'[t][n], NormalizedId(t, n)),
           \A x \in FxTypes : Count(x)' = Count(x)
    PROVE  EntriesInv' /\ Known' /\ \A x \in FxTypes : DOMAIN state'[x] = DOMAIN state[x]
  <1>1. /\ DOMAIN state = FxTypes /\ DOMAIN state' = FxTypes
        /\ state' = [x \in FxTypes |-> state'[x]]
    BY DEF OneEntry, EntriesInv
  <1>2. Known'
    BY <1>1, CountsAssumption DEF Known
  <1>3. ASSUME NEW x \in FxTypes
        PROVE  /\ DOMAIN state'[x] = DOMAIN state[x]
               /\ \E k \in Count(x)..FxBlockCount(x) : DOMAIN state'[x] = 1..k
               /\ state'[x] = [i \in DOMAIN state'[x] |-> state'[x][i]]
               /\ \A i \in DOMAIN state'[x] : IsEntry(state'[x][i], NormalizedId(x, i))
    <2>1. /\ \E k \in Count(x)..FxBlockCount(x) : DOMAIN state[x] = 1..k
          /\ state[x] = [i \in DOMAIN state[x] |-> state[x][i]]
          /\ \A i \in DOMAIN state[x] : IsEntry(state[x][i], NormalizedId(x, i))
      BY DEF EntriesInv
    <2>2. CASE x # t
      BY <1>1, <2>1, <2>2 DEF OneEntry
    <2>3. CASE x = t
      <3>1. /\ DOMAIN state'[t] = DOMAIN state[t]
            /\ state'[t] = [i \in DOMAIN state[t] |-> state'[t][i]]
            /\ \A i \in DOMAIN state[t] \ {n} : state'[t][i] = state[t][i]
        BY DEF OneEntry
      <3>2. ASSUME NEW i \in DOMAIN state[t]
            PROVE  IsEntry(state'[t][i], NormalizedId(t, i))
        <4>1. CASE i = n
          BY <4>1
        <4>2. CASE i # n
          BY <2>1, <2>3, <3>1, <4>2
        <4> QED
          BY <4>1, <4>2
      <3> QED
        BY <2>1, <2>3, <3>1, <3>2
    <2> QED
      BY <2>2, <2>3
  <1> QED
    BY <1>1, <1>2, <1>3 DEF EntriesInv

\* The entry of a block that was not edited.
LEMMA OtherBlock ==
    ASSUME UnitInv, TablesComplete, NEW c \in Controls \cup Switches, Faithful(c), Stored(c),
           NEW t \in FxTypes, NEW n \in 1..FxBlockCount(t), ~(t = c.fx_type /\ n = c.n),
           state'[t][n] = state[t][n], RereadWaits(t, n) => RereadWaits(t, n)',
           Current(t, n)
    PROVE  Current(t, n)'
  <1>1. /\ ReadName(t, n, "SW")' = ReadName(t, n, "SW")
        /\ ReadName(t, n, "TYPE")' = ReadName(t, n, "TYPE")
    BY Blocked, EditedName
  <1>2. PICK nm : nm = BlockName(t, n)
    OBVIOUS
  <1>3. BlockName(t, n)' = nm
    BY <1>1, <1>2 DEF BlockName
  <1>4. Fits(t, n, nm)
    BY <1>2, LoadedName DEF Fits
  <1>5. \A i \in 1..2 : SlidersFor(t, n, nm)'[i] = SlidersFor(t, n, nm)[i]
    BY <1>4, EditedSlider
  <1>6. SlidersFor(t, n, BlockName(t, n))' = SlidersFor(t, n, BlockName(t, n))
    <2>1. SlidersFor(t, n, nm)' = [i \in 1..2 |-> SlidersFor(t, n, nm)'[i]]
      BY DEF SlidersFor
    <2>2. SlidersFor(t, n, nm) = [i \in 1..2 |-> SlidersFor(t, n, nm)[i]]
      BY DEF SlidersFor
    <2>3. SlidersFor(t, n, nm)' = SlidersFor(t, n, nm)
      BY <1>5, <2>1, <2>2
    <2>4. SlidersFor(t, n, BlockName(t, n))' = SlidersFor(t, n, nm)'
      BY <1>3 DEF SlidersFor
    <2> QED
      BY <1>2, <2>3, <2>4
  <1> QED
    BY <1>1, <1>2, <1>3, <1>6 DEF Current

\* The entry of the block that was: after a TYPE its sliders wait for a re-read.
LEMMA EditedBlock ==
    ASSUME UnitInv, TablesComplete, NEW c \in Controls \cup Switches, Faithful(c), Stored(c),
           NEW t, t = c.fx_type, NEW n, n = c.n,
           c.setting = "SW" => c.fx_name = None,
           c.fx_name # None <=> t = "fx" /\ c.setting \notin {"SW", "TYPE"},
           c.setting = "TYPE" => t \notin {"ns", "delay"} /\ RereadWaits(t, n)',
           c.fx_name # None => c.fx_name = ReadName("fx", n, "TYPE"),
           IsEntry(state[t][n], NormalizedId(t, n)),
           state'[t][n] = EntryEchoed(state[t][n], Edits[c].decoded),
           RereadWaits(t, n) => RereadWaits(t, n)',
           Current(t, n)
    PROVE  Current(t, n)'
  <1> DEFINE d == Edits[c].decoded
             e == state[t][n]
  <1>1. /\ t \in FxTypes /\ n \in 1..FxBlockCount(t) /\ <<t, n>> \in Blocks
        /\ d.setting = c.setting /\ d.raw = c.raw
    BY EditedAt DEF Faithful
  <1>2. ReadName(t, n, "SW")' =
          IF c.setting = "SW" THEN d.label ELSE ReadName(t, n, "SW")
    BY <1>1, EditedName
  <1>3. ReadName(t, n, "TYPE")' =
          IF c.setting = "TYPE" THEN d.label ELSE ReadName(t, n, "TYPE")
    BY <1>1, EditedName
  <1>4. BlockName(t, n)' = IF c.setting = "TYPE" THEN d.label ELSE BlockName(t, n)
    BY <1>3 DEF BlockName
  <1>5. PICK a, b, l : e = [fx_id |-> NormalizedId(t, n), state |-> a, name |-> b, sliders |-> l]
    <2>1. IsEntry(e, NormalizedId(t, n))
      OBVIOUS
    <2> HIDE DEF e
    <2> QED
      BY <2>1, EntryParts
  <1>6. a = ReadName(t, n, "SW") /\ b = BlockName(t, n) /\ e.sliders = l
    BY <1>5 DEF Current
  <1>7. CASE c.setting = "TYPE"
    <2>1. state'[t][n].state = a /\ state'[t][n].name = d.label
      BY <1>1, <1>5, <1>7 DEF EntryEchoed
    <2> QED
      BY <1>2, <1>4, <1>6, <1>7, <2>1 DEF Current
  <1>8. CASE c.setting # "TYPE"
    <2>1. PICK nm : nm = BlockName(t, n)
      OBVIOUS
    <2>2. BlockName(t, n)' = nm /\ Fits(t, n, nm)
      BY <1>4, <1>8, <2>1, LoadedName DEF Fits
    <2>3. /\ state'[t][n].state = ReadName(t, n, "SW")'
          /\ state'[t][n].name = nm
          /\ \A i \in 1..2 : state'[t][n].sliders[i] =
               IF c.setting = "SW" THEN l[i] ELSE SliderEchoed(l[i], d)
          /\ state'[t][n].sliders = [i \in 1..2 |-> state'[t][n].sliders[i]]
      <3>1. l = [i \in 1..2 |-> l[i]]
        <4>1. e.sliders = [i \in 1..2 |-> e.sliders[i]]
          BY DEF IsEntry
        <4> QED
          BY <1>6, <4>1
      <3>2. CASE c.setting = "SW"
        <4>1. state'[t][n] = [fx_id |-> NormalizedId(t, n), state |-> d.label,
                              name |-> b, sliders |-> l]
          BY <1>1, <1>5, <3>2 DEF EntryEchoed
        <4> QED
          BY <1>2, <1>6, <2>1, <3>1, <3>2, <4>1
      <3>3. CASE c.setting # "SW"
        <4>1. state'[t][n] = [fx_id |-> NormalizedId(t, n), state |-> a, name |-> b,
                              sliders |-> [i \in 1..2 |-> SliderEchoed(l[i], d)]]
          BY <1>1, <1>5, <1>8, <3>3 DEF EntryEchoed
        <4> QED
          BY <1>2, <1>6, <2>1, <3>3, <4>1
      <3> QED
        BY <3>2, <3>3
    <2>4. ASSUME ~RereadWaits(t, n), NEW i \in 1..2
          PROVE  state'[t][n].sliders[i] = SlidersFor(t, n, nm)'[i]
      <3> DEFINE p == Params(t, nm)[i]
      <3>1. l[i] = SlidersFor(t, n, nm)[i]
        BY <1>6, <2>1, <2>4 DEF Current
      <3>2. SlidersFor(t, n, nm)[i] = Resolve(t, n, p, EffectOf(t, nm))
        BY DEF SlidersFor
      <3>3. p \in Sliders /\ "SW" \notin Sliders \ {None} /\ "TYPE" \notin Sliders \ {None}
        BY <1>1, ParamsKnown, PolicyAssumption
      <3>4. SlidersFor(t, n, nm)'[i] =
              IF p # None /\ p = c.setting /\ EffectOf(t, nm) = c.fx_name
              THEN [label |-> c.setting, value |-> c.raw] ELSE l[i]
        BY <1>1, <2>2, <3>1, EditedSlider
      <3>5. CASE p = None
        <4>1. l[i] = None
          BY <3>1, <3>2, <3>5 DEF Resolve
        <4> QED
          BY <2>3, <3>4, <3>5, <4>1 DEF SliderEchoed
      <3>6. CASE p # None /\ p # c.setting
        <4>1. l[i] = None \/ l[i].label = p
          BY <3>1, <3>2, <3>6 DEF Resolve
        <4>2. SliderEchoed(l[i], d) = l[i]
          BY <1>1, <3>6, <4>1 DEF SliderEchoed
        <4> QED
          BY <2>3, <3>4, <3>6, <4>2
      <3>7. CASE p # None /\ p = c.setting
        <4>1. c.setting \notin {"SW", "TYPE"}
          BY <3>3, <3>7
        <4>2. EffectOf(t, nm) = c.fx_name
          BY <2>1, <4>1, LoadedName DEF EffectOf
        <4>3. /\ Place(t, n, p, EffectOf(t, nm)).address \in DOMAIN memory
              /\ Value(t, n, p, EffectOf(t, nm)) \in Nat
          <5>1. Place(t, n, p, EffectOf(t, nm)).address = Edits[c].address
                /\ Edits[c].address \in DOMAIN memory
            BY <3>7, <4>2, EditedAt DEF Stored
          <5> QED
            BY <5>1, RawsAreNumbers DEF Value, UnitInv
        <4>4. PICK v \in Nat : l[i] = [label |-> p, value |-> v]
          <5>1. ReadValue(t, n, p, EffectOf(t, nm)) = Value(t, n, p, EffectOf(t, nm))
            BY <1>1, <2>2, <3>7, ReadNumber DEF UnitInv
          <5> QED
            BY <3>1, <3>2, <3>7, <4>3, <5>1, NoneAssumption DEF Resolve
        <4>5. l[i] # None
          BY <3>3, <4>4, NoneAssumption
        <4>6. SliderEchoed(l[i], d) = [label |-> p, value |-> c.raw]
          BY <1>1, <3>7, <4>4, <4>5 DEF SliderEchoed
        <4> QED
          BY <2>3, <3>4, <3>7, <4>1, <4>2, <4>6
      <3> QED
        BY <3>5, <3>6, <3>7
    <2>5. ASSUME ~RereadWaits(t, n)
          PROVE  state'[t][n].sliders = SlidersFor(t, n, nm)'
      <3>1. SlidersFor(t, n, nm)' = [i \in 1..2 |-> SlidersFor(t, n, nm)'[i]]
        BY DEF SlidersFor
      <3> QED
        BY <2>3, <2>4, <2>5, <3>1
    <2>6. SlidersFor(t, n, BlockName(t, n))' = SlidersFor(t, n, nm)'
      BY <2>2 DEF SlidersFor
    <2> QED
      BY <2>2, <2>3, <2>5, <2>6 DEF Current
  <1> QED
    BY <1>7, <1>8

-----------------------------------------------------------------------------
(* The queue.                                                                 *)

LEMMA TaskKind ==
    ASSUME NEW task \in Tasks
    PROVE  task = Full <=> task.kind # "sliders"
  <1>1. Full.kind = "full"
    BY DEF Full
  <1>2. task # Full => task.kind = "sliders"
    BY DEF Tasks
  <1> QED
    BY <1>1, <1>2

\* A task is added.
LEMMA Appended ==
    ASSUME queue \in Seq(Tasks), NEW task \in Tasks, queue' = Append(queue, task)
    PROVE  /\ queue' \in Seq(Tasks)
           /\ \A i \in 1..Len(queue') : queue'[i] = task \/ (i \in 1..Len(queue) /\ queue'[i] = queue[i])
           /\ FullWaits' <=> FullWaits \/ task = Full
           /\ \A t, n : RereadWaits(t, n) => RereadWaits(t, n)'
           /\ task.kind = "sliders" => RereadWaits(task.fx_type, Target(task))'
  <1>1. /\ queue' \in Seq(Tasks) /\ Len(queue') = Len(queue) + 1 /\ Len(queue) \in Nat
        /\ \A i \in 1..Len(queue) : queue'[i] = queue[i]
        /\ queue'[Len(queue) + 1] = task
    OBVIOUS
  <1>2. \A i \in 1..Len(queue') : i \in 1..Len(queue) \/ i = Len(queue) + 1
    BY <1>1
  <1>3. Len(queue) + 1 \in 1..Len(queue') /\ 1..Len(queue) \subseteq 1..Len(queue')
    BY <1>1
  <1>4. \A i \in 1..Len(queue') : queue'[i] = task \/ (i \in 1..Len(queue) /\ queue'[i] = queue[i])
    BY <1>1, <1>2
  <1>5. FullWaits' <=> FullWaits \/ task = Full
    BY <1>1, <1>3, <1>4 DEF FullWaits, Contains
  <1>6. \A t, n : RereadWaits(t, n) => RereadWaits(t, n)'
    BY <1>1, <1>3 DEF RereadWaits
  <1>7. task.kind = "sliders" => RereadWaits(task.fx_type, Target(task))'
    BY <1>1, <1>3 DEF RereadWaits
  <1> QED
    BY <1>1, <1>4, <1>5, <1>6, <1>7

\* The first task is taken.
LEMMA Taken ==
    ASSUME queue \in Seq(Tasks), queue # <<>>, queue' = Tail(queue)
    PROVE  /\ Head(queue) \in Tasks /\ 1 \in 1..Len(queue) /\ Head(queue) = queue[1]
           /\ queue' \in Seq(Tasks)
           /\ \A i \in 1..Len(queue') : i + 1 \in 1..Len(queue) /\ queue'[i] = queue[i + 1]
           /\ FullWaits => FullWaits' \/ Head(queue) = Full
           /\ \A t, n : RereadWaits(t, n) =>
                 \/ RereadWaits(t, n)'
                 \/ Head(queue).fx_type = t /\ Target(Head(queue)) = n
  <1> DEFINE len == Len(queue)
             rest == Tail(queue)
  <1>1. /\ len \in Nat /\ len >= 1 /\ Head(queue) = queue[1] /\ Head(queue) \in Tasks
        /\ rest \in Seq(Tasks) /\ Len(rest) = len - 1
        /\ \A i \in 1..Len(rest) : rest[i] = queue[i + 1]
    OBVIOUS
  <1>2. queue' = rest
    OBVIOUS
  <1> HIDE DEF len, rest
  <1>3. \A i \in 1..Len(rest) : i + 1 \in 1..len
    BY <1>1
  <1>4. \A i \in 1..len : i = 1 \/ (i - 1 \in 1..Len(rest) /\ rest[i - 1] = queue[i])
    <2> TAKE i \in 1..len
    <2>1. CASE i = 1
      BY <2>1
    <2>2. CASE i # 1
      <3>1. i - 1 \in 1..Len(rest) /\ (i - 1) + 1 = i
        BY <1>1, <2>2
      <3> QED
        BY <1>1, <3>1
    <2> QED
      BY <2>1, <2>2
  <1>5. 1 \in 1..len
    BY <1>1
  <1>6. FullWaits => FullWaits' \/ Head(queue) = Full
    BY <1>1, <1>2, <1>4 DEF FullWaits, Contains, len
  <1>7. ASSUME NEW t, NEW n, RereadWaits(t, n)
        PROVE  RereadWaits(t, n)' \/ (Head(queue).fx_type = t /\ Target(Head(queue)) = n)
    <2>1. PICK i \in 1..len : /\ queue[i].kind = "sliders" /\ queue[i].fx_type = t
                               /\ Target(queue[i]) = n
      BY <1>7 DEF RereadWaits, len
    <2>2. CASE i = 1
      BY <1>1, <2>1, <2>2
    <2>3. CASE i # 1
      <3>1. i - 1 \in 1..Len(rest) /\ rest[i - 1] = queue[i]
        BY <1>4, <2>1, <2>3
      <3>2. \E j \in 1..Len(queue') : queue'[j] = queue[i]
        BY <1>2, <3>1
      <3> QED
        BY <2>1, <3>2 DEF RereadWaits, Target
    <2> QED
      BY <2>2, <2>3
  <1> QED
    BY <1>1, <1>2, <1>3, <1>5, <1>6, <1>7 DEF len

LEMMA CurrentKept ==
    ASSUME memory' = memory, NEW t, NEW n, state'[t][n] = state[t][n],
           RereadWaits(t, n) => RereadWaits(t, n)', Current(t, n)
    PROVE  Current(t, n)'
  BY UnitKept DEF Current

-----------------------------------------------------------------------------
(* Steps that change no setting.                                              *)

\* The unit tells what it is: a CORE has an fx block less to be scanned.
LEMMA IdentityStep ==
    ASSUME BlockInv, ApplyIdentity
    PROVE  BlockInv'
  <1>1. /\ fx_count' = IF IsCore THEN 3 ELSE fx_count
        /\ memory' = memory /\ state' = state /\ fx_names' = fx_names
        /\ queue' = queue /\ raised' = raised /\ edits' = edits
    BY DEF ApplyIdentity
  <1>2. IsCore' = IsCore /\ (FullWaits' <=> FullWaits) /\ (Known' <=> Known)
        /\ \A t, n : RereadWaits(t, n)' <=> RereadWaits(t, n)
    BY <1>1 DEF IsCore, FullWaits, Known, RereadWaits
  <1>3. UnitInv'
    BY <1>1, <1>2 DEF BlockInv, UnitInv
  <1>4. ASSUME NEW t \in FxTypes
        PROVE  Count(t)' \in 1..4 /\ Count(t) \in 1..4 /\ Count(t)' <= Count(t)
    BY <1>1, Counted DEF BlockInv, UnitInv, Count
  <1>5. EntriesInv'
    <2>1. ASSUME Known, NEW t \in FxTypes, NEW k \in Count(t)..FxBlockCount(t)
          PROVE  k \in Count(t)'..FxBlockCount(t)
      BY <1>4, CountsAssumption
    <2>2. ASSUME Known
          PROVE  /\ state = [t \in FxTypes |-> state[t]]
                 /\ \A t \in FxTypes :
                      /\ \E k \in Count(t)'..FxBlockCount(t) : DOMAIN state[t] = 1..k
                      /\ state[t] = [n \in DOMAIN state[t] |-> state[t][n]]
                      /\ \A n \in DOMAIN state[t] : IsEntry(state[t][n], NormalizedId(t, n))
      BY <2>1, <2>2 DEF BlockInv, EntriesInv
    <2> QED
      BY <1>1, <1>2, <2>2 DEF EntriesInv
  <1>6. NamesInv' /\ QueueInv'
    BY <1>1, <1>2 DEF BlockInv, NamesInv, QueueInv, Rereadable
  <1>7. CurrentInv'
    <2> SUFFICES ASSUME Known, ~FullWaits
                 PROVE  /\ \A n \in DOMAIN fx_names : fx_names[n] = ReadName("fx", n, "TYPE")'
                        /\ \A t \in FxTypes : \A n \in 1..Count(t)' : Current(t, n)'
      BY <1>1, <1>2 DEF CurrentInv
    <2>1. \A n \in DOMAIN fx_names : fx_names[n] = ReadName("fx", n, "TYPE")'
      BY <1>1, UnitKept DEF BlockInv, CurrentInv
    <2>2. ASSUME NEW t \in FxTypes, NEW n \in 1..Count(t)'
          PROVE  Current(t, n)'
      <3>1. n \in 1..Count(t)
        BY <1>4
      <3>2. Current(t, n)
        BY <3>1 DEF BlockInv, CurrentInv
      <3> QED
        BY <1>1, <1>2, <3>2, CurrentKept
    <2> QED
      BY <2>1, <2>2
  <1> QED
    BY <1>3, <1>5, <1>6, <1>7 DEF BlockInv

\* A scan sets every entry right.
LEMMA ScanInv ==
    ASSUME BlockInv, TablesComplete, FirstRefresh \/ RunFull
    PROVE  BlockInv'
  <1>1. RefreshState /\ UNCHANGED <<memory, fx_count, edits>>
    BY DEF FirstRefresh, RunFull
  <1>2. UnitInv' /\ EntriesInv' /\ NamesInv' /\ CurrentInv' /\ Known'
    BY <1>1, ScanStep DEF BlockInv
  <1>3. IsCore' = IsCore
    BY <1>1 DEF IsCore
  <1>4. queue' \in Seq(Tasks)
        /\ \A i \in 1..Len(queue') : \E j \in 1..Len(queue) : queue'[i] = queue[j]
    <2>1. CASE FirstRefresh
      BY <2>1 DEF FirstRefresh, BlockInv, QueueInv
    <2>2. CASE RunFull
      BY <2>2, Taken DEF RunFull, BlockInv, QueueInv
    <2> QED
      BY <2>1, <2>2
  <1>5. QueueInv'
    BY <1>2, <1>3, <1>4 DEF BlockInv, QueueInv, Rereadable
  <1> QED
    BY <1>2, <1>5 DEF BlockInv

\* Another patch: nothing is claimed until it has been scanned.
LEMMA MemoryTyped ==
    ASSUME NEW m \in Memories
    PROVE  /\ m = [a \in DOMAIN m |-> m[a]]
           /\ None \notin DOMAIN m
           /\ \A a \in DOMAIN m : m[a] \in Raws(a)
  <1>1. PICK p \in Patches, core \in BOOLEAN :
          m = [a \in Addresses(core) |->
                IF \E c \in p : BlockAddress(c.fx_type, c.n, c.setting, c.fx_name) = a
                THEN (CHOOSE c \in p :
                        BlockAddress(c.fx_type, c.n, c.setting, c.fx_name) = a).raw
                ELSE 0]
    BY DEF Memories
  <1>2. None \notin Addresses(core)
    BY DEF Addresses
  <1>3. ASSUME NEW a \in Addresses(core) PROVE m[a] \in Raws(a)
    <2> DEFINE At(c) == BlockAddress(c.fx_type, c.n, c.setting, c.fx_name) = a
    <2>1. m[a] = IF \E c \in p : At(c) THEN (CHOOSE c \in p : At(c)).raw ELSE 0
      BY <1>1
    <2>2. CASE \E c \in p : At(c)
      <3>1. PICK x : x = CHOOSE c \in p : At(c)
        OBVIOUS
      <3>2. x \in p /\ At(x) /\ m[a] = x.raw
        BY <2>1, <2>2, <3>1
      <3>3. x \in Settable
        BY <3>2 DEF Settable
      <3> QED
        BY <3>2, <3>3 DEF Raws
    <2>3. CASE ~\E c \in p : At(c)
      BY <2>1, <2>3 DEF Raws
    <2> QED
      BY <2>2, <2>3
  <1> QED
    BY <1>1, <1>2, <1>3

LEMMA ProgramStep ==
    ASSUME BlockInv, ChangeProgram
    PROVE  BlockInv'
  <1>1. /\ memory' \in Memories /\ DOMAIN memory' = DOMAIN memory
        /\ edits < MaxEdits /\ edits' = edits + 1
        /\ queue' = Append(queue, Full)
        /\ fx_count' = fx_count /\ state' = state /\ fx_names' = fx_names
        /\ raised' \subseteq raised
    BY DEF ChangeProgram
  <1>2. IsCore' = IsCore /\ (Known' <=> Known) /\ \A t \in FxTypes : Count(t)' = Count(t)
    BY <1>1 DEF IsCore, Known, Count
  <1>3. UnitInv'
    <2>1. /\ memory' = [a \in DOMAIN memory' |-> memory'[a]]
          /\ None \notin DOMAIN memory'
          /\ \A a \in DOMAIN memory' : memory'[a] \in Raws(a)
      BY <1>1, MemoryTyped
    <2>2. edits' \in 0..MaxEdits
      BY <1>1, EditsAssumption DEF BlockInv, UnitInv
    <2> QED
      BY <1>1, <1>2, <2>1, <2>2 DEF BlockInv, UnitInv
  <1>4. EntriesInv' /\ NamesInv'
    BY <1>1, <1>2 DEF BlockInv, EntriesInv, NamesInv
  <1>5. /\ FullWaits'
        /\ queue' \in Seq(Tasks)
        /\ \A i \in 1..Len(queue') :
             queue'[i] = Full \/ (i \in 1..Len(queue) /\ queue'[i] = queue[i])
    <2>1. Full \in Tasks /\ queue \in Seq(Tasks)
      BY DEF Tasks, BlockInv, QueueInv
    <2> QED
      BY <1>1, <2>1, Appended
  <1>6. QueueInv'
    BY <1>2, <1>5 DEF BlockInv, QueueInv, Rereadable
  <1>7. CurrentInv'
    BY <1>5 DEF CurrentInv
  <1> QED
    BY <1>3, <1>4, <1>6, <1>7 DEF BlockInv

\* One block read aside records its effect.
LEMMA AskedStep ==
    ASSUME BlockInv, TablesComplete, NEW n \in Asked, GetOneFxState(n)
    PROVE  BlockInv'
  <1>1. /\ n <= fx_count /\ fx_names' = Recorded({n})
        /\ memory' = memory /\ fx_count' = fx_count /\ state' = state
        /\ queue' = queue /\ raised' = raised /\ edits' = edits
    BY Counts DEF GetOneFxState
  <1>2. {n} \in SUBSET (1..fx_count)
    BY <1>1, EditsAssumption DEF BlockInv, UnitInv
  <1>3. IsCore' = IsCore /\ (FullWaits' <=> FullWaits) /\ (Known' <=> Known)
        /\ (\A t, m : RereadWaits(t, m)' <=> RereadWaits(t, m))
        /\ \A t \in FxTypes : Count(t)' = Count(t)
    BY <1>1 DEF IsCore, FullWaits, Known, RereadWaits, Count
  <1>4. UnitInv' /\ EntriesInv' /\ QueueInv'
    BY <1>1, <1>3 DEF BlockInv, UnitInv, EntriesInv, QueueInv, Rereadable
  <1>5. /\ DOMAIN fx_names' = DOMAIN fx_names \cup {n}
        /\ fx_names' = [m \in DOMAIN fx_names' |-> fx_names'[m]]
        /\ fx_names'[n] = ReadName("fx", n, "TYPE")
        /\ \A m \in DOMAIN fx_names \ {n} : fx_names'[m] = fx_names[m]
        /\ DOMAIN fx_names' \subseteq 1..4
        /\ \A m \in DOMAIN fx_names' : fx_names'[m] \in Loadable(m)
        /\ IsCore /\ 4 \in DOMAIN fx_names' => fx_names'[4] = None
    BY <1>1, <1>2, RecordedNames DEF BlockInv
  <1>6. NamesInv'
    BY <1>1, <1>3, <1>5 DEF BlockInv, NamesInv
  <1>7. CurrentInv'
    <2> SUFFICES ASSUME Known, ~FullWaits
                 PROVE  /\ \A m \in DOMAIN fx_names' : fx_names'[m] = ReadName("fx", m, "TYPE")'
                        /\ \A t \in FxTypes : \A m \in 1..Count(t) : Current(t, m)'
      BY <1>3 DEF CurrentInv
    <2>1. ASSUME NEW m \in DOMAIN fx_names'
          PROVE  fx_names'[m] = ReadName("fx", m, "TYPE")'
      <3>1. ReadName("fx", m, "TYPE")' = ReadName("fx", m, "TYPE")
        BY <1>1, UnitKept
      <3>2. CASE m = n
        BY <1>5, <3>1, <3>2
      <3>3. CASE m # n
        <4>1. m \in DOMAIN fx_names \ {n}
          BY <1>5, <3>3
        <4>2. fx_names[m] = ReadName("fx", m, "TYPE")
          BY <4>1 DEF BlockInv, CurrentInv
        <4> QED
          BY <1>5, <3>1, <4>1, <4>2
      <3> QED
        BY <3>2, <3>3
    <2>2. ASSUME NEW t \in FxTypes, NEW m \in 1..Count(t)
          PROVE  Current(t, m)'
      <3>1. Current(t, m)
        BY DEF BlockInv, CurrentInv
      <3> QED
        BY <1>1, <1>3, <3>1, CurrentKept
    <2> QED
      BY <2>1, <2>2
  <1> QED
    BY <1>4, <1>6, <1>7 DEF BlockInv
-----------------------------------------------------------------------------
(* The worker reads the sliders of a block again.                             *)

\* The entry of the block takes the sliders read.
LEMMA RereadEntry ==
    ASSUME UnitInv, EntriesInv, Known, TablesComplete,
           NEW t \in FxTypes, NEW n \in 1..FxBlockCount(t), NEW name, Fits(t, n, name),
           state' = SetSliders(t, NormalizedId(t, n), SlidersFor(t, n, name))
    PROVE  /\ OneEntry(state, state', t, n)
           /\ n \in DOMAIN state[t] =>
                /\ IsEntry(state'[t][n], NormalizedId(t, n))
                /\ state'[t][n].state = state[t][n].state
                /\ state'[t][n].name = state[t][n].name
                /\ state'[t][n].sliders = SlidersFor(t, n, name)
  <1> DEFINE read == SlidersFor(t, n, name)
             entries == [i \in DOMAIN state[t] |-> [state[t][i] EXCEPT !.sliders = read]]
  <1>1. /\ DOMAIN state = FxTypes /\ state = [x \in DOMAIN state |-> state[x]]
        /\ state[t] = [i \in DOMAIN state[t] |-> state[t][i]]
    BY DEF EntriesInv
  <1>2. \A i \in DOMAIN state[t] : state[t][i].fx_id = NormalizedId(t, n) <=> i = n
    BY IdMatches
  <1>3. state' = Changed(state, t, NormalizedId(t, n), entries)
    BY DEF SetSliders
  <1>4. read = [i \in 1..2 |-> read[i]] /\ \A i \in 1..2 : read[i] \in Slider
    BY SlidersTyped DEF SlidersFor
  <1> HIDE DEF read
  <1>5. \A i \in DOMAIN state[t] : entries[i] = [state[t][i] EXCEPT !.sliders = read]
    OBVIOUS
  <1> HIDE DEF entries
  <1>6. /\ DOMAIN state' = DOMAIN state
        /\ state' = [x \in DOMAIN state |-> state'[x]]
        /\ \A x \in DOMAIN state \ {t} : state'[x] = state[x]
        /\ state'[t] = [i \in DOMAIN state[t] |->
             IF state[t][i].fx_id = NormalizedId(t, n) THEN entries[i] ELSE state[t][i]]
    BY <1>1, <1>3 DEF Changed
  <1>7. state'[t] = [i \in DOMAIN state[t] |-> IF i = n THEN entries[i] ELSE state[t][i]]
    BY <1>2, <1>6
  <1>8. OneEntry(state, state', t, n)
    BY <1>6, <1>7 DEF OneEntry
  <1>9. ASSUME n \in DOMAIN state[t]
        PROVE  /\ IsEntry(state'[t][n], NormalizedId(t, n))
               /\ state'[t][n].state = state[t][n].state
               /\ state'[t][n].name = state[t][n].name
               /\ state'[t][n].sliders = read
    <2>1. state'[t][n] = [state[t][n] EXCEPT !.sliders = read]
      BY <1>5, <1>7, <1>9
    <2>2. IsEntry(state[t][n], NormalizedId(t, n))
      BY <1>9, EntriesAt
    <2>3. PICK a, b, l : state[t][n] = [fx_id |-> NormalizedId(t, n), state |-> a,
                                        name |-> b, sliders |-> l]
      BY <2>2, EntryParts
    <2>4. state'[t][n] = [fx_id |-> NormalizedId(t, n), state |-> a,
                          name |-> b, sliders |-> read]
      BY <2>1, <2>3
    <2>5. a \in {"ON", "OFF", None}
      BY <2>2, <2>3 DEF IsEntry
    <2> QED
      BY <1>4, <2>3, <2>4, <2>5 DEF IsEntry
  <1> QED
    BY <1>8, <1>9 DEF read

LEMMA RereadStep ==
    ASSUME BlockInv, TablesComplete, RunSliders
    PROVE  BlockInv'
  <1>1. PICK t : t = Head(queue).fx_type
    OBVIOUS
  <1>2. PICK n : n = Target(Head(queue))
    OBVIOUS
  <1>3. PICK name : name = IF t = "fx" THEN fx_names[n] ELSE None
    OBVIOUS
  <1>4. /\ queue # <<>> /\ queue' = Tail(queue) /\ Head(queue).kind = "sliders"
        /\ memory' = memory /\ fx_count' = fx_count /\ fx_names' = fx_names /\ edits' = edits
        /\ IF SlidersRaise(t, n, name)
           THEN raised' = raised \cup {"reader"} /\ UNCHANGED state
           ELSE /\ state' = SetSliders(t, NormalizedId(t, n), SlidersFor(t, n, name))
                /\ UNCHANGED raised
    BY <1>1, <1>2, <1>3 DEF RunSliders, Target
  <1>5. /\ Head(queue) \in Tasks /\ 1 \in 1..Len(queue) /\ Head(queue) = queue[1]
        /\ queue' \in Seq(Tasks)
        /\ \A i \in 1..Len(queue') : i + 1 \in 1..Len(queue) /\ queue'[i] = queue[i + 1]
        /\ FullWaits => FullWaits' \/ Head(queue) = Full
        /\ \A x, m : RereadWaits(x, m) =>
              \/ RereadWaits(x, m)'
              \/ Head(queue).fx_type = x /\ Target(Head(queue)) = m
    BY <1>4, Taken DEF BlockInv, QueueInv
  <1>6. Head(queue) # Full
    BY <1>4, <1>5, TaskKind
  <1>7. /\ Known /\ n \in 1..FxBlockCount(t)
        /\ IsCore => ~(t = "fx" /\ n = 4)
    BY <1>1, <1>2, <1>5, <1>6 DEF BlockInv, QueueInv, Rereadable
  <1>8. t \in FxTypes \ {"eq"}
    BY <1>1, <1>5, <1>6 DEF Tasks
  <1>9. Fits(t, n, name)
    <2>1. SUFFICES ASSUME t = "fx" PROVE fx_names[n] \in Loadable(n)
      BY <1>3 DEF Fits
    <2>2. n \in 1..fx_count
      BY <1>7, <2>1, CountsAssumption DEF BlockInv, UnitInv
    <2>3. n \in DOMAIN state["fx"]
      BY <1>7, <1>8, <2>1, <2>2, Counts, EntriesAt DEF BlockInv
    <2> QED
      BY <1>7, <2>3 DEF BlockInv, NamesInv
  <1>10. state' = SetSliders(t, NormalizedId(t, n), SlidersFor(t, n, name)) /\ raised' = raised
    BY <1>4, <1>7, <1>8, <1>9, NoneRaises
  <1>11. /\ OneEntry(state, state', t, n)
         /\ n \in DOMAIN state[t] =>
              /\ IsEntry(state'[t][n], NormalizedId(t, n))
              /\ state'[t][n].state = state[t][n].state
              /\ state'[t][n].name = state[t][n].name
              /\ state'[t][n].sliders = SlidersFor(t, n, name)
    BY <1>7, <1>8, <1>9, <1>10, RereadEntry DEF BlockInv
  <1>12. IsCore' = IsCore /\ \A x \in FxTypes : Count(x)' = Count(x)
    BY <1>4 DEF IsCore, Count
  <1>13. EntriesInv' /\ Known' /\ \A x \in FxTypes : DOMAIN state'[x] = DOMAIN state[x]
    BY <1>7, <1>8, <1>11, <1>12, EntriesKept DEF BlockInv
  <1>14. UnitInv'
    BY <1>4, <1>10, <1>12 DEF BlockInv, UnitInv
  <1>15. NamesInv'
    BY <1>4, <1>7, <1>12, <1>13, CountsAssumption DEF BlockInv, NamesInv
  <1>16. QueueInv'
    BY <1>5, <1>12, <1>13 DEF BlockInv, QueueInv, Rereadable
  <1>17. CurrentInv'
    <2> SUFFICES ASSUME ~FullWaits'
                 PROVE  /\ \A m \in DOMAIN fx_names : fx_names[m] = ReadName("fx", m, "TYPE")'
                        /\ \A x \in FxTypes : \A m \in 1..Count(x) : Current(x, m)'
      BY <1>4, <1>12 DEF CurrentInv
    <2>1. /\ \A m \in DOMAIN fx_names : fx_names[m] = ReadName("fx", m, "TYPE")
          /\ \A x \in FxTypes : \A m \in 1..Count(x) : Current(x, m)
      BY <1>5, <1>6, <1>7 DEF BlockInv, CurrentInv
    <2>2. \A m \in DOMAIN fx_names : fx_names[m] = ReadName("fx", m, "TYPE")'
      BY <1>4, <2>1, UnitKept
    <2>3. ASSUME NEW x \in FxTypes, NEW m \in 1..Count(x)
          PROVE  Current(x, m)'
      <3>1. Current(x, m) /\ m \in DOMAIN state[x]
        BY <1>7, <2>1, EntriesAt DEF BlockInv
      <3>2. CASE x = t /\ m = n
        <4>1. /\ ReadName(t, n, "SW")' = ReadName(t, n, "SW")
              /\ BlockName(t, n)' = BlockName(t, n)
              /\ SlidersFor(t, n, BlockName(t, n))' = SlidersFor(t, n, BlockName(t, n))
          BY <1>4, UnitKept
        <4>2. SlidersFor(t, n, name) = SlidersFor(t, n, BlockName(t, n))
          <5>1. CASE t = "fx"
            <6>1. n \in DOMAIN fx_names
              BY <1>7, <3>1, <3>2, <5>1 DEF BlockInv, NamesInv
            <6>2. name = BlockName(t, n)
              BY <1>3, <2>1, <5>1, <6>1 DEF BlockName
            <6> QED
              BY <6>2
          <5>2. CASE t # "fx"
            BY <1>8, <5>2 DEF SlidersFor, Params, EffectOf
          <5> QED
            BY <5>1, <5>2
        <4> QED
          BY <1>11, <3>1, <3>2, <4>1, <4>2 DEF Current
      <3>3. CASE ~(x = t /\ m = n)
        <4>1. state'[x][m] = state[x][m]
          BY <1>11, <1>13, <3>1, <3>3 DEF OneEntry, EntriesInv
        <4>2. RereadWaits(x, m) => RereadWaits(x, m)'
          BY <1>1, <1>2, <1>5, <3>3
        <4> QED
          BY <1>4, <3>1, <4>1, <4>2, CurrentKept
      <3> QED
        BY <3>2, <3>3
    <2> QED
      BY <2>2, <2>3
  <1> QED
    BY <1>13, <1>14, <1>15, <1>16, <1>17 DEF BlockInv
-----------------------------------------------------------------------------
(* Edits, at the panel and by the editor.                                     *)

\* After an edit and its echo each entry is right, or a task will put it right.
LEMMA EditCurrent ==
    ASSUME UnitInv, EntriesInv, Known, TablesComplete,
           NEW c \in Controls \cup Switches, Faithful(c), Stored(c),
           NEW t, t = c.fx_type, NEW n, n = c.n,
           c.setting = "SW" => c.fx_name = None,
           c.fx_name # None <=> t = "fx" /\ c.setting \notin {"SW", "TYPE"},
           c.setting = "TYPE" => t \notin {"ns", "delay"},
           c.setting = "TYPE" /\ n \in DOMAIN state[t] => RereadWaits(t, n)',
           c.fx_name # None => c.fx_name = ReadName("fx", n, "TYPE"),
           OneEntry(state, state', t, n),
           n \in DOMAIN state[t] =>
              state'[t][n] = EntryEchoed(state[t][n], Edits[c].decoded),
           \A x, m : RereadWaits(x, m) => RereadWaits(x, m)',
           NEW x \in FxTypes, NEW m \in 1..Count(x), Current(x, m)
    PROVE  Current(x, m)'
  <1>1. m \in DOMAIN state[x] /\ m \in 1..FxBlockCount(x)
    BY EntriesAt
  <1>2. IsEntry(state[x][m], NormalizedId(x, m))
    BY <1>1, EntriesAt
  <1>3. CASE x = t /\ m = n
    BY <1>1, <1>2, <1>3, EditedBlock
  <1>4. CASE ~(x = t /\ m = n)
    <2>1. state'[x][m] = state[x][m]
      BY <1>1, <1>4 DEF OneEntry, EntriesInv
    <2> QED
      BY <1>1, <1>4, <2>1, OtherBlock
  <1> QED
    BY <1>3, <1>4

\* An edit before the first scan changes the unit alone.
LEMMA EditUnknown ==
    ASSUME BlockInv, ~Known, NEW c \in Controls \cup Switches, Faithful(c), Stored(c),
           Echo(Edits[c].decoded), state' = state
    PROVE  BlockInv'
  <1>1. /\ ~Strays(Edits[c].decoded) /\ ~TypeChanged(Edits[c].decoded)
    BY NothingKnown DEF BlockInv
  <1>2. fx_names' = fx_names /\ queue' = queue /\ raised' \subseteq raised
    BY <1>1 DEF Echo, NamesAfter, Scheduled
  <1>3. UnitInv' /\ IsCore' = IsCore
    BY <1>2, EditedUnit DEF BlockInv
  <1>4. ~Known'
    BY DEF Known
  <1> QED
    BY <1>2, <1>3, <1>4 DEF BlockInv, EntriesInv, NamesInv, QueueInv, Rereadable, CurrentInv

\* Only the TYPE of a block changes what is read as its effect.
LEMMA OtherName ==
    ASSUME UnitInv, TablesComplete, NEW c \in Controls \cup Switches, Faithful(c), Stored(c),
           NEW m \in 1..4,
           ~(c.fx_type = "fx" /\ c.n = m /\ c.setting = "TYPE" /\ c.fx_name = None)
    PROVE  ReadName("fx", m, "TYPE")' = ReadName("fx", m, "TYPE")
  <1>1. <<"fx", m>> \in Blocks
    BY CountsAssumption, Blocked
  <1> QED
    BY <1>1, EditedName

\* A toggle: with or without its echo the entry takes the new state.
LEMMA ToggleStep ==
    ASSUME BlockInv, TablesComplete, EchoesFollowed, NEW c \in Switches, ToggleFxState(c)
    PROVE  BlockInv'
  <1> DEFINE d == Edits[c].decoded
             t == c.fx_type
             n == c.n
  <1>1. Faithful(c) /\ c.setting = "SW" /\ c.fx_name = None
    BY DEF EchoesFollowed
  <1>2. /\ Stored(c) /\ Echo(d)
        /\ state' = IF t \in DOMAIN state
                    THEN SetFx(Applied(d), t, NormalizedId(t, n), c.label)
                    ELSE state
    BY DEF ToggleFxState
  <1>3. t \in FxTypes /\ n \in 1..FxBlockCount(t)
    BY <1>1, EditedAt
  <1>4. CASE ~Known
    <2>1. state' = state
      BY <1>2, <1>4 DEF Known
    <2> QED
      BY <1>1, <1>2, <1>4, <2>1, EditUnknown
  <1>5. CASE Known
    <2>1. DOMAIN state = FxTypes
      BY <1>5 DEF BlockInv, EntriesInv
    <2>2. /\ ~Strays(d) /\ ~TypeChanged(d)
          /\ OneEntry(state, state', t, n)
          /\ n \in DOMAIN state[t] => state'[t][n] = EntryEchoed(state[t][n], d)
      BY <1>2, <1>3, <1>5, <2>1, SwitchedAt DEF BlockInv
    <2>3. fx_names' = fx_names /\ queue' = queue /\ raised' \subseteq raised
      BY <1>2, <2>2 DEF Echo, NamesAfter, Scheduled
    <2>4. UnitInv' /\ IsCore' = IsCore /\ \A x \in FxTypes : Count(x)' = Count(x)
      BY <1>1, <1>2, <2>3, EditedUnit DEF BlockInv
    <2>5. EntriesInv' /\ Known' /\ \A x \in FxTypes : DOMAIN state'[x] = DOMAIN state[x]
      <3>1. ASSUME n \in DOMAIN state[t] PROVE IsEntry(state'[t][n], NormalizedId(t, n))
        <4>1. IsEntry(state[t][n], NormalizedId(t, n))
          BY <1>3, <1>5, <3>1, EntriesAt DEF BlockInv
        <4>2. IsEntry(EntryEchoed(state[t][n], Edits[c].decoded), NormalizedId(t, n))
          BY <1>1, <4>1, EchoTyped
        <4> QED
          BY <2>2, <3>1, <4>2
      <3> QED
        BY <1>3, <1>5, <2>2, <2>4, <3>1, EntriesKept DEF BlockInv
    <2>6. NamesInv' /\ QueueInv'
      BY <1>5, <2>3, <2>4, <2>5, CountsAssumption
      DEF BlockInv, NamesInv, QueueInv, Rereadable
    <2>7. /\ FullWaits' <=> FullWaits
          /\ \A x, m : RereadWaits(x, m) => RereadWaits(x, m)'
      BY <2>3 DEF FullWaits, RereadWaits
    <2>8. CurrentInv'
      <3> SUFFICES ASSUME ~FullWaits
                   PROVE  /\ \A m \in DOMAIN fx_names :
                               fx_names[m] = ReadName("fx", m, "TYPE")'
                          /\ \A x \in FxTypes : \A m \in 1..Count(x) : Current(x, m)'
        BY <2>3, <2>4, <2>7 DEF CurrentInv
      <3>1. /\ \A m \in DOMAIN fx_names : fx_names[m] = ReadName("fx", m, "TYPE")
            /\ \A x \in FxTypes : \A m \in 1..Count(x) : Current(x, m)
        BY <1>5 DEF BlockInv, CurrentInv
      <3>2. ASSUME NEW m \in DOMAIN fx_names
            PROVE  fx_names[m] = ReadName("fx", m, "TYPE")'
        <4>1. m \in 1..4
          BY DEF BlockInv, NamesInv
        <4> QED
          BY <1>1, <1>2, <3>1, <4>1, OtherName DEF BlockInv
      <3>3. ASSUME NEW x \in FxTypes, NEW m \in 1..Count(x)
            PROVE  Current(x, m)'
        <4>1. Current(x, m)
          BY <3>1
        <4> QED
          BY <1>1, <1>2, <1>5, <2>2, <2>7, <4>1, EditCurrent DEF BlockInv
      <3> QED
        BY <3>2, <3>3
    <2> QED
      BY <2>4, <2>5, <2>6, <2>8 DEF BlockInv
  <1> QED
    BY <1>4, <1>5
\* A change of type records the effect and schedules a re-read of the block.
LEMMA TypeFollowed ==
    ASSUME BlockInv, Known, EchoesFollowed, NEW c \in Controls,
           Echo(Edits[c].decoded), c.n \in DOMAIN state[c.fx_type], c.setting = "TYPE"
    PROVE  \E task \in Tasks :
              /\ queue' = Append(queue, task)
              /\ task.kind = "sliders" /\ task.fx_type = c.fx_type /\ Target(task) = c.n
              /\ task # Full
              /\ fx_names' = IF c.fx_type = "fx"
                             THEN [fx_names EXCEPT ![c.n] = Edits[c].decoded.label]
                             ELSE fx_names
  <1> DEFINE d == Edits[c].decoded
             t == c.fx_type
             n == c.n
             task == SlidersTask(t, d.number)
  <1>1. /\ Faithful(c) /\ Numbered(c) /\ t \notin {"ns", "delay", "eq"}
        /\ d.fx_type = t /\ d.setting = "TYPE"
        /\ d.number = IF NormalizedId(t, n) = NoId THEN 0 ELSE n
    BY DEF EchoesFollowed, Faithful, Numbered
  <1>2. t \in FxTypes /\ n \in 1..FxBlockCount(t) /\ n \in 1..4
    BY <1>1, EditedAt, Blocked
  <1>3. TypeChanged(d)
    BY <1>1, Landing DEF BlockInv, TypeChanged
  <1>4. queue' = Append(queue, task)
    BY <1>1, <1>3 DEF Echo, Scheduled
  <1>5. fx_names' = IF t = "fx" THEN [fx_names EXCEPT ![d.number] = d.label] ELSE fx_names
    BY <1>1, <1>3 DEF Echo, NamesAfter
  <1>6. NormalizedId(t, n) = NoId => n = 1 /\ FxBlockCount(t) = 1
    BY <1>2, OnlyBlock
  <1>7. t = "fx" => d.number = n
    BY <1>1, <1>6, CountsAssumption
  <1>8. d.number \in 0..4 /\ (d.number = 0 => n = 1) /\ (d.number # 0 => d.number = n)
    BY <1>1, <1>2, <1>6
  <1> HIDE DEF d, t, n
  <1>9. /\ task \in Tasks /\ task.kind = "sliders" /\ task.fx_type = t /\ Target(task) = n
    BY <1>1, <1>2, <1>8 DEF Tasks, SlidersTask, Target
  <1>10. task # Full
    BY <1>9, TaskKind
  <1> QED
    BY <1>4, <1>5, <1>7, <1>9, <1>10 DEF d, t, n

LEMMA EditStep ==
    ASSUME BlockInv, TablesComplete, EchoesFollowed, NEW c \in Controls, Edited(c),
           Known /\ ~FullWaits /\ c.fx_name # None => c.fx_name = ReadName("fx", c.n, "TYPE")
    PROVE  BlockInv'
  <1> DEFINE d == Edits[c].decoded
             t == c.fx_type
             n == c.n
  <1>1. /\ Faithful(c) /\ Numbered(c)
        /\ c.fx_name # None <=> t = "fx" /\ c.setting \notin {"SW", "TYPE"}
        /\ c.setting = "TYPE" => t \notin {"ns", "delay", "eq"}
        /\ d.setting = c.setting /\ d.fx_type = t
    BY DEF EchoesFollowed, Faithful
  <1>2. Stored(c) /\ Echo(d) /\ state' = Applied(d)
    BY DEF Edited
  <1>3. t \in FxTypes /\ n \in 1..FxBlockCount(t) /\ n \in 1..4
    BY <1>1, EditedAt, Blocked
  <1>4. CASE ~Known
    <2>1. state' = state
      BY <1>2, <1>4, NothingKnown DEF BlockInv
    <2> QED
      BY <1>1, <1>2, <1>4, <2>1, EditUnknown
  <1>5. CASE Known
    <2>1. /\ ~Strays(d)
          /\ Lands(d) <=> n \in DOMAIN state[t]
          /\ OneEntry(state, state', t, n)
          /\ n \in DOMAIN state[t] => state'[t][n] = EntryEchoed(state[t][n], d)
      BY <1>1, <1>2, <1>5, Landing, AppliedAt DEF BlockInv
    <2>2. raised' \subseteq raised
      BY <1>2, <2>1 DEF Echo
    <2>3. UnitInv' /\ IsCore' = IsCore /\ \A x \in FxTypes : Count(x)' = Count(x)
      BY <1>1, <1>2, <2>2, EditedUnit DEF BlockInv
    <2>4. EntriesInv' /\ Known' /\ \A x \in FxTypes : DOMAIN state'[x] = DOMAIN state[x]
      <3>1. ASSUME n \in DOMAIN state[t] PROVE IsEntry(state'[t][n], NormalizedId(t, n))
        <4>1. IsEntry(state[t][n], NormalizedId(t, n))
          BY <1>3, <1>5, <3>1, EntriesAt DEF BlockInv
        <4>2. IsEntry(EntryEchoed(state[t][n], Edits[c].decoded), NormalizedId(t, n))
          BY <1>1, <4>1, EchoTyped
        <4> QED
          BY <2>1, <3>1, <4>2
      <3> QED
        BY <1>3, <1>5, <2>1, <2>3, <3>1, EntriesKept DEF BlockInv
    <2>5. CASE TypeChanged(d)
      <3>1. c.setting = "TYPE" /\ c.fx_name = None /\ n \in DOMAIN state[t]
        BY <1>1, <2>1, <2>5 DEF TypeChanged
      <3>2. t = "fx" => n \in 1..fx_count /\ (IsCore => n # 4)
        BY <1>1, <1>2, <3>1, EditedFx DEF BlockInv
      <3>3. PICK task \in Tasks :
              /\ queue' = Append(queue, task)
              /\ task.kind = "sliders" /\ task.fx_type = t /\ Target(task) = n
              /\ task # Full
              /\ fx_names' = IF t = "fx" THEN [fx_names EXCEPT ![n] = d.label] ELSE fx_names
        BY <1>2, <1>5, <3>1, TypeFollowed
      <3>4. /\ queue' \in Seq(Tasks)
            /\ \A i \in 1..Len(queue') :
                 queue'[i] = task \/ (i \in 1..Len(queue) /\ queue'[i] = queue[i])
            /\ FullWaits' <=> FullWaits
            /\ \A x, m : RereadWaits(x, m) => RereadWaits(x, m)'
            /\ RereadWaits(t, n)'
        BY <3>3, Appended DEF BlockInv, QueueInv
      <3>5. QueueInv'
        BY <1>3, <2>3, <2>4, <3>2, <3>3, <3>4 DEF BlockInv, QueueInv, Rereadable
      <3>6. t = "fx" => d.label \in Loadable(n) /\ d.label = ReadName("fx", n, "TYPE")'
        <4>1. SUFFICES ASSUME t = "fx"
                       PROVE  d.label \in Loadable(n) /\ d.label = ReadName("fx", n, "TYPE")'
          OBVIOUS
        <4>2. d.label = LabelForRaw(Place("fx", n, "TYPE", None).entry.values, c.raw)
          BY <1>1, <3>1, <4>1 DEF Faithful, Place
        <4>3. c.raw \in Raws(Place("fx", n, "TYPE", None).address)
          BY <1>1, <3>1, <4>1, EditedAt
        <4>4. d.label \in Loadable(n)
          BY <4>2, <4>3 DEF Loadable
        <4>5. <<"fx", n>> \in Blocks
          BY <1>3, <4>1, Blocked
        <4>6. d.label = ReadName("fx", n, "TYPE")'
          BY <1>1, <1>2, <3>1, <4>1, <4>5, EditedName DEF BlockInv
        <4> QED
          BY <4>4, <4>6
      <3>7. t = "fx" => n \in DOMAIN fx_names
        BY <1>5, <3>1 DEF BlockInv, NamesInv
      <3>8. /\ DOMAIN fx_names' = DOMAIN fx_names
            /\ fx_names' = [m \in DOMAIN fx_names' |-> fx_names'[m]]
            /\ \A m \in DOMAIN fx_names :
                 fx_names'[m] = IF t = "fx" /\ m = n THEN d.label ELSE fx_names[m]
        <4>1. fx_names = [m \in DOMAIN fx_names |-> fx_names[m]]
          BY DEF BlockInv, NamesInv
        <4> HIDE DEF d, t, n
        <4> QED
          BY <3>3, <3>7, <4>1
      <3>9. NamesInv'
        <4>1. DOMAIN fx_names' \subseteq 1..4 /\ DOMAIN state'["fx"] \subseteq DOMAIN fx_names'
          BY <1>5, <2>4, <3>8, CountsAssumption DEF BlockInv, NamesInv
        <4>2. \A m \in DOMAIN fx_names' : fx_names'[m] \in Loadable(m)
          BY <3>6, <3>8 DEF BlockInv, NamesInv
        <4>3. IsCore' /\ 4 \in DOMAIN fx_names' => fx_names'[4] = None
          BY <2>3, <3>2, <3>8 DEF BlockInv, NamesInv
        <4> QED
          BY <3>8, <4>1, <4>2, <4>3 DEF NamesInv
      <3>10. CurrentInv'
        <4> SUFFICES ASSUME ~FullWaits
                     PROVE  /\ \A m \in DOMAIN fx_names' :
                                 fx_names'[m] = ReadName("fx", m, "TYPE")'
                            /\ \A x \in FxTypes : \A m \in 1..Count(x) : Current(x, m)'
          BY <2>3, <3>4 DEF CurrentInv
        <4>1. /\ \A m \in DOMAIN fx_names : fx_names[m] = ReadName("fx", m, "TYPE")
              /\ \A x \in FxTypes : \A m \in 1..Count(x) : Current(x, m)
          BY <1>5 DEF BlockInv, CurrentInv
        <4>2. ASSUME NEW m \in DOMAIN fx_names'
              PROVE  fx_names'[m] = ReadName("fx", m, "TYPE")'
          <5>1. m \in DOMAIN fx_names /\ m \in 1..4
            BY <3>8 DEF BlockInv, NamesInv
          <5>2. CASE t = "fx" /\ m = n
            BY <3>6, <3>8, <5>1, <5>2
          <5>3. CASE ~(t = "fx" /\ m = n)
            <6>1. ReadName("fx", m, "TYPE")' = ReadName("fx", m, "TYPE")
              BY <1>1, <1>2, <5>1, <5>3, OtherName DEF BlockInv
            <6> QED
              BY <3>8, <4>1, <5>1, <5>3, <6>1
          <5> QED
            BY <5>2, <5>3
        <4>3. ASSUME NEW x \in FxTypes, NEW m \in 1..Count(x)
              PROVE  Current(x, m)'
          <5>1. Current(x, m)
            BY <4>1
          <5> QED
            BY <1>1, <1>2, <1>5, <2>1, <3>1, <3>4, <5>1, EditCurrent DEF BlockInv
        <4> QED
          BY <4>2, <4>3
      <3> QED
        BY <2>3, <2>4, <3>5, <3>9, <3>10 DEF BlockInv
    <2>6. CASE ~TypeChanged(d)
      <3>1. fx_names' = fx_names /\ queue' = queue
        BY <1>2, <2>6 DEF Echo, NamesAfter, Scheduled
      <3>2. c.setting = "TYPE" => n \notin DOMAIN state[t]
        BY <1>1, <2>1, <2>6 DEF TypeChanged
      <3>3. NamesInv' /\ QueueInv'
        BY <1>5, <2>3, <2>4, <3>1, CountsAssumption
        DEF BlockInv, NamesInv, QueueInv, Rereadable
      <3>4. /\ FullWaits' <=> FullWaits
            /\ \A x, m : RereadWaits(x, m) => RereadWaits(x, m)'
        BY <3>1 DEF FullWaits, RereadWaits
      <3>5. CurrentInv'
        <4> SUFFICES ASSUME ~FullWaits
                     PROVE  /\ \A m \in DOMAIN fx_names :
                                 fx_names[m] = ReadName("fx", m, "TYPE")'
                            /\ \A x \in FxTypes : \A m \in 1..Count(x) : Current(x, m)'
          BY <2>3, <3>1, <3>4 DEF CurrentInv
        <4>1. /\ \A m \in DOMAIN fx_names : fx_names[m] = ReadName("fx", m, "TYPE")
              /\ \A x \in FxTypes : \A m \in 1..Count(x) : Current(x, m)
          BY <1>5 DEF BlockInv, CurrentInv
        <4>2. ~(t = "fx" /\ c.setting = "TYPE" /\ c.fx_name = None)
          <5>1. SUFFICES ASSUME t = "fx", c.setting = "TYPE", c.fx_name = None PROVE FALSE
            OBVIOUS
          <5>2. n \in 1..fx_count
            BY <1>1, <1>2, <5>1, EditedFx DEF BlockInv
          <5>3. n \in DOMAIN state[t]
            BY <1>3, <1>5, <5>1, <5>2, EntriesAt, Counts DEF BlockInv
          <5> QED
            BY <3>2, <5>1, <5>3
        <4>3. ASSUME NEW m \in DOMAIN fx_names
              PROVE  fx_names[m] = ReadName("fx", m, "TYPE")'
          <5>1. m \in 1..4
            BY DEF BlockInv, NamesInv
          <5>2. ReadName("fx", m, "TYPE")' = ReadName("fx", m, "TYPE")
            BY <1>1, <1>2, <4>2, <5>1, OtherName DEF BlockInv
          <5> QED
            BY <4>1, <5>2
        <4>4. ASSUME NEW x \in FxTypes, NEW m \in 1..Count(x)
              PROVE  Current(x, m)'
          <5>1. Current(x, m)
            BY <4>1
          <5> QED
            BY <1>1, <1>2, <1>5, <2>1, <3>2, <3>4, <5>1, EditCurrent DEF BlockInv
        <4> QED
          BY <4>3, <4>4
      <3> QED
        BY <2>3, <2>4, <3>3, <3>5 DEF BlockInv
    <2> QED
      BY <2>5, <2>6
  <1> QED
    BY <1>4, <1>5

\* An edit of no block: no block reads otherwise, and its echo changes nothing.
LEMMA StrangerEcho ==
    ASSUME BlockInv, EchoesFollowed, NEW c \in Strangers, PanelElsewhere(c)
    PROVE  state' = state /\ fx_names' = fx_names /\ queue' = queue
           /\ raised' \subseteq {"inbound"}
  <1> DEFINE d == Edits[c].decoded
  <1>1. Echo(d) /\ state' = Applied(d)
    BY DEF PanelElsewhere, Edited
  <1>2. ~Lands(d)
    <2>1. SUFFICES ASSUME Reaches(d) PROVE Strays(d)
      BY DEF Lands
    <2>2. d.fx_type = None /\ Known
      BY <2>1, ReadyWhenKnown DEF Reaches, EchoesFollowed, BlockInv
    <2>3. DOMAIN state = FxTypes
      BY <2>2 DEF BlockInv, EntriesInv
    <2> QED
      BY <2>1, <2>2, <2>3, NoneAssumption DEF Strays
  <1> QED
    BY <1>1, <1>2 DEF Echo, Applied, NamesAfter, Scheduled, TypeChanged, BlockInv, UnitInv

LEMMA StrangerValue ==
    ASSUME EchoesFollowed, NEW c \in Strangers, Stored(c),
           NEW t, NEW n, <<t, n>> \in Blocks, NEW s \in SettingNames, NEW e \in Effects
    PROVE  Value(t, n, s, e)' = Value(t, n, s, e)
  <1> DEFINE a == Place(t, n, s, e).address
  <1>1. memory' = [memory EXCEPT ![Edits[c].address] = c.raw]
    BY DEF Stored
  <1>2. a # Edits[c].address
    BY DEF EchoesFollowed, Place
  <1>3. Value(t, n, s, e) = IF a \in DOMAIN memory THEN memory[a] ELSE None
    BY DEF Value
  <1>4. Value(t, n, s, e)' = IF a \in DOMAIN memory' THEN memory'[a] ELSE None
    BY DEF Value
  <1> HIDE DEF a
  <1> QED
    BY <1>1, <1>2, <1>3, <1>4

LEMMA StrangerRead ==
    ASSUME UnitInv, TablesComplete, EchoesFollowed, NEW c \in Strangers, Stored(c),
           NEW t \in FxTypes, NEW n \in 1..FxBlockCount(t)
    PROVE  /\ ReadName(t, n, "SW")' = ReadName(t, n, "SW")
           /\ ReadName(t, n, "TYPE")' = ReadName(t, n, "TYPE")
           /\ BlockName(t, n)' = BlockName(t, n)
           /\ SlidersFor(t, n, BlockName(t, n))' = SlidersFor(t, n, BlockName(t, n))
  <1>1. <<t, n>> \in Blocks
    BY Blocked
  <1>2. ASSUME NEW s \in {"SW", "TYPE"} PROVE ReadName(t, n, s)' = ReadName(t, n, s)
    <2>1. Value(t, n, s, None)' = Value(t, n, s, None)
      BY <1>1, StrangerValue, Plain
    <2> QED
      BY <2>1 DEF ReadName
  <1>3. BlockName(t, n)' = BlockName(t, n)
    BY <1>2 DEF BlockName
  <1>4. PICK nm : nm = BlockName(t, n)
    OBVIOUS
  <1>5. Fits(t, n, nm)
    BY <1>4, LoadedName DEF Fits
  <1>6. ASSUME NEW i \in 1..2
        PROVE  SlidersFor(t, n, nm)'[i] = SlidersFor(t, n, nm)[i]
    <2>1. PICK p : p = Params(t, nm)[i]
      OBVIOUS
    <2>2. PICK e : e = EffectOf(t, nm)
      OBVIOUS
    <2>3. p # None => Value(t, n, p, e)' = Value(t, n, p, e)
      BY <1>1, <1>5, <2>1, <2>2, ParamPlaced, StrangerValue
    <2>4. Resolve(t, n, p, e)' = Resolve(t, n, p, e)
      BY <2>3 DEF Resolve, ReadValue
    <2> QED
      BY <2>1, <2>2, <2>4 DEF SlidersFor
  <1>7. SlidersFor(t, n, nm)' = SlidersFor(t, n, nm)
    BY <1>6 DEF SlidersFor
  <1>8. SlidersFor(t, n, BlockName(t, n))' = SlidersFor(t, n, nm)'
    BY <1>3, <1>4 DEF SlidersFor
  <1> QED
    BY <1>2, <1>3, <1>4, <1>7, <1>8

LEMMA StrangerStep ==
    ASSUME BlockInv, TablesComplete, EchoesFollowed, NEW c \in Strangers, PanelElsewhere(c)
    PROVE  BlockInv'
  <1>1. /\ state' = state /\ fx_names' = fx_names /\ queue' = queue
        /\ raised' \subseteq {"inbound"}
    BY StrangerEcho
  <1>2. /\ Edits[c].address \in DOMAIN memory
        /\ memory' = [memory EXCEPT ![Edits[c].address] = c.raw]
        /\ edits < MaxEdits /\ edits' = edits + 1 /\ fx_count' = fx_count
        /\ Stored(c)
    BY DEF PanelElsewhere, Edited, Stored
  <1>3. /\ IsCore' = IsCore /\ (FullWaits' <=> FullWaits) /\ (Known' <=> Known)
        /\ (\A t, n : RereadWaits(t, n)' <=> RereadWaits(t, n))
        /\ \A t \in FxTypes : Count(t)' = Count(t)
    BY <1>1, <1>2 DEF IsCore, FullWaits, Known, RereadWaits, Count
  <1>4. UnitInv'
    <2>1. c.raw \in Raws(Edits[c].address)
      <3>1. c \in Settable /\
            Edits[c].address = BlockAddress(c.fx_type, c.n, c.setting, c.fx_name)
        BY EchoesAssumption DEF AllEdits, Settable
      <3> QED
        BY <3>1 DEF Raws
    <2>2. /\ memory' = [a \in DOMAIN memory' |-> memory'[a]]
          /\ \A a \in DOMAIN memory' : memory'[a] \in Raws(a)
      BY <1>2, <2>1 DEF BlockInv, UnitInv
    <2>3. edits' \in 0..MaxEdits
      BY <1>2, EditsAssumption DEF BlockInv, UnitInv
    <2> QED
      BY <1>1, <1>2, <1>3, <2>2, <2>3 DEF BlockInv, UnitInv
  <1>5. EntriesInv' /\ NamesInv' /\ QueueInv'
    BY <1>1, <1>3 DEF BlockInv, EntriesInv, NamesInv, QueueInv, Rereadable
  <1>6. CurrentInv'
    <2> SUFFICES ASSUME Known, ~FullWaits
                 PROVE  /\ \A m \in DOMAIN fx_names : fx_names[m] = ReadName("fx", m, "TYPE")'
                        /\ \A x \in FxTypes : \A m \in 1..Count(x) : Current(x, m)'
      BY <1>1, <1>3 DEF CurrentInv
    <2>1. ASSUME NEW m \in DOMAIN fx_names
          PROVE  fx_names[m] = ReadName("fx", m, "TYPE")'
      <3>1. m \in 1..FxBlockCount("fx") /\ "fx" \in FxTypes
        BY CountsAssumption DEF BlockInv, NamesInv
      <3>2. ReadName("fx", m, "TYPE")' = ReadName("fx", m, "TYPE")
        BY <1>2, <3>1, StrangerRead DEF BlockInv
      <3> QED
        BY <3>2 DEF BlockInv, CurrentInv
    <2>2. ASSUME NEW x \in FxTypes, NEW m \in 1..Count(x)
          PROVE  Current(x, m)'
      <3>1. m \in 1..FxBlockCount(x)
        BY Counted DEF BlockInv, UnitInv
      <3>2. Current(x, m)
        BY DEF BlockInv, CurrentInv
      <3>3. /\ ReadName(x, m, "SW")' = ReadName(x, m, "SW")
            /\ BlockName(x, m)' = BlockName(x, m)
            /\ SlidersFor(x, m, BlockName(x, m))' = SlidersFor(x, m, BlockName(x, m))
        BY <1>2, <3>1, StrangerRead DEF BlockInv
      <3> QED
        BY <1>1, <1>3, <3>2, <3>3 DEF Current
    <2> QED
      BY <2>1, <2>2
  <1> QED
    BY <1>4, <1>5, <1>6 DEF BlockInv

-----------------------------------------------------------------------------
(* The invariant holds.                                                       *)

\* The setting of a slider on show is one of the effect recorded.
LEMMA ShownEffect ==
    ASSUME BlockInv, EchoesFollowed, ~FullWaits, NEW c \in Controls, Shown(c)
    PROVE  Known /\ (c.fx_type = "fx" => c.fx_name = ReadName("fx", c.n, "TYPE"))
  <1>1. Known /\ c.fx_type \in DOMAIN state
    BY DEF Shown, Known
  <1>2. SUFFICES ASSUME c.fx_type = "fx" PROVE c.fx_name = ReadName("fx", c.n, "TYPE")
    BY <1>1
  <1>3. Faithful(c)
    BY DEF EchoesFollowed
  <1>4. c.n \in 1..FxBlockCount("fx") /\ "fx" \in FxTypes
    BY <1>2, <1>3, EditedAt
  <1>5. PICK i \in DOMAIN state["fx"] : state["fx"][i].fx_id = NormalizedId("fx", c.n)
    BY <1>2 DEF Shown, Range
  <1>6. c.n \in DOMAIN state["fx"]
    BY <1>1, <1>4, <1>5, IdMatches DEF BlockInv
  <1>7. c.n \in DOMAIN fx_names
    BY <1>1, <1>6 DEF BlockInv, NamesInv
  <1>8. c.fx_name = fx_names[c.n]
    BY <1>2 DEF Shown
  <1> QED
    BY <1>1, <1>7, <1>8 DEF BlockInv, CurrentInv

LEMMA BlockInit ==
    ASSUME Init
    PROVE  BlockInv
  <1>1. UnitInv
    BY MemoryTyped, CountsAssumption, EditsAssumption DEF Init, UnitInv
  <1>2. ~Known
    BY DEF Init, Known
  <1>3. NamesInv
    BY <1>2 DEF Init, NamesInv
  <1>4. QueueInv
    BY DEF Init, QueueInv
  <1> QED
    BY <1>1, <1>2, <1>3, <1>4 DEF BlockInv, EntriesInv, CurrentInv

LEMMA BlockStutter ==
    ASSUME BlockInv, UNCHANGED vars
    PROVE  BlockInv'
  <1>1. /\ memory' = memory /\ fx_count' = fx_count /\ state' = state
        /\ fx_names' = fx_names /\ queue' = queue /\ raised' = raised /\ edits' = edits
    BY DEF vars
  <1>2. /\ IsCore' = IsCore /\ (FullWaits' <=> FullWaits) /\ (Known' <=> Known)
        /\ \A t, n : RereadWaits(t, n)' <=> RereadWaits(t, n)
        /\ \A t \in FxTypes : Count(t)' = Count(t)
    BY <1>1 DEF IsCore, FullWaits, Known, RereadWaits, Count
  <1>3. UnitInv' /\ EntriesInv' /\ NamesInv' /\ QueueInv'
    BY <1>1, <1>2 DEF BlockInv, UnitInv, EntriesInv, NamesInv, QueueInv, Rereadable
  <1>4. CurrentInv'
    <2> SUFFICES ASSUME Known, ~FullWaits
                 PROVE  /\ \A m \in DOMAIN fx_names : fx_names[m] = ReadName("fx", m, "TYPE")'
                        /\ \A x \in FxTypes : \A m \in 1..Count(x) : Current(x, m)'
      BY <1>1, <1>2 DEF CurrentInv
    <2>1. \A m \in DOMAIN fx_names : fx_names[m] = ReadName("fx", m, "TYPE")'
      BY <1>1, UnitKept DEF BlockInv, CurrentInv
    <2>2. ASSUME NEW x \in FxTypes, NEW m \in 1..Count(x)
          PROVE  Current(x, m)'
      <3>1. Current(x, m)
        BY DEF BlockInv, CurrentInv
      <3> QED
        BY <1>1, <1>2, <3>1, CurrentKept
    <2> QED
      BY <2>1, <2>2
  <1> QED
    BY <1>3, <1>4 DEF BlockInv

LEMMA BlockStep ==
    ASSUME BlockInv, TablesComplete, EchoesFollowed, [Next]_vars
    PROVE  BlockInv'
  <1>1. CASE ApplyIdentity
    BY <1>1, IdentityStep
  <1>2. CASE FirstRefresh
    BY <1>2, ScanInv
  <1>3. CASE RunFull
    BY <1>3, ScanInv
  <1>4. CASE RunSliders
    BY <1>4, RereadStep
  <1>5. CASE \E c \in Controls : PanelEdit(c)
    <2>1. PICK c \in Controls : PanelEdit(c)
      BY <1>5
    <2>2. c.fx_name # None => c.fx_type = "fx"
      BY DEF EchoesFollowed
    <2>3. Edited(c) /\ (c.fx_name # None => c.fx_name = ReadName("fx", c.n, "TYPE"))
      BY <2>1, <2>2 DEF PanelEdit
    <2> QED
      BY <2>3, EditStep
  <1>6. CASE \E c \in Controls : SetFxValue(c)
    <2>1. PICK c \in Controls : SetFxValue(c)
      BY <1>6
    <2>2. c.fx_name # None => c.fx_type = "fx"
      BY DEF EchoesFollowed
    <2>3. Edited(c) /\ Shown(c)
      BY <2>1 DEF SetFxValue
    <2>4. ~FullWaits /\ c.fx_name # None => c.fx_name = ReadName("fx", c.n, "TYPE")
      BY <2>2, <2>3, ShownEffect
    <2> QED
      BY <2>3, <2>4, EditStep
  <1>7. CASE \E c \in Controls : SetFxTypeType(c)
    <2>1. PICK c \in Controls : SetFxTypeType(c)
      BY <1>7
    <2>2. Edited(c) /\ c.fx_name = None
      BY <2>1 DEF SetFxTypeType
    <2> QED
      BY <2>2, EditStep
  <1>8. CASE \E c \in Switches : ToggleFxState(c)
    BY <1>8, ToggleStep
  <1>9. CASE ChangeProgram
    BY <1>9, ProgramStep
  <1>10. CASE \E n \in Asked : GetOneFxState(n)
    BY <1>10, AskedStep
  <1>11. CASE \E c \in Strangers : PanelElsewhere(c)
    BY <1>11, StrangerStep
  <1>12. CASE UNCHANGED vars
    BY <1>12, BlockStutter
  <1> QED
    BY <1>1, <1>2, <1>3, <1>4, <1>5, <1>6, <1>7, <1>8, <1>9, <1>10, <1>11, <1>12 DEF Next

LEMMA BlockAll ==
    ASSUME TablesComplete, EchoesFollowed
    PROVE  Spec => []BlockInv
  <1>1. Init => BlockInv
    BY BlockInit
  <1>2. BlockInv /\ [Next]_vars => BlockInv'
    BY BlockStep
  <1> QED
    BY <1>1, <1>2, PTL DEF Spec

-----------------------------------------------------------------------------
(* The results.                                                               *)

\* Entries, effects and tasks keep their types: an entry at place n is that of
\* block n, and its sliders are among those a block has.
THEOREM TypeTheorem ==
    ASSUME TablesComplete, EchoesFollowed
    PROVE  Spec => []TypeOK
  <1>1. BlockInv => TypeOK
    <2> SUFFICES ASSUME BlockInv PROVE TypeOK
      OBVIOUS
    <2>1. ASSUME NEW t \in DOMAIN state
          PROVE  t \in FxTypes /\ \A i \in DOMAIN state[t] :
                   /\ state[t][i].fx_id = NormalizedId(t, i)
                   /\ state[t][i].state \in {"ON", "OFF", None}
                   /\ \A k \in 1..2 : state[t][i].sliders[k] # None =>
                         state[t][i].sliders[k].label \in Sliders \ {None}
      <3>1. Known
        BY DEF Known
      <3>2. t \in FxTypes
        BY <3>1 DEF BlockInv, EntriesInv
      <3>3. ASSUME NEW i \in DOMAIN state[t]
            PROVE  /\ state[t][i].fx_id = NormalizedId(t, i)
                   /\ state[t][i].state \in {"ON", "OFF", None}
                   /\ \A k \in 1..2 : state[t][i].sliders[k] \in Slider
        <4>1. IsEntry(state[t][i], NormalizedId(t, i))
          BY <3>1, <3>2, EntriesAt DEF BlockInv
        <4>2. state[t][i].fx_id = NormalizedId(t, i)
          BY <4>1, EntryId
        <4> QED
          BY <4>1, <4>2 DEF IsEntry
      <3> QED
        BY <3>2, <3>3 DEF Slider
    <2>2. \A i \in DOMAIN queue : queue[i] = Full \/ queue[i].fx_type \in FxTypes
      BY DEF BlockInv, QueueInv, Tasks
    <2> QED
      BY <2>1, <2>2 DEF TypeOK, BlockInv, UnitInv, NamesInv
  <1> QED
    BY <1>1, BlockAll, PTL

\* Echoes and the re-reads they lead to leave what a scan would install: with
\* no task waiting each entry is its block's, name, switch and sliders
\* (gt1000._process_data_from_unit, patch_state.py, refresh.py).
THEOREM IncrementalTheorem ==
    ASSUME TablesComplete, EchoesFollowed
    PROVE  Spec => []IncrementalIsScan
  <1>1. BlockInv => IncrementalIsScan
    <2> SUFFICES ASSUME BlockInv, Ready, queue = <<>>,
                        NEW t \in FxTypes, NEW n \in 1..Count(t)
                 PROVE  n \in DOMAIN state[t] /\ state[t][n] = Snapshot(t, n)
      BY DEF IncrementalIsScan
    <2>1. Known
      BY ReadyWhenKnown DEF BlockInv
    <2>2. ~FullWaits /\ ~RereadWaits(t, n)
      BY DEF FullWaits, Contains, RereadWaits
    <2>3. n \in DOMAIN state[t]
      BY <2>1, EntriesAt DEF BlockInv
    <2>4. IsEntry(state[t][n], NormalizedId(t, n))
      BY <2>1, <2>3, EntriesAt DEF BlockInv
    <2>5. Current(t, n)
      BY <2>1, <2>2 DEF BlockInv, CurrentInv
    <2>6. PICK a, b, l : state[t][n] = [fx_id |-> NormalizedId(t, n), state |-> a,
                                        name |-> b, sliders |-> l]
      BY <2>4, EntryParts
    <2>7. /\ a = ReadName(t, n, "SW") /\ b = BlockName(t, n)
          /\ l = SlidersFor(t, n, BlockName(t, n))
      BY <2>2, <2>5, <2>6 DEF Current
    <2> QED
      BY <2>3, <2>6, <2>7 DEF Snapshot
  <1> QED
    BY <1>1, BlockAll, PTL

\* The effect recorded for an fx block is the one loaded in it, unless a
\* program change is still to be followed (patch_state.set_fx_name).
THEOREM LoadedTheorem ==
    ASSUME TablesComplete, EchoesFollowed
    PROVE  Spec => []LoadedEffect
  <1>1. BlockInv => LoadedEffect
    BY ReadyWhenKnown DEF BlockInv, LoadedEffect, CurrentInv, FullWaits
  <1> QED
    BY <1>1, BlockAll, PTL

\* A slider moved moves the parameter of the effect that is loaded, even while
\* the slider shown is that of the effect before (gt1000.set_fx_value).
THEOREM ReachesTheorem ==
    ASSUME TablesComplete, EchoesFollowed
    PROVE  Spec => []ValueReaches
  <1>1. BlockInv => ValueReaches
    <2> SUFFICES ASSUME BlockInv, ~FullWaits, NEW c \in Controls, Shown(c)
                 PROVE  Edits[c].address =
                          Place(c.fx_type, c.n, c.setting,
                                EffectOf(c.fx_type, ReadName(c.fx_type, c.n, "TYPE"))).address
      BY DEF ValueReaches, FullWaits
    <2>1. Faithful(c) /\ (c.fx_name # None => c.fx_type = "fx")
      BY DEF EchoesFollowed
    <2>2. c.fx_name = EffectOf(c.fx_type, ReadName(c.fx_type, c.n, "TYPE"))
      BY <2>1, ShownEffect DEF EffectOf
    <2> QED
      BY <2>1, <2>2, EditedAt
  <1> QED
    BY <1>1, BlockAll, PTL

-----------------------------------------------------------------------------
(* Echoes of no block, on whatever tables and patches.  Only the switches are *)
(* supposed to be switches of fx types: a toggle writes its entry after its   *)
(* echo.                                                                      *)

\* Nothing but fx types is ever scanned.
ScannedTypes == DOMAIN state \subseteq FxTypes

LEMMA ScannedStep ==
    ASSUME ScannedTypes, [Next]_vars
    PROVE  ScannedTypes'
  <1>1. ASSUME RefreshState PROVE ScannedTypes'
    <2>1. ASSUME NEW types \in SUBSET FxTypes, state' = Scanned(types)
          PROVE  ScannedTypes'
      BY <2>1 DEF Scanned, ScannedTypes
    <2>2. \A i \in DOMAIN ScanOrder : ScanOrder[i] \in FxTypes
      BY OrderAssumption DEF Range
    <2>3. CASE state' = Scanned(FxTypes)
      BY <2>1, <2>3
    <2>4. CASE \E i \in DOMAIN ScanOrder :
                  state' = Scanned({ScanOrder[j] : j \in 1..(i - 1)})
      <3>1. PICK i \in DOMAIN ScanOrder :
                  state' = Scanned({ScanOrder[j] : j \in 1..(i - 1)})
        BY <2>4
      <3>2. {ScanOrder[j] : j \in 1..(i - 1)} \subseteq FxTypes
        BY OrderAssumption, <2>2, <3>1
      <3> QED
        BY <2>1, <3>1, <3>2
    <2> QED
      BY <1>1, <2>3, <2>4 DEF RefreshState
  <1>2. \A d : DOMAIN Applied(d) = DOMAIN state
    BY DEF Applied, Changed
  <1>3. \A st, t, id, value : DOMAIN SetFx(st, t, id, value) = DOMAIN st
    BY DEF SetFx, Changed
  <1>4. \A t, id, sliders : DOMAIN SetSliders(t, id, sliders) = DOMAIN state
    BY DEF SetSliders, Changed
  <1>5. CASE FirstRefresh \/ RunFull
    BY <1>1, <1>5 DEF FirstRefresh, RunFull
  <1>6. CASE RunSliders
    BY <1>4, <1>6 DEF RunSliders, ScannedTypes
  <1>7. CASE \E c : Edited(c)
    BY <1>2, <1>7 DEF Edited, ScannedTypes
  <1>8. CASE \E c : ToggleFxState(c)
    BY <1>2, <1>3, <1>8 DEF ToggleFxState, ScannedTypes
  <1>9. CASE state' = state
    BY <1>9 DEF ScannedTypes
  <1> QED
    BY <1>5, <1>6, <1>7, <1>8, <1>9
    DEF Next, vars, ApplyIdentity, PanelEdit, SetFxValue, SetFxTypeType,
        PanelElsewhere, ChangeProgram, GetOneFxState

\* What finds no entries to change changes nothing.
LEMMA StrayKept ==
    ASSUME ScannedTypes, NEW c, Echo(Edits[c].decoded), "inbound" \in raised'
    PROVE  /\ Edits[c].decoded.fx_type \notin FxTypes
           /\ Applied(Edits[c].decoded) = state
           /\ fx_names' = fx_names /\ queue' = queue
  <1> DEFINE d == Edits[c].decoded
  <1>1. Strays(d)
    BY DEF Echo
  <1>2. DOMAIN state = FxTypes
    <2>1. Cardinality(DOMAIN state) = Cardinality(FxTypes)
      BY <1>1 DEF Strays, Reaches, Ready
    <2> QED
      BY <2>1, FS_Subset, CountsAssumption DEF ScannedTypes
  <1>3. ~Lands(d) /\ ~TypeChanged(d)
    BY <1>1 DEF Lands, TypeChanged
  <1> QED
    BY <1>1, <1>2, <1>3 DEF Strays, Applied, Echo, NamesAfter, Scheduled

\* An echo raises in the inbound thread only when it is of no fx type, and then
\* every entry, effect and task is what it was (patch_state.apply): this holds
\* of any tables, patches and edits, those the known state does not follow too.
THEOREM AbsorbedTheorem ==
    ASSUME SwitchesOfBlocks
    PROVE  Spec => EchoesAbsorbed
  <1> DEFINE Absorbed ==
        edits' # edits /\ "inbound" \in raised' =>
          /\ \E c \in DOMAIN Edits :
                /\ Edits[c].decoded.fx_type \notin FxTypes
                /\ memory' = [memory EXCEPT ![Edits[c].address] = c.raw]
          /\ UNCHANGED <<state, fx_names, queue>>
  <1>1. Init => ScannedTypes
    BY DEF Init, ScannedTypes
  <1>2. ScannedTypes /\ [Next]_vars => ScannedTypes'
    BY ScannedStep
  <1>3. ScannedTypes /\ [Next]_vars => [Absorbed]_vars
    <2> SUFFICES ASSUME ScannedTypes, Next, edits' # edits, "inbound" \in raised'
                 PROVE  Absorbed
      OBVIOUS
    <2>1. DOMAIN Edits = Controls \cup Switches \cup Strangers
      BY EchoesAssumption DEF AllEdits
    <2>2. ASSUME NEW c \in DOMAIN Edits, Edited(c) PROVE Absorbed
      BY <2>2, StrayKept DEF Edited, Stored
    <2>3. ASSUME NEW c \in Switches, ToggleFxState(c) PROVE Absorbed
      BY <2>3, StrayKept DEF ToggleFxState, SwitchesOfBlocks
    <2>4. ~ApplyIdentity /\ ~FirstRefresh /\ ~RunFull /\ ~RunSliders
          /\ ~(\E n \in Asked : GetOneFxState(n))
      BY DEF ApplyIdentity, FirstRefresh, RunFull, RunSliders, GetOneFxState
    <2>5. ~ChangeProgram
      BY DEF ChangeProgram
    <2> HIDE DEF Absorbed
    <2>6. CASE \E c \in Controls : Edited(c)
      BY <2>1, <2>2, <2>6
    <2>7. CASE \E c \in Strangers : Edited(c)
      BY <2>1, <2>2, <2>7
    <2>8. CASE \E c \in Switches : ToggleFxState(c)
      BY <2>3, <2>8
    <2> QED
      BY <2>4, <2>5, <2>6, <2>7, <2>8
      DEF Next, PanelEdit, SetFxValue, SetFxTypeType, PanelElsewhere
  <1> QED
    BY <1>1, <1>2, <1>3, PTL DEF Spec, EchoesAbsorbed
=============================================================================
