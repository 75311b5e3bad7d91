----------------------------- MODULE AddressMap -----------------------------
(***************************************************************************)
(* The unit's memory map (pygt1000/address_map.py): where a setting lives, *)
(* what bytes a value is, and what an address and its bytes mean.          *)
(*                                                                         *)
(* The spec tables are constants, entries in file order.  The key of a     *)
(* patch table (preampA, fx1Chorus) is a record of its parts.              *)
(***************************************************************************)
EXTENDS Integers, Sequences, FiniteSets, Functions

CONSTANTS
    FxTypes,        \* fx_types
    BaseAddresses,  \* section -> [address, table]
    PatchTables,    \* table -> entries [key, address, table]
    SettingTables,  \* table -> entries [setting, offset, bytes, values]
    TableSuffix,    \* FX_TO_TABLE_SUFFIX
    None

\* The id of a block that is the only one of its type, and the suffix of one
\* that is no resolved effect.
NoId == ""
NoSuffix == ""
Key(type, id, suffix) == [type |-> type, id |-> id, suffix |-> suffix]
PatchSection == "patch (temporary patch)"
Patch2Section == "patch2 (temporary patch)"
Patch3Section == "patch3 (temporary patch)"

-----------------------------------------------------------------------------
(* Slips this code could have had.  Nothing uses them: each shows that a    *)
(* property notices the slip.                                              *)

\* The least significant nibble first.
NibblesReversed(value, width) ==
    [i \in 1..width |-> (value \div 16^(i - 1)) % 16]
\* A value one address too wide.
WidthPadded(entry) == entry.bytes + 1

-----------------------------------------------------------------------------
\* The last size digits of value, the most significant first: a shift and
\* a mask each.
Digits(value, base, size) ==
    LET left[i \in 0..size] ==
          IF i = 0 THEN value ELSE left[i - 1] \div base
    IN [i \in 1..size |-> left[size - i] % base]

FromDigits(digits, base) ==
    LET n[i \in 0..Len(digits)] ==
          IF i = 0 THEN 0 ELSE base * n[i - 1] + digits[i]
    IN n[Len(digits)]

BytesToInt(bytes) == FromDigits(bytes, 256)

\* As many bytes as the address needs, not always four.
AddressBytes(address) ==
    Digits(address, 256, IF address < 256 THEN 1 ELSE IF address < 65536 THEN 2
                         ELSE IF address < 16777216 THEN 3 ELSE 4)

PackNibbles(value, width) == Digits(value, 16, width)

UnpackNibbles(data) == FromDigits([i \in DOMAIN data |-> data[i] % 16], 16)

Width(entry) == entry.bytes

-----------------------------------------------------------------------------
(* _import_specs_tables: the reverse registries are dictionaries, so that   *)
(* the last entry with an address replaces the ones before.                *)

LastAt(keys, a) ==
    CHOOSE i \in DOMAIN keys :
        keys[i] = a /\ \A j \in DOMAIN keys : keys[j] = a => j <= i

\* _offset_in_patch_tables: only the middle byte of the address counts.
PatchBytes(table) ==
    [i \in DOMAIN PatchTables[table] |-> PatchTables[table][i].address[2]]

\* _last_byte_option: only the low byte of the offset counts.
LastBytes(table) ==
    [i \in DOMAIN SettingTables[table] |-> SettingTables[table][i].offset[2]]

\* The sections with these two most significant bytes: _first_two_bytes.
SectionsAt(msbs) ==
    {s \in DOMAIN BaseAddresses : SubSeq(BaseAddresses[s].address, 1, 2) = msbs}

PatchKeys ==
    UNION {{PatchTables[t][i].key : i \in DOMAIN PatchTables[t]} :
             t \in DOMAIN PatchTables}

\* _fx_types_count
FxTypesCount ==
    [type \in {k.type : k \in PatchKeys} |->
        Cardinality({k \in PatchKeys : k.type = type /\ k.suffix = NoSuffix})]

FxBlockCount(fx_type) == FxTypesCount[fx_type]

-----------------------------------------------------------------------------
(* Forward: a block's setting to its address                               *)

\* normalize_block, for the ids 1.. the callers count with.
NormalizedId(fx_type, n) ==
    IF FxBlockCount(fx_type) = 1 THEN NoId
    ELSE IF fx_type = "preamp" THEN <<"A", "B">>[n]
    ELSE <<"1", "2", "3", "4">>[n]

StartSection(fx_type, id) ==
    IF fx_type = "fx" /\ id = "4" THEN Patch3Section ELSE PatchSection

FxStartSection(id, suffix) ==
    IF id = "4" THEN Patch3Section
    ELSE IF suffix \in {"ChorusBass", "FlangerBass"} THEN Patch2Section
    ELSE IF suffix \in {"Dist", "MasterFx"} THEN Patch3Section
    ELSE PatchSection

\* _block_section_option: the plain form, or that of the resolved effect.
BlockSectionOption(fx_type, n, fx_name) ==
    LET id == NormalizedId(fx_type, n) IN
    IF fx_name = None
    THEN [section |-> StartSection(fx_type, id), option |-> Key(fx_type, id, NoSuffix)]
    ELSE [section |-> FxStartSection(id, TableSuffix[fx_name]),
          option |-> Key(fx_type, id, TableSuffix[fx_name])]

Named(entries, field, name) ==
    LET where == {i \in DOMAIN entries : entries[i][field] = name} IN
    IF where = {} THEN None ELSE entries[CHOOSE i \in where : TRUE]

\* The table entry of a section's option, and of its setting; None when
\* a hop is missing.
OptionEntry(section, option) ==
    Named(PatchTables[BaseAddresses[section].table], "key", option)

SettingEntry(section, option, setting) ==
    LET entry == OptionEntry(section, option) IN
    IF entry = None THEN None
    ELSE Named(SettingTables[entry.table], "setting", setting)

\* address_for without a value.
AddressFor(section, option, setting) ==
    IF SettingEntry(section, option, setting) = None THEN None
    ELSE AddressBytes(
           BytesToInt(BaseAddresses[section].address)
           + BytesToInt(OptionEntry(section, option).address)
           + BytesToInt(SettingEntry(section, option, setting).offset))

\* The value is a name of the setting's table or a bare number.
ValueBytes(entry, value) ==
    LET raw == IF value.label \in DOMAIN entry.values
               THEN entry.values[value.label] ELSE value.raw IN
    IF Width(entry) > 1 THEN PackNibbles(raw, Width(entry)) ELSE <<raw>>

BlockAddress(fx_type, n, setting, fx_name) ==
    LET so == BlockSectionOption(fx_type, n, fx_name) IN
    AddressFor(so.section, so.option, setting)

BlockEntry(fx_type, n, setting, fx_name) ==
    LET so == BlockSectionOption(fx_type, n, fx_name) IN
    SettingEntry(so.section, so.option, setting)

\* address_for_block with a value: address and value bytes.
BlockAddressValue(fx_type, n, setting, fx_name, value) ==
    BlockAddress(fx_type, n, setting, fx_name)
        \o ValueBytes(BlockEntry(fx_type, n, setting, fx_name), value)

BlockSettingBytes(fx_type, n, setting, fx_name) ==
    Width(BlockEntry(fx_type, n, setting, fx_name))

-----------------------------------------------------------------------------
(* Reverse: an address and its bytes to a value                            *)

LabelForRaw(values, raw) ==
    LET names == {name \in DOMAIN values : values[name] = raw} IN
    IF names = {} THEN None ELSE CHOOSE name \in names : TRUE

\* read_label: the name of the raw value, or the raw value itself.
ReadLabel(entry, raw) == [label |-> LabelForRaw(entry.values, raw), raw |-> raw]

\* The number of a block as decode tells it, 0 for a single one.
DecodedNumber(key) ==
    IF key.id = NoId THEN 0
    ELSE IF key.id \in {"A", "B"} THEN (IF key.id = "A" THEN 1 ELSE 2)
    ELSE CHOOSE n \in 1..4 : <<"1", "2", "3", "4">>[n] = key.id

\* TABLE_SUFFIX_TO_NAME
SuffixName(suffix) ==
    IF \E name \in DOMAIN TableSuffix : TableSuffix[name] = suffix
    THEN CHOOSE name \in DOMAIN TableSuffix : TableSuffix[name] = suffix
    ELSE None

\* decode; None for a malformed address, or one of no known entry.
Decode(address, data) ==
    LET tables == {BaseAddresses[s].table : s \in SectionsAt(SubSeq(address, 1, 2))}
        known == {t \in tables \cap DOMAIN PatchTables :
                    address[3] \in Range(PatchBytes(t))}
    IN IF Len(address) # 4 \/ known = {} THEN None
       ELSE LET table == CHOOSE t \in known : TRUE
                option == PatchTables[table][LastAt(PatchBytes(table), address[3])]
                lows == LastBytes(option.table)
            IN IF address[4] \notin Range(lows) THEN None
               ELSE LET entry == SettingTables[option.table][LastAt(lows, address[4])]
                        raw == IF Width(entry) > 1
                               THEN UnpackNibbles(SubSeq(data, 1, Width(entry)))
                               ELSE data[1]
                    IN [fx_type |-> IF option.key.type \in FxTypes
                                    THEN option.key.type ELSE None,
                        number |-> DecodedNumber(option.key),
                        fx_name |-> SuffixName(option.key.suffix),
                        setting |-> entry.setting,
                        label |-> LabelForRaw(entry.values, raw),
                        raw |-> raw]

=============================================================================
