----------------------------- MODULE SettingTrip -----------------------------
(***************************************************************************)
(* A setting from the application to the unit's memory and back: it is     *)
(* addressed, framed and sent, its echo decoded and its value read back.   *)
(* This composes AddressMap and SysExCodec as the facade and BlockReader   *)
(* do, on frames that all arrive (module DeviceLink has those that do      *)
(* not).                                                                   *)
(*                                                                         *)
(* The unit is external: it takes a frame only if it is addressed to it,   *)
(* consists of data bytes and has the right checksum, keeps a byte per     *)
(* address, echoes what it takes and answers reads.                        *)
(***************************************************************************)
EXTENDS AddressMap, SysExCodec

CONSTANTS
    UnitId,         \* the unit's device id
    Revisions,      \* software revisions a unit answers with
    Settings,       \* settings the application writes, with label and raw
    MaxWrites       \* bound: settings written

ASSUME UnitIdAssumption == UnitId \in 0..126
ASSUME WritesAssumption == MaxWrites \in Nat

-----------------------------------------------------------------------------
(* The settings and their tables                                           *)

Section(s) == BlockSectionOption(s.fx_type, s.n, s.fx_name).section
Option(s) == BlockSectionOption(s.fx_type, s.n, s.fx_name).option
OptionsOf(s) == PatchTables[BaseAddresses[Section(s)].table]
EntriesOf(s) == SettingTables[OptionEntry(Section(s), Option(s)).table]
Entry(s) == BlockEntry(s.fx_type, s.n, s.setting, s.fx_name)
Address(s) == BlockAddress(s.fx_type, s.n, s.setting, s.fx_name)

\* No two effects share a suffix.
ASSUME SuffixesAssumption ==
    /\ None \notin DOMAIN TableSuffix
    /\ \A e \in DOMAIN TableSuffix :
        /\ TableSuffix[e] # NoSuffix
        /\ \A d \in DOMAIN TableSuffix : TableSuffix[d] = TableSuffix[e] => d = e

\* The settings name a block by its number, an effect or none, and a value by
\* the only name the table has for it, if it has one.
ASSUME SettingsAssumption ==
    \A s \in Settings :
        /\ s.fx_type \in FxTypes
        /\ s.n \in 1..FxBlockCount(s.fx_type)
        /\ s.n \in 1..(IF s.fx_type = "preamp" THEN 2 ELSE 4)
        /\ s.fx_name \in DOMAIN TableSuffix \cup {None}
        /\ None \notin DOMAIN Entry(s).values
        /\ s.label \in DOMAIN Entry(s).values \cup {None}
        /\ \A name \in DOMAIN Entry(s).values :
              Entry(s).values[name] = s.raw <=> name = s.label

\* What width nibbles can hold.
NibbleLimit(width) ==
    LET limit[i \in 0..width] == IF i = 0 THEN 1 ELSE 16 * limit[i - 1] IN
    limit[width]

\* A value is one data byte, or fits its nibbles.
ASSUME ValuesAssumption ==
    \A s \in Settings :
        /\ s.raw \in Nat
        /\ Width(Entry(s)) \in Nat \ {0}
        /\ s.raw < IF Width(Entry(s)) = 1 THEN 128
                   ELSE NibbleLimit(Width(Entry(s)))

\* Two bytes of the address tell the section, the third tells the option and
\* the fourth the setting, whose values do not overlap.
ASSUME TablesAssumption ==
    \A s \in Settings :
        /\ \E hi \in 1..127, lo \in 0..127 :
              /\ BaseAddresses[Section(s)].address = <<hi, lo, 0, 0>>
              /\ SectionsAt(<<hi, lo>>) = {Section(s)}
        /\ BaseAddresses[Section(s)].table \in DOMAIN PatchTables
        /\ \E mid \in 0..127, i \in DOMAIN OptionsOf(s) :
              /\ OptionsOf(s)[i].key = Option(s)
              /\ OptionsOf(s)[i].address = <<0, mid, 0>>
              /\ \A j \in DOMAIN OptionsOf(s) \ {i} :
                    /\ OptionsOf(s)[j].key # Option(s)
                    /\ OptionsOf(s)[j].address[2] # mid
        /\ \E low \in 0..127, i \in DOMAIN EntriesOf(s) :
              /\ EntriesOf(s)[i].setting = s.setting
              /\ EntriesOf(s)[i].offset = <<0, low>>
              /\ low + EntriesOf(s)[i].bytes <= 128
              /\ \A j \in DOMAIN EntriesOf(s) \ {i} :
                    /\ EntriesOf(s)[j].setting # s.setting
                    /\ EntriesOf(s)[j].bytes \in Nat \ {0}
                    /\ \/ EntriesOf(s)[j].offset[2] >= low + EntriesOf(s)[i].bytes
                       \/ EntriesOf(s)[j].offset[2] + EntriesOf(s)[j].bytes <= low

\* Tables are in file order, and no entry or value of theirs is None.
ASSUME EntriesAssumption ==
    \A s \in Settings :
        /\ DOMAIN OptionsOf(s) \subseteq Nat
        /\ DOMAIN EntriesOf(s) \subseteq Nat
        /\ OptionEntry(Section(s), Option(s)) # None
        /\ Entry(s) # None
        /\ \A n \in 0..s.n :
              None # [fx_type |-> s.fx_type, number |-> n, fx_name |-> s.fx_name,
                      setting |-> s.setting, label |-> s.label, raw |-> s.raw]

-----------------------------------------------------------------------------
VARIABLES
    device_id,  \* DeviceLink.device_id
    model,      \* GT1000.model
    phase,      \* where the conversation is
    frame,      \* the frame on the wire
    memory,     \* the unit's memory: bytes by address (external)
    job,        \* the setting being written or read
    decoded,    \* what _process_data_from_unit made of the echo
    value,      \* what BlockReader returned
    written     \* history: the settings the unit has taken, in order

settingVars == <<device_id, model, phase, frame, memory, job, decoded, value,
                 written>>

DataByte(b) == b \in 0..127

-----------------------------------------------------------------------------
(* The unit (external)                                                     *)

IdentityReply(id, revs) ==
    <<240, 126, id, 6, 2, 65, 79, 3, 0, 0, revs[1], 0, revs[2], 0, 247>>

Inner(f) == SubSeq(f, 2, Len(f) - 1)
Payload(f) == SubSeq(f, 9, Len(f) - 2)

Valid(f) ==
    /\ \A i \in DOMAIN Inner(f) : DataByte(Inner(f)[i])
    /\ f[3] = UnitId
    /\ ByteSum(SubSeq(f, 9, Len(f) - 1)) % 128 = 0

\* Its data reply, with a checksum of its own.
Reply(payload) ==
    ReplyHeader(UnitId) \o payload
        \o <<(128 - (ByteSum(payload) % 128)) % 128>> \o SysexEnd

Cell(address, i) == [address EXCEPT ![4] = @ + i - 1]

Stored(address, data) ==
    [a \in DOMAIN memory \cup {Cell(address, i) : i \in DOMAIN data} |->
        IF \E i \in DOMAIN data : a = Cell(address, i)
        THEN data[a[4] - address[4] + 1] ELSE memory[a]]

\* Memory nothing was written to reads as zero.
Held(address, n) ==
    [i \in 1..n |-> IF Cell(address, i) \in DOMAIN memory
                    THEN memory[Cell(address, i)] ELSE 0]

-----------------------------------------------------------------------------
SettingInit ==
    /\ device_id = DeviceIdBcast
    /\ model = "unknown"
    /\ phase = "start"
    /\ frame = <<>>
    /\ memory = <<>>
    /\ job = None
    /\ decoded = None
    /\ value = None
    /\ written = <<>>

-----------------------------------------------------------------------------
(* Negotiation                                                             *)

\* _on_receive hands an identity reply to the link and to _apply_identity.
Identify(revs) ==
    /\ phase = "start"
    /\ LET m == IdentityReply(UnitId, revs)
           reply == ParseIdentityReply(m)
       IN /\ IsIdentityReply(m)
          /\ device_id' = reply.device_id
          /\ model' = IF reply.model = "unknown" THEN model ELSE reply.model
    /\ phase' = "ready"
    /\ UNCHANGED <<frame, memory, job, decoded, value, written>>

-----------------------------------------------------------------------------
(* Settings: set_fx_value and set_fx_type_type, the echo, BlockReader      *)

WriteSetting(s) ==
    /\ phase = "ready"
    /\ Len(written) < MaxWrites
    /\ job' = s
    /\ frame' = EncodeDt1(device_id,
                  BlockAddressValue(s.fx_type, s.n, s.setting, s.fx_name, s))
    /\ phase' = "sent"
    /\ decoded' = None
    /\ value' = None
    /\ UNCHANGED <<device_id, model, memory, written>>

UnitTakes ==
    /\ phase = "sent"
    /\ Valid(frame)
    /\ memory' = Stored(SubSeq(frame, 9, 12), SubSeq(frame, 13, Len(frame) - 2))
    /\ frame' = Reply(Payload(frame))
    /\ written' = Append(written, job)
    /\ phase' = "echo"
    /\ UNCHANGED <<device_id, model, job, decoded, value>>

UnitRefuses ==
    /\ phase \in {"sent", "asked"}
    /\ ~Valid(frame)
    /\ phase' = "ready"
    /\ UNCHANGED <<device_id, model, frame, memory, job, decoded, value, written>>

ReceiveEcho ==
    /\ phase = "echo"
    /\ IsDataReply(device_id, frame)
    /\ LET reply == ParseDataReply(frame) IN
       decoded' = Decode(reply.offset, reply.data)
    /\ phase' = "ready"
    /\ UNCHANGED <<device_id, model, frame, memory, job, value, written>>

\* BlockReader.read / read_fx of a setting that was written.
AskSetting(s) ==
    /\ phase = "ready"
    /\ job' = s
    /\ frame' = EncodeRq1(device_id,
                  BlockAddress(s.fx_type, s.n, s.setting, s.fx_name),
                  <<0, 0, 0, BlockSettingBytes(s.fx_type, s.n, s.setting,
                                               s.fx_name)>>)
    /\ phase' = "asked"
    /\ decoded' = None
    /\ value' = None
    /\ UNCHANGED <<device_id, model, memory, written>>

UnitAnswers ==
    /\ phase = "asked"
    /\ Valid(frame)
    /\ LET address == SubSeq(frame, 9, 12) IN
       frame' = Reply(address \o Held(address, frame[16]))
    /\ phase' = "answered"
    /\ UNCHANGED <<device_id, model, memory, job, decoded, value, written>>

GotSetting ==
    /\ phase = "answered"
    /\ IsDataReply(device_id, frame)
    /\ LET data == ParseDataReply(frame).data
           entry == BlockEntry(job.fx_type, job.n, job.setting, job.fx_name)
           raw == IF Width(entry) > 1
                  THEN UnpackNibbles(SubSeq(data, 1, Width(entry))) ELSE data[1]
       IN value' = ReadLabel(entry, raw)
    /\ phase' = "ready"
    /\ UNCHANGED <<device_id, model, frame, memory, job, decoded, written>>

-----------------------------------------------------------------------------
SettingNext ==
    \/ \E revs \in Revisions : Identify(revs)
    \/ \E s \in Settings : WriteSetting(s)
    \/ UnitTakes
    \/ UnitRefuses
    \/ ReceiveEcho
    \/ \E i \in DOMAIN written : AskSetting(written[i])
    \/ UnitAnswers
    \/ GotSetting

SettingSpec == SettingInit /\ [][SettingNext]_settingVars

-----------------------------------------------------------------------------
(* Properties                                                              *)

TypeOK ==
    /\ device_id \in {DeviceIdBcast, UnitId}
    /\ device_id = DeviceIdBcast <=> phase = "start"
    /\ model \in {"GT-1000", "GT-1000L", "GT-1000CORE", "unknown"}
    /\ phase \in {"start", "ready", "sent", "echo", "asked", "answered"}
    /\ \A i \in DOMAIN frame : frame[i] \in 0..255
    /\ \A a \in DOMAIN memory : DataByte(memory[a])
    /\ job \in Settings \cup {None}
    /\ Len(written) <= MaxWrites

\* What decode makes of an address and data names the setting and its value.
NamesWrite(d, s) ==
    /\ d # None
    /\ d.fx_type = s.fx_type
    /\ d.number \in {0, s.n}
    /\ d.fx_name = s.fx_name
    /\ d.setting = s.setting
    /\ d.raw = s.raw
    /\ d.label = s.label

\* The echo of a write decodes to the setting and the value written: decode
\* is the reverse of address_for, for narrow and nibblised values, in all
\* three sections.
EchoNamesWrite ==
    [][phase = "echo" /\ phase' # "echo" => NamesWrite(decoded', job)]_settingVars

SameSetting(s, t) ==
    /\ s.fx_type = t.fx_type
    /\ s.n = t.n
    /\ s.fx_name = t.fx_name
    /\ s.setting = t.setting

\* A read returns the value last written to the setting: the writes of
\* other settings, wide ones among them, do not reach it.
LastWriteRead ==
    value # None =>
        \E i \in DOMAIN written :
            /\ SameSetting(written[i], job)
            /\ \A j \in DOMAIN written : SameSetting(written[j], job) => j <= i
            /\ value.raw = written[i].raw
            /\ value.label = written[i].label

\* The unit takes a write unless its bytes sum to a multiple of 128:
\* calculate_checksum makes 128 of that sum, no data byte.
RefusedAtZeroSum ==
    phase = "sent" => (Valid(frame) <=> ByteSum(Payload(frame)) % 128 # 0)

\* Between the start and the end of a frame there are data bytes only.
FrameWellFormed ==
    \A i \in DOMAIN frame \ {1, Len(frame)} : DataByte(frame[i])

=============================================================================
