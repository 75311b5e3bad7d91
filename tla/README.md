# Formal model of pygt1000

pygt1000 drives a BOSS GT-1000 effects unit over MIDI SysEx: it negotiates a device id, switches the
unit to editor mode, reads and writes the settings of the effect blocks, keeps a copy of the patch
in step with the unit while its panel is used, and watches that the unit is still there. This
directory holds TLA+ models of that machinery, TLC runs over small instances of them, and TLAPS
proofs about its four concurrent machines (link, refresh scheduler, session with keep-alive, and the
readers and writers of the known state), about the known state over the tables of the code, and about
the bytes: a setting's way through addresses, nibbles and frames to the unit and back.

All paths below are relative to the repository (`src/` in `PROJECT.json`).

## 1. Inventory

Five kinds of thread meet in one `GT1000` object: the application's, the transport's inbound thread
(rtmidi's callback), the refresh worker, the keep-alive worker, and, after an unjoined restart,
further copies of the last two.

| Component | State | Operations | Talks to |
|---|---|---|---|
| Request/reply link, `device_link.py` | `_pending` (address -> slot, under a lock), `device_id` | `request`, `set_and_await`, `set`, `send`, `_on_receive` | called by every thread; calls the transport; calls back `on_unsolicited`, `on_identity` |
| SysEx codec, `sysex_codec.py` | none | `encode_dt1`, `encode_rq1`, `parse_data_reply`, `parse_identity_reply` | used by link and facade |
| MIDI transport, `transport.py` | two port objects | `open`, `close`, `send`, inbound callback | the operating system |
| Editor session, `editor_session.py` | none of its own | `open`, `close`, `reopen`, `request_identity` | transport and link; called by application and keeper |
| Keep-alive, `keepalive.py` | `_thread`, `_stopped` | `check`, `start`, `stop`, `join`, the loop | polls through the link, reopens through the session |
| Refresh scheduler, `refresh_scheduler.py` | `_queue`, `_event`, `_stopped`, `_thread` | `submit`, `drain`, `start`, `stop`, `join`, the loop | handlers of the facade |
| Known state, `patch_state.py` | `_state` (block type -> list of `FxBlock`), `_fx_names`, a lock | `record_scan`, `set_fx`, `set_fx_name`, `set_sliders`, `apply`, `snapshot` | written by worker, inbound thread and application |
| Block readers, `block_reader.py`, `block_snapshot.py` | none; read `_fx_names` live | read a setting, a block, all blocks of a type; resolve sliders | link, address map, known state |
| Facade, `gt1000.py` | wiring, `model` | `refresh_state`, the two refresh handlers, writes and toggles, the unsolicited and the identity handler, open/close/start/stop | all of the above |
| Address map, `address_map.py` | tables of the memory map and the reverse registries built from them | `address_for(_block)`, `block_setting_bytes`, `decode`, `read_label`, chain elements | readers and facade |
| Effect chain, `chain.py` | none | `parse_chain`, `serialize_chain`, `ChainCodec.read`/`write` | address map, link |
| Table generators, `scripts/`; demonstration, `examples/` | files | turn the vendor's PDF into `pygt1000/specs/*.json`, once, by hand | not modelled |

**What is hard here.** Correlation is by address alone, so replies outlive their requests, and two
threads on one address share a slot. The lock of the known state covers single reads and writes, so
scans, re-reads, echoes and toggles interleave, and one slider is resolved with three reads of a
live name. `start` after an unjoined `stop` makes a second worker. The keeper reopens ports under
the feet of the application. Any message may be missing. Encoding and decoding go through different
tables. `PROJECT.json` lists each such place, at its line, with the properties aimed at it; the ones
without a property say why.

**What makes the components correct.**

- Link: a call gets a frame of its own address and unit, or `None`; calls on different addresses do
  not affect each other; only a send that raised leaves its slot behind; reads never go back in time;
  every call ends; one unit is chosen once.
- Scheduler: no wakeup is lost, no task is lost, doubled or reordered, even with two workers on the queue;
  one task at a time while every restart was joined; `stop` ends all workers.
- Session and keep-alive: `open_ports` tells the truth; a unit that comes back is found again while the
  keeper lives; only a port that cannot be opened kills it; told to stop it ends, and opens the ports at
  most once more on the way.
- Known state: once nothing is under way it is what the unit holds; with replies missing it has gaps
  but shows nothing wrong; reading does not kill the reader; an echo it cannot place changes nothing.
- Codec, address map, chain: what is written is what the echo names and what a read returns; a list of
  elements that is parsed and written back fills the slots of these elements and no others.

## 2. Modules

| Module | Models | Notes |
|---|---|---|
| `DeviceLink` | `device_link.py`; wires and units as external actions | refines `Calls` |
| `Calls` | abstract: a blocking call with a private mailbox per caller | |
| `RefreshScheduler` | `refresh_scheduler.py` | refines `SerialExecutor` |
| `SerialExecutor` | abstract: a queue served in order, each task once, one at a time while `joined` | |
| `Session` | `editor_session.py`, `keepalive.py`, the ports of `transport.py`, open/close/start/stop of the facade | |
| `PatchSync` | `patch_state.py`, `block_snapshot.py`, the reads of `block_reader.py`, the refresh handlers, writers and unsolicited handler of `gt1000.py`, the worker's stop and restart | composes readers, known state, worker and facade over a link in which every slot is private: the interleavings |
| `BlockState` | the same parts with the names, addresses and tables of the code, an operation at a time | over `AddressMap`: the data |
| `SysExCodec`, `AddressMap`, `Chain` | the pure parts, as operators | |
| `SpecTables` | an excerpt of `pygt1000/specs/*.json` and of the slider policy | |
| `SettingTrip` | facade and `BlockReader` over `AddressMap` and `SysExCodec`, with a unit: settings | |
| `RoundTrip` | the same and `ChainCodec` over `Chain` | extends `SettingTrip` |
| `MCDeviceLink`, `MCPatchSync`, `MCBlockState`, `MCRoundTrip` | instances for TLC | |
| `DeviceLinkProofs`, `RefreshSchedulerProofs`, `SessionProofs` | theorems about the link, the scheduler, the session | |
| `PatchSyncProofs`, `PatchWireProofs`, `PatchValueProofs` | theorems about `PatchSync`, each extending the one before: types and the life of the reader, what is under way, what is shown | |
| `BlockStateProofs` | theorems about `BlockState` | |
| `SettingTripProofs` | theorems about `SettingTrip`, `AddressMap` and `SysExCodec` | |

Each component module has a section of *slips*: operators with the parameters of a definition of the
model and the body a plausible bug would give it. Nothing uses them. Putting one in the place of its
definition breaks the property `PROJECT.json` pairs it with ("mutants"), which shows that the
property depends on the code.

### DeviceLink

A section under `DeviceLink._lock` is one action, and whatever lies between two sections interleaves. A call of
`request` or `set_and_await` is `Register` (frame the message with the current device id and open the slot),
`Transmit` or `TransmitRaises`, any number of `PollMiss`, then `PollHit`, `PollKeyError` or `GiveUp`, and
`Return`, which pops the slot whatever it holds. `Recover` is the caller's handling of an exception. `Set` and
`AskIdentity` are the fire-and-forget messages. The inbound thread handles one frame at a time: `Negotiate`,
`Ignore`, `Correlate`, or `Emit` ... `EmitDone` around the callback, which runs outside the lock. The history
variable `left` holds the addresses whose slot a send that raised has left behind, which is what
`PendingInFlight` compares `_pending` with. The contents of an address are abstracted to a version number that
grows with every change of the unit's memory; that is all that freshness and monotony need. `Answer`, `Drop` and
`PanelEdit` are the unit, `Carried` a wire that loses messages but keeps their order (as USB MIDI does).

### RefreshScheduler

`queue`, `event`, `stopped`, `thread` are the fields of the class. `start` is unconditional, as in the code: it
lowers the flag and starts a thread of its own, whether or not the worker of an earlier `start` has ended,
so several workers may drain one queue. The history variable `orderly` records whether `join` would have
returned at every `start` so far. `SerialExecutor` promises each task once and in order always, and one at a
time while its `joined` holds, to which `orderly` is mapped; the comment "one worker each" at
`gt1000.py:149` is true of joined restarts only. `stop` takes no lock and is two steps. `Drained` sees the
queue empty and clears the event in one section, which is what `NoLostWakeup` is about.

### Session

The application thread and each keeper run the same sequence, `CloseOut`, `CloseIn`, `ResolveNames`, `OpenOut`,
`OpenIn`, the identity attempts, the editor-mode set, the liveness fetch. An exchange of the link is two steps,
with the shared dictionary of slots kept so that the keeper and the application can lose each other's slot
(`LostSlot`). Ports are `none` before the first open (any use is an exception), `stale` after the unit was
unplugged, when messages to them are lost. A port that is gone since its name was found makes `open` return
`False` or raise (`OpenFails`): `transport.py:170-178` turns `EOFError` into `False` and lets every other error
through, which reaches the application or ends the keeper (`broken`, told apart from `dead`, any other
exception, and `exited`, a stop). The history variable `reopened` counts how often each keeper has opened the
ports since the flag was raised. The unit is `up`, `slow` or `gone`; a change of it may fall between any two
steps. The history variable `orderly` records whether the application has started keepers only on a session that
is open and has joined a stopped keeper before it went on; most properties are about such applications,
`KeeperStops` and `ReopensOnce` about all. Properties are stated this way, rather than by restricting the model,
so that the disorderly interleavings are explored too.

### PatchSync

One thread reads at a time: first the application's `refresh_state`, afterwards the worker. Its steps are the
exchanges and the live reads of the effect name in `_fx_names`: `RecordName` (which writes it during a scan),
`PickParams` (`sliders_for`, both labels), then for each slider `ReadRange` (`_value_range`), `AskValue` or
`NoAddress` (`read_fx`) and `GotValue`. `NextBlock` installs a whole fx type at its last block, as `record_scan`
does; `SetSliders` ends a re-read. `TakeFull`, `TakeSliders` and `SkipFull` take tasks off the queue; `Stop`
sets the flag a scan looks at between two fx types (`CutShort`), `Exit` and `Start` end and restart the worker
(its loop is `RefreshScheduler`'s subject). The inbound thread has `Correlate`, `ProcessProgramChange`, `Refuse`
and `Apply`, and the application writes (`Toggle` and `RecordToggle` are the two halves of `toggle_fx_state`,
`SetValue` moves a slider it was shown). `RecordToggle` is also where `toggle_fx_state` raises if nothing has
been scanned yet: the switch has been written, the `KeyError` goes to the caller, and nothing is recorded. Every
effect has settings of its own, at addresses of its own, and settings of two effects may have one label, as
LEVEL has. The history variable `raced` records that an edit was made while a read of the same data was under
way or due, or that a stop cut a scan short, and is cleared by a scan that begins with nothing else under way.

Abstractions: the unit echoes every write (it does in editor mode), the application of an echo and
the submission of its task are one step (the worker cannot see the difference: it takes the task or
does not), a poll gives up only when no answer is to come (late answers are `DeviceLink`'s subject).

### BlockState

The same parts from the other side. An operation is one step here, and the unit answers within it, so nothing
interleaves but whole operations; in exchange every name and address is the code's. A block is read by
`Value`/`ReadName` at the address `AddressMap` gives it (`Places` and `Edits` are these addresses and the
decoded echoes of the edits, constants so that TLC works them out once, with assumptions that say what they
are); `Params` is the slider policy (the effect's pair, the eq rule, the fixed pairs), `FxTable` and the two
`...Raises` operators are the places where a look-up fails, `Snapshot` is the entry a scan installs. An edit
stores its value and its echo is decoded by `Decode`, found (or not) among the entries by `Lands`, folded in by
`EntryEchoed`, recorded by `NamesAfter` and followed by `Scheduled`. `Memories` are units with four fx blocks
and GT-1000COREs with three; `ApplyIdentity` may come before or after the first scan, as in the code.
`ReadValue` gives a slider the label of its value where `block_reader.py:69` does (no effect of the passing run
names the values of its sliders, TONE of MASTERING FX does). `Strangers` are settings of the patch and of no
block, such as the elements of the chain: `PanelElsewhere` turns one at the unit, its echo decodes to no fx
type, and `apply` raises in the inbound thread. `raised` keeps what a scan or re-read raised, and `inbound`
while the last message raised. `SwitchesOfBlocks`, `TablesComplete` and `EchoesFollowed` say what the properties
ask of the tables and of the edits; `MCBlockState` evaluates them on the instance that `block_state` runs.

### SysExCodec, AddressMap, Chain, SettingTrip, RoundTrip

Bytes are numbers and messages sequences of them, as in the code. `AddressMap` takes the tables as constants;
`SpecTables` gives an excerpt of the real ones with their real addresses: single blocks, both preamps, blocks
without a TYPE, two delays with a four-nibble TIME, the fx blocks and effects in all three patch sections. The
reverse registries are dictionaries filled in file order, so that the last entry with a key wins (`LastAt`).
What the code computes in a loop over bytes (`Digits`, `FromDigits`, `ByteSum`) is a recursive function here.
`SettingTrip` lets an application negotiate (`Identify`), write settings (`WriteSetting`, `ReceiveEcho`) and
read back what it has written (`AskSetting`, `GotSetting`), with a unit that takes only well-formed frames,
keeps one byte per address, echoes and answers (`UnitTakes`, `UnitRefuses`, `UnitAnswers`). Frames all arrive
here, one conversation at a time. Its assumptions say what the code relies on in the tables; they are under
Proofs. `Chain` is the recursive-descent parser and the serializer. `RoundTrip` adds the chain to the session of
`SettingTrip`. The unit keeps it in consecutive slots of one byte, 49 in the tables and 7 here. `ReadChain`
brings what the code asks for, `ONE_BYTE` (`chain.py:179`): the first slot. `Compose` is a list of the
application's own, as in the README and the example. `Parse` takes its tokens off the very list it was handed,
so the caller's list ends up empty (`chain.py:57`). `WriteWords` and `WriteTree` are the two ways to write: the
bytes go over the slots from the first one on, a shorter write leaves the rest as it was and a longer one runs
past the last (`past`), and a token without a code raises before anything is sent. A session that works on the
chain writes no settings (the two touch different memory). The two modules are apart because `Chain` is
recursive in operators, which a module with theorems cannot be.

## 3. Runs

| Run | Instance | What it shows |
|---|---|---|
| `link_own` | 2 threads, an address each, 1 unit, 1 poll, versions 0..1, 1 message per wire | `NoKeyError`, `Correlated`, `MonotoneReads`, and `MailboxPerCall`, the refinement of `Calls` |
| `link_shared` | 2 threads on one address, 2 units, a transport that may raise | `EmittedFromUnit`, `NegotiatedOnce`, `PendingInFlight`, and `EveryCallReturns`: whatever the sharing does to a slot, no call hangs |
| `refresh` | 3 starts, joined or not, any stops, 4 tasks, handlers that may raise | `NoLostWakeup`, `NoDoubleRun`, the refinement of `SerialExecutor`, `Served`, `StopEnds` |
| `session` | 1 keeper name, used again once its thread has ended, 2 identity attempts, 4 changes of the unit, the default port name | `OnlyOpeningKills`, `ReopensOnce`, `OpenMeansUp`, `KeeperReopens`, `EditorModeKept`, `KeeperStops` |
| `patch_races` | 1 fx block, 2 effects with two sliders each and a label in common, 2 patches, 3 edits, or 2 and a stop of the worker, which is restarted at any time | `SyncedUnlessRaced`, `Converges`: also a restart forgets nothing |
| `patch_lost` | a plain and an fx block, 2 edits, 2 requests lost | `NothingWrong`, `ReaderEndsOnlyRaced` |
| `block_state` | 6 types of block, 13 blocks, GT-1000 and CORE, 2 patches, 8 controls, 2 switches, an element of the chain, 2 edits | `IncrementalIsScan`, `LoadedEffect`, `ReaderSurvives`, `EchoesAbsorbed`, `ValueReaches` |
| `round_trip` | 15 settings, 2 writes; 7 chain slots, 2 chains of the unit, every list of up to 4 elements and every well-formed one of up to 8 with 2 dividers (only effects repeat) | `EchoNamesWrite`, `LastWriteRead`, `RefusedAtZeroSum`, `RewriteKeepsChain`, `RewriteLosesNothing` |

`TypeOK` is checked once per module. What the condition of a property leaves out is explored all the same, and
by the properties without one: `refresh` restarts the worker joined or not, and in `session` the application opens
and closes ports under a live keeper.

**Bounds, and why they suffice.** Two threads are what sharing of a slot takes; a third only repeats the second.
A version of 1 tells old from new, and one message per wire already allows a late answer to meet the next
request; the proofs lift both. Three starts give a worker, its successor and the successor's, or three at once;
four tasks let one wait behind one that raises. Four changes of the unit allow it to go, come back, and do so
again in the middle of the reopening. Three edits let one race a read, one announce the re-read that is raced,
and one follow; a stop takes the place of one of them (three and a stop is a run beyond five minutes), at any
step. In `patch_lost` two edits are enough for a lost reply on each side of a change. In `block_state` an edit
and the one it meets are two: what an echo does depends on the entries and on one change of effect or patch
before it. Eight chain elements hold two dividers, nested or in sequence, with an effect in each of two places,
and are one more than the slots. Two writes show whether the second reaches the first.

**Deadlock.** It is checked for the link and the session, which can always take a step. The scheduler,
`PatchSync`, `BlockState` and `RoundTrip` come to rest: workers exited or nothing left to do within the bound.

**Fairness.** Weak, and only for threads of the process: a thread inside a call is scheduled
(`DeviceLink`), worker and keeper threads are (`RefreshScheduler`, `Session`), handlers end since they
read with bounded retries, and the inbound thread delivers what the driver hands it (`Session`,
`PatchSync`). In `PatchSync` the unit answers what it receives and a toggle goes on to its second half; nothing
restarts a stopped worker, so `Converges` asks for one that runs. The application owes nothing, nor the
unit in any other module.

### Disagreements between code and documentation

Four runs state what the repository says and are violated by what the code does.

| Run | What happens |
|---|---|
| `session_port` | An application that opened ports by a name of its own: the keeper reopens the default port name, does not find the unit that is back, and never recovers (`gt1000.py:62`). With the default name too: a port that vanishes between the lookup of its name and its opening may raise an error that `open` does not catch, which ends the keeper, and nothing recovers the ports (`transport.py:172`). |
| `patch_reader_dies` | A TYPE change falls between choosing the slider parameter and looking up its range: the parameter of the old effect is not in the new effect's table, `KeyError`, and the worker is gone with its queue (`block_snapshot.py:200`). |
| `frame_checksum` | A payload summing to a multiple of 128 gets 128 as its checksum, which is not a MIDI data byte (`sysex_codec.py:57`); the unit does not take such a write. |
| `block_echoes` | The known state is not in sync once the echoes are followed. Five kinds of control do it, each alone: `MCEchoControls` lists them, and the run with its `Controls` cut down to any one of them (the last: to its two settings) is violated as well. |

The five of `block_echoes`:

- The GAIN of a preamp is turned at the unit: the echo decodes to preamp 1, the entry is called A, and
  the known state keeps the old value (`address_map.py:375`).
- An equalizer is switched to PARAMETRIC: the re-read resolves its slider without the name and shows
  LEVEL, where a scan shows LEVEL1 (`gt1000.py:176`).
- The TYPE of the chorus inside an fx block is changed: its echo decodes to the block's TYPE, and
  STEREO 1 is recorded as the effect loaded (`patch_state.py:201`).
- MASTERING FX is loaded: the value table is looked up as `PatchFxMasterFx`, which no file has, and the
  reader dies of a `KeyError` (`address_map.py:173`).
- DISTORTION and MASTERING FX of an fx block share the middle byte of their address; the reverse
  registry keeps one of them, so an echo of DRIVE decodes as DYNAMICS (`address_map.py:130`).

Others were met on the way and are listed as hazards only: two threads that exchange on one address, such as the
keeper's poll and `open_ports`, which both fetch the liveness address, where the first to return pops the slot
the other is polling and `request` raises `KeyError`; a keeper whose editor-mode set goes unanswered by a slow
unit, content with the polls the unit answers from then on; a keeper started on ports that never opened, which
dies on its first poll; a keeper in the middle of a reopen that nobody joined, which opens the ports again after
`close` (once more at most, which is `ReopensOnce`); edits made during a scan, which it overwrites; a scan a
stop cuts short, which is not made up for. Where a passing property is conditioned, it is on exactly these
(`DisjointAsks`, a unit that is never slow, `orderly`, `raced`), so the conditions say what an application has
to do. Two of them are part of passing runs: an unjoined restart leaves two refresh workers (`refresh`), and an
echo of no fx type raises in the inbound callback, having changed nothing, where the link logs and drops the
exception (`block_state`). `block_state` edits the controls that `block_echoes` is not about.

The chain disagrees with its documentation in several ways. A read asks for one byte, so `get_chain` returns the
first element and not the "flat token list" of its docstring (`chain.py:177`); a first element that is a divider
is then a list `serialize_chain` refuses with a `KeyError`. The example of `README.md:149-153` parses
`txt_chain` and writes it afterwards, when the parser has emptied it. A list shorter than the 49 slots leaves
the old elements behind it, and a longer one is written past the last. `round_trip` shows what holds all the
same.

One gap the documentation lists is not in the code any more. `README.md:225-227` says that parameters wider than
a byte are "not fully handled yet", since address composition "currently assumes a single value byte". At this
commit `address_for` spreads a value over the nibbles its table gives it (`address_map.py:299-309`, with
`pack_nibbles`), a read asks for `block_setting_bytes` of them, and `decode` and the reader put them together
again, which `tests/test_address_map.py` tests. `SettingTrip` follows the code, and `EchoNamesWrite` and
`LastWriteRead` hold of its wide settings (the TIME of the delays); it is the text that is out of date.

## 4. Proofs

TLAPS checks the theorems for all values of the constants that satisfy the named assumptions, which TLC
evaluates on the instances: retry counts and bounds are naturals, the broadcast id is no unit's, the sentinel
values are no frames, `Asks` is a function to sets of addresses, names are distinct within a table, the tables
of `SettingTrip` are as listed below. Where a theorem needs more it says so in its own statement
(`DisjointAsks`, `FixedSliders`, `TablesComplete`), and the paragraphs below say what that leaves out.

`DeviceLinkProofs`:

- `TypeCorrect`.
- `NoKeyErrorTheorem`, assuming `DisjointAsks`. `NoKeyError` is not inductive: the strengthening `OwnSlot`
  says that a call under way has its slot open, and that a client's address is one it may ask for. A
  `Return` of another client cannot close it since the addresses are apart.
- `PendingInFlightTheorem`, without any assumption: sends may raise and addresses may be shared. It is inductive
  itself, with the types: a slot without a call under way is in `left`, where a send that raised put it.
- `CorrelatedTheorem`, `EmittedFromUnitTheorem`, `NegotiatedOnceTheorem`, without any assumption on the
  clients. The strengthening `FrameInv` carries the statement to the slots: what a slot holds was
  accepted under the negotiated id, which does not change any more.
- `MonotoneReadsTheorem`, assuming `DisjointAsks`. The strengthening `OrderInv` says that the frames of
  one unit and address on the wire are in order of version, that none of them is newer than the
  unit's memory, and that what a call returned, holds, and has in its slot are in order and *behind*
  all of these. It holds with any number of frames in flight and replies that answer the wrong
  request.
- `MailboxTheorem`, assuming `DisjointAsks`: `Spec` implements `Calls!Spec`. Each step of the link maps
  to a step of one call or to a stutter; the inductive part is `OwnSlot` and that results are frames.

`RefreshSchedulerProofs`:

- `TypeCorrect` and `NoLostWakeupTheorem` from one inductive invariant: only `Drained` clears the event,
  and it does so with the queue empty.
- `NoDoubleRunTheorem`, with any number of workers on one queue. Inductive form `InHandFirst`: tasks in
  hand are distinct and older than those that wait, which wait in order.
- `SerialTheorem`, the refinement of `SerialExecutor`, of all restarts. Inductive form, besides `InHandFirst`,
  `LastAlive`: while `orderly`, a live thread is the one last started.

`SessionProofs`, for any number of keepers, identity attempts and changes of the unit:

- `TypeCorrect`. The attempts stay in bounds because an identity request is sent only while some are
  left (`TypeInv`).
- `OnlyOpeningKillsTheorem`. Two strengthenings: `PortsThere`, that whoever is past the opening of a port finds its
  object, since no step takes one away; and `OrderInv`, that in an orderly run a live keeper is the one last
  started, runs only while the application is idle (`OneAtATime`), finds the slot it polls
  (`SlotsHeld`), and that no keeper is `dead` (`NoneDead`). The guard that carries it is the `join` before the
  application goes on; a keeper nobody joined breaks each part. That a port cannot be opened remains, and
  is `broken`.
- `ReopensOnceTheorem`, of all applications and keepers. Inductive form `StoppedInv`: a keeper that has the
  opening still ahead of it has not opened the ports since the flag was raised, and what leads back there goes through
  the loop, where the flag ends it.
- `OpenMeansUpTheorem`, from `OrderInv` and `AckInv`: past the editor-mode set the unit is in editor
  mode behind a negotiated link, unless it has been unplugged since, and then the fetch fails.

`PatchSyncProofs`, for any blocks, effects, settings, labels and patches, any
number of edits, stops and losses, and nothing assumed of the application:

- `TypeCorrect`. Inductive form `TypeInv`, a conjunction of named parts: what is on the wires, in the
  queue and in the slot is typed; a re-read is queued only when every block is known
  (`QueueInv`, `TaskInv`); and a block that is known, or read past its name, has its effect recorded
  (`NameInv`), so that the look-up in `PickParams` finds it.
- `ReaderEnds`: the reading thread ends with a `KeyError` only when an edit fell into a read of the same
  data. `ReaderEndsOnlyRaced` says nothing of the wires, on which everything depends, so the inductive
  form `ReaderInv` follows the *types* on them: while nothing has raced a block has at most one read,
  write or echo of its TYPE under way (`Single`), a read only while the scan waits for it
  (`ReadsType`), and while a scan or a re-read of the block is under way or due none but that read
  (`Clear`). Hence no echo can change the effect between the look-up of the labels and their use, and
  the labels are found in the live table (`Found`). The assumptions used are that the sliders of an
  effect are settings of that effect, and that an fx block without a name has no sliders, which is what
  `block_snapshot.py` has.

`PatchWireProofs` and `PatchValueProofs`, for any blocks, effects, settings, labels, patches, edits and
stops:

- `NothingWrongTheorem`, with any number of losses: with nothing under way, and no edit having raced a
  read, the known state shows no value, name or label that is not the unit's.
- `SyncedTheorem`, with nothing lost: then it is the unit's state, complete.

`NothingWrong` speaks of quiet states only, so the induction needs to know what each message, task and read
under way will do to the entry it is for. It is built in layers, each proved from the ones before: `TypeInv`;
`ReaderInv`; `WiresInv` (the reader has one exchange at a time, with nothing else under way of what it asks
for; a scan runs, or waits to, with nothing else under way at all; the frames of a block's settings come
before the one of its type, which its re-read follows); `ValuesInv` (of the frames of a setting in flight the
last says what the unit holds, and so does a reply: following them in order ends in the right value); and
`ShownInv` (outside a scan each entry is right but for what is under way, and what a scan has set aside for
its type is right in the same sense). `ShownInv` alone is not inductive: that an old echo does not undo a new
value is the order of `ValuesInv`, and that a slider read is of the effect the block has is `Found` of
`ReaderInv`. Both theorems assume `FixedSliders`: the sliders of a block that is not an fx block do not depend
on its TYPE. The tables of the code have it so for every type but the equalizer, which is a disagreement of
its own (`block_echoes`, `gt1000.py:176`), and `MCPatchSync` evaluates it.

`BlockStateProofs`, for any tables, patches, blocks, sliders, edits and switches, and any number of edits:

- `IncrementalTheorem`: once no task waits, the known state is what a scan would install.
- `LoadedTheorem` and `ReachesTheorem`: the effect recorded for an fx block is the one loaded, and a slider that
  is moved moves a parameter of that effect, unless a program change is still to be followed.
- `AbsorbedTheorem`, with nothing assumed of the tables but that switches are switches of fx blocks
  (`SwitchesOfBlocks`): an echo raises only when it is of no fx type, and then it has changed no entry, no
  recorded effect and no task. It rests on `ScannedTypes` (the entries are of all fx types or of none) and
  `StrayKept`.
- `TypeTheorem`.

All but the last assume two things of the tables and the edits, in the vocabulary of `AddressMap`.
`TablesComplete`: the sliders of every effect that can be loaded in a block are in its table, under the name the
code looks for and without names for their values, and a switch is ON or OFF. `EchoesFollowed`: each setting
edited has an address of its own (`Faithful`), whose echo decodes to that setting, value and block (`Numbered`),
no edit is of a TYPE the re-read takes no account of, and strangers decode to no fx type. These are what the
code relies on and does not check; the real tables break them in the five ways listed under `block_echoes`, and
there the properties fail. One kind of switch is let through although its echo finds no entry, that of a preamp,
since `toggle_fx_state` writes the entry itself.

The inductive invariant is `BlockInv`. `UnitInv`: the unit keeps its addresses, and holds values they can
hold; a count of three is a CORE's. `EntriesInv`: every type has been scanned or none, and the entry at place n
is block n's; a CORE that was scanned before it said so has an entry too many. `NamesInv`: every block with
an entry has its effect recorded, and it is one the block can have. `QueueInv`: a re-read is of a block that is
known and that the unit has. `CurrentInv`, the heart of it: unless a scan waits, each entry has the block's
name and switch, and its sliders too unless a re-read of this block waits. The properties that hold at
every moment need it as much as the one about rest: that a moved slider reaches the effect that is loaded is
`CurrentInv` of `_fx_names`, while the sliders on show may be the old ones.
TLC finds no violation of `BlockInv` on the instance of `block_state`.

`SettingTripProofs`, for any tables, settings, values of any width and number of writes:

- `EchoNamesWriteTheorem`: the echo of a write decodes to the setting, the value and the label written.
- `LastWriteReadTheorem`: a read returns the value last written to that setting.
- `RefusedAtZeroSumTheorem`: the unit takes a write exactly if its bytes do not sum to a multiple of 128,
  which is how far the disagreement of `frame_checksum` reaches.
- `TypeCorrect`.
- Of the operators alone: `NibblesBack` (`unpack_nibbles` undoes `pack_nibbles`, for any width), `Apart` (settings
  that differ share no byte of memory), `DecodeNames` (`decode` is the reverse of `address_for_block`).

Three steps carry them. *Bytes*: a loop over bytes is a recursive function, and what it computes is proved from
the least index at which it would go wrong (`NatSetInduction`, from the well-foundedness of the naturals), for
`Digits`, `FromDigits` and `ByteSum`; this gives `NibblesBack`, and that the sum of three big-endian addresses
is the address `<<hi, lo, mid, low>>` of their parts, without a carry (`AddressSum`, `Place`). *Tables*: the
section can be told from the first two bytes, the option from the third and the setting from the fourth, so that
the registries of the reverse direction, each keyed by some of these, find the entry the forward direction
started from (`DecodeFinds`). *Memory*: the inductive invariant `IInv`. `LastWriteRead` speaks only of a value
just read and says nothing of the unit, so `IInv` adds `Remembered`, that memory holds the bytes of the last
write of every setting written, which a write to another setting keeps because of `Apart`; `HasLast`, that there
is such a last write; `OnTheWire`, that a frame under way is the framing of the job, or its echo or answer; and
`Asked`, that only what was written is asked for. TLC finds no violation of `IInv` on the instance of
`round_trip`.

The assumptions, all of the tables: an entry's section has an address `<<hi, lo, 0, 0>>` of its own, its option
a middle byte of its own within the section's table and its setting a low byte of its own, whose width does not
run into the next entry or past 127 (`TablesAssumption`); a value fits its width, and a label stands for one
value (`ValuesAssumption`, `SettingsAssumption`); no two effects share a suffix (`SuffixesAssumption`); entries
are in file order and none is the value that stands for none (`EntriesAssumption`). Of the 1760 settings of the
temporary patch in `pygt1000/specs/` 1655 have such a place. The others are those of `PatchEfct`, whose type is
no fx type and which has offsets above 127, and of the fx blocks of `patch3` that share a middle byte,
DISTORTION and MASTERING FX, for which the theorem is false (`block_echoes`, `address_map.py:130`).

The theorems are about `SettingSpec`. The `Spec` of `RoundTrip` changes the variables of `SettingTrip` only by
`SettingNext`, so its behaviours satisfy it too, but a theorem cannot say so in a module that reaches `Chain`.

**Model-checked only.** Liveness (`EveryCallReturns`, `Served`, `StopEnds`, `KeeperReopens`, `EditorModeKept`,
`KeeperStops`, `Converges`), which the proof system does not reach; `ReaderSurvives`, which `TablesComplete`
would state rather than imply: what makes the look-ups succeed is the tables, and `block_state` evaluates them;
and `RewriteKeepsChain` and `RewriteLosesNothing`, since the parser and the serializer of `Chain` are recursive
operators over trees.

## 5. Not modelled

- The rest of the tables: `SpecTables` has a block of every shape, an effect of every section and every
  special case of naming that the code treats. The minimum and maximum of a slider are part of its label.
- Values wider than a byte in `BlockState` (`SettingTrip` has them), and chain slots after the seventh.
- Two workers on one known state: `RefreshScheduler` shows how they come about, `PatchSync` restarts
  the worker only when the old one has ended.
- `fetch_patch_names`, which nothing uses, and the delegates of the facade that only return a value.
- Port name matching in detail, logging, timing: intervals and sleeps are steps that take any time.
- `FakeTransport` (a test double), the table generators (scripts run once by hand over the vendor's PDF)
  and the example (a demonstration over the public interface).

## 6. Plan

Done, in this order: the link and its proofs; the scheduler and its proofs; the session and its proofs; the known
state; the pure parts and their round trip; the blocks with their names and tables; the known state with both
sliders and a worker that is stopped and started; its type correctness, the survival of its reader and the
truth of what it shows; the known state over sound tables; a setting's way to the unit and back, byte for byte.

What is left, modelling: a run of `Session` with two keepers that overlap (the proofs cover any number,
the run has one); the interleavings of `PatchSync` with the tables of `BlockState` under them.

What is left, proofs: `RewriteKeepsChain`, for which parser and serializer would have to be stated over
positions of the chain instead of recursively over its blocks; and that the tables `SettingTrip` allows
meet `EchoesFollowed` of `BlockState`, which would join the two sets of assumptions.
