----------------------------- MODULE SpecTables -----------------------------
(* An excerpt of the spec tables (pygt1000/specs/) and of the policy of      *)
(* BlockSnapshot: blocks with one instance and with several, the preamps     *)
(* with their letters, blocks without a TYPE, a four-nibble setting, and fx  *)
(* blocks with effects in all three patch sections.                          *)
EXTENDS AddressMap, TLC

MCFxTypes == {"comp", "preamp", "ns", "eq", "delay", "fx"}

MCBaseAddresses ==
    (PatchSection :> [address |-> <<16, 0, 0, 0>>, table |-> "Patch"])
 @@ (Patch2Section :> [address |-> <<16, 1, 0, 0>>, table |-> "Patch2"])
 @@ (Patch3Section :> [address |-> <<16, 2, 0, 0>>, table |-> "Patch3"])

MCPatchTables ==
    LET
        Block(type, id, suffix, mid, low, table) ==
            [key |-> Key(type, id, suffix), address |-> <<0, mid, low>>, table |-> table]
    IN
    [Patch |-> <<
        Block("efct", "", "", 16, 0, "PatchEfct"),
        Block("comp", "", "", 18, 0, "PatchComp"),
        Block("preamp", "A", "", 21, 0, "PatchPreamp"),
        Block("preamp", "B", "", 22, 0, "PatchPreamp"),
        Block("ns", "1", "", 23, 0, "PatchNs"),
        Block("ns", "2", "", 24, 0, "PatchNs"),
        Block("eq", "1", "", 25, 0, "PatchEq"),
        Block("eq", "2", "", 26, 0, "PatchEq"),
        Block("delay", "1", "", 29, 0, "PatchDelay"),
        Block("delay", "2", "", 30, 0, "PatchDelay"),
        Block("fx", "1", "", 35, 0, "PatchFx"),
        Block("fx", "1", "Chorus", 39, 0, "PatchFxChorus"),
        Block("fx", "2", "", 62, 0, "PatchFx"),
        Block("fx", "3", "", 89, 0, "PatchFx")>>,
     Patch2 |-> <<
        Block("fx", "1", "ChorusBass", 1, 0, "PatchFxChorusBass")>>,
     Patch3 |-> <<
        Block("fx", "4", "", 1, 0, "PatchFx"),
        Block("fx", "4", "Chorus", 5, 0, "PatchFxChorus"),
        Block("fx", "1", "Dist", 31, 0, "PatchFxDist"),
        Block("fx", "1", "MasterFx", 31, 64, "PatchFxMasteringFx")>>]

Switch == [OFF |-> 0, ON |-> 1]
Effect ==
    ("CHORUS" :> 3) @@ ("CHORUS BASS" :> 26) @@ ("OCTAVE BASS" :> 29)
 @@ ("DISTORTION" :> 32) @@ ("MASTERING FX" :> 33)
Voice == [MONO |-> 0] @@ ("STEREO 1" :> 1)

MCSettingTables ==
    LET
        Entry(setting, hi, low, bytes, values) ==
            [setting |-> setting, offset |-> <<hi, low>>, bytes |-> bytes,
             values |-> values]
    IN
    [PatchEfct |-> <<
        Entry("CHAIN ELEMENT1", 0, 104, 1, <<>>)>>,
     PatchComp |-> <<
        Entry("SW", 0, 0, 1, Switch),
        Entry("TYPE", 0, 1, 1, ("BOSS COMP" :> 0) @@ ("X-COMP" :> 1)),
        Entry("SUSTAIN", 0, 2, 1, <<>>),
        Entry("LEVEL", 0, 4, 1, <<>>)>>,
     PatchPreamp |-> <<
        Entry("SW", 0, 0, 1, Switch),
        Entry("TYPE", 0, 1, 1, [TRANSPARENT |-> 0, NATURAL |-> 1]),
        Entry("GAIN", 0, 2, 1, <<>>),
        Entry("LEVEL", 0, 5, 1, <<>>)>>,
     PatchNs |-> <<
        Entry("SW", 0, 0, 1, Switch),
        Entry("THRESHOLD", 0, 1, 1, <<>>),
        Entry("RELEASE", 0, 2, 1, <<>>)>>,
     PatchEq |-> <<
        Entry("SW", 0, 0, 1, Switch),
        Entry("TYPE", 0, 1, 1, [PARAMETRIC |-> 0, GRAPHIC |-> 1]),
        Entry("LEVEL", 0, 4, 1, ("-20dB" :> 12)),
        Entry("LEVEL1", 0, 13, 1, ("-20dB" :> 12))>>,
     PatchDelay |-> <<
        Entry("SW", 0, 0, 1, Switch),
        Entry("TIME", 0, 1, 4, ("32ndNote" :> 2001)),
        Entry("FEEDBACK", 0, 5, 1, <<>>),
        Entry("EFFECT LEVEL", 0, 7, 1, <<>>),
        Entry("DIRECT LEVEL", 0, 8, 1, <<>>)>>,
     PatchFx |-> <<
        Entry("SW", 0, 0, 1, Switch),
        Entry("TYPE", 0, 1, 1, Effect)>>,
     PatchFxChorus |-> <<
        Entry("TYPE", 0, 0, 1, Voice),
        Entry("DIRECT LEVEL", 0, 1, 1, <<>>),
        Entry("EFFECT LEVEL", 0, 11, 1, <<>>)>>,
     PatchFxChorusBass |-> <<
        Entry("TYPE", 0, 0, 1, Voice),
        Entry("DEPTH", 0, 2, 1, <<>>),
        Entry("EFFECT LEVEL", 0, 3, 1, <<>>)>>,
     PatchFxDist |-> <<
        Entry("DRIVE", 0, 1, 1, <<>>),
        Entry("LEVEL", 0, 3, 1, <<>>)>>,
     PatchFxMasteringFx |-> <<
        Entry("DYNAMICS", 0, 1, 1, ("-20 - 20" :> 12)),
        Entry("TONE", 0, 2, 1, ("-6 - 6" :> 26)),
        Entry("NATURAL", 0, 3, 1, ("-50" :> 14))>>]

MCTableSuffix ==
    ("CHORUS" :> "Chorus") @@ ("CHORUS BASS" :> "ChorusBass")
 @@ ("OCTAVE BASS" :> "PatchFxOctaveBass")
 @@ ("DISTORTION" :> "Dist") @@ ("MASTERING FX" :> "MasterFx")

MCSliderParams ==
    [comp |-> <<"SUSTAIN", "LEVEL">>, preamp |-> <<"GAIN", "LEVEL">>,
     ns |-> <<"THRESHOLD", "RELEASE">>,
     delay |-> <<"EFFECT LEVEL", "DIRECT LEVEL">>]

MCFxSliderParams ==
    ("CHORUS" :> <<"EFFECT LEVEL", "DIRECT LEVEL">>)
 @@ ("CHORUS BASS" :> <<"EFFECT LEVEL", "DEPTH">>)
 @@ ("OCTAVE BASS" :> <<None, None>>)
 @@ ("DISTORTION" :> <<"DRIVE", "LEVEL">>)
 @@ ("MASTERING FX" :> <<"TONE", "NATURAL">>)

\* A setting of a block with its value.
Of(fx_type, n, fx_name, setting, label, raw) ==
    [fx_type |-> fx_type, n |-> n, fx_name |-> fx_name, setting |-> setting,
     label |-> label, raw |-> raw]

=============================================================================
