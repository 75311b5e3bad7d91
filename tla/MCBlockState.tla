---------------------------- MODULE MCBlockState ----------------------------
(* BlockState on the excerpt of SpecTables: two patches, and the settings    *)
(* that are edited.                                                          *)
EXTENDS BlockState, SpecTables

MCScanOrder == <<"comp", "preamp", "ns", "eq", "delay", "fx">>

FxType(n, name) == Of("fx", n, None, "TYPE", name, Effect[name])

Loaded == {FxType(1, "CHORUS"), FxType(2, "OCTAVE BASS"),
           FxType(3, "OCTAVE BASS"), FxType(4, "CHORUS")}
Other == {FxType(1, "CHORUS BASS"), FxType(2, "OCTAVE BASS"),
          FxType(3, "CHORUS"), FxType(4, "OCTAVE BASS"),
          Of("eq", 1, None, "TYPE", "GRAPHIC", 1),
          Of("comp", 1, None, "SUSTAIN", None, 50)}

MCPatches == {Loaded, Other}

\* Controls whose echoes the known state follows.
MCControls ==
    {Of("comp", 1, None, "TYPE", "X-COMP", 1),
     Of("ns", 2, None, "THRESHOLD", None, 9),
     Of("eq", 1, None, "LEVEL1", None, 13),
     FxType(1, "CHORUS"), FxType(1, "CHORUS BASS"),
     Of("fx", 1, "CHORUS", "EFFECT LEVEL", None, 9),
     Of("fx", 1, "CHORUS BASS", "EFFECT LEVEL", None, 8),
     FxType(4, "OCTAVE BASS")}

MCSwitches == {Of("comp", 1, None, "SW", "ON", 1),
               Of("preamp", 2, None, "SW", "ON", 1)}

\* The first element of the chain, a setting of the patch and of no block.
MCStrangers == {Of("efct", 1, None, "CHAIN ELEMENT1", None, 5)}

\* Controls of which the known state does not follow the echo.  Each of them
\* suffices (the last with the one before it).
MCEchoControls ==
    {\* a preamp, which decode calls 1 and the known state A
     Of("preamp", 1, None, "GAIN", None, 9),
     \* the kind of an equalizer, on which the slider on show depends
     Of("eq", 1, None, "TYPE", "PARAMETRIC", 0),
     \* the TYPE that an effect in an fx block has of its own
     Of("fx", 1, "CHORUS", "TYPE", "STEREO 1", 1),
     \* an effect whose value table has another name than its suffix says
     FxType(1, "MASTERING FX"),
     \* an effect whose table shares the middle byte of its address
     FxType(1, "DISTORTION"), Of("fx", 1, "DISTORTION", "DRIVE", None, 9)}

\* What the theorems assume holds of the controls the known state follows.
ASSUME TablesHere ==
    /\ SwitchesOfBlocks
    /\ Controls = MCControls => TablesComplete /\ EchoesFollowed

=============================================================================
