---------------------------- MODULE MCRoundTrip ----------------------------
(* RoundTrip on the excerpt of SpecTables: which settings are written, which *)
(* chains the unit holds, and which lists are written.                       *)
EXTENDS RoundTrip, SpecTables

MCSettings ==
    {Of("comp", 1, None, "SW", "ON", 1), Of("comp", 1, None, "LEVEL", None, 100),
     Of("preamp", 1, None, "GAIN", None, 120),
     Of("preamp", 2, None, "SW", "OFF", 0),
     Of("preamp", 2, None, "GAIN", None, 7),
     Of("delay", 1, None, "TIME", None, 1), Of("delay", 1, None, "TIME", None, 2000),
     Of("delay", 2, None, "TIME", "32ndNote", 2001),
     Of("delay", 1, None, "FEEDBACK", None, 100),
     Of("fx", 1, None, "TYPE", "CHORUS BASS", 26),
     Of("fx", 4, None, "TYPE", "CHORUS", 3),
     Of("fx", 1, "CHORUS", "DIRECT LEVEL", None, 0),
     Of("fx", 1, "CHORUS", "EFFECT LEVEL", None, 62),
     Of("fx", 4, "CHORUS", "EFFECT LEVEL", None, 100),
     Of("fx", 1, "CHORUS BASS", "EFFECT LEVEL", None, 5)}

MCElements ==
    <<Token("effect", 1), Token("DIVIDER", 1), Token("BRANCHSPLIT", 1),
      Token("MIXER", 1), Token("DIVIDER", 2), Token("BRANCHSPLIT", 2),
      Token("MIXER", 2)>>

RECURSIVE Grown(_, _)

\* The well formed chains of at most n elements with dividers in ids.
Grown(n, ids) ==
    {<<>>}
    \cup (IF n < 1 THEN {}
          ELSE {<<1>> \o rest : rest \in Grown(n - 1, ids)})
    \cup UNION {{<<3 * i - 1>> \o parts[1] \o <<3 * i>> \o parts[2]
                    \o <<3 * i + 1>> \o parts[3] :
                  parts \in {p \in [1..3 -> Grown(n - 3, ids \ {i})] :
                    Len(p[1]) + Len(p[2]) + Len(p[3]) <= n - 3}} :
                i \in IF n < 3 THEN {} ELSE ids}

AnyChains(n) == UNION {[1..m -> DOMAIN MCElements] : m \in 0..n}

\* Only effects repeat.
Once(c) == \A i, j \in DOMAIN c : i # j /\ c[i] = c[j] => c[i] = 1

\* Lists that fit into the slots, and some that do not.
MCLists == {c \in Grown(8, {1, 2}) \cup AnyChains(4) : Once(c)}

\* Every element in its slot: an effect first, or a divider.
MCSlots == Len(MCElements)
MCChains == {<<1, 2, 3, 5, 6, 7, 4>>, <<5, 2, 3, 4, 6, 1, 7>>}

MCRevisions == {<<0, 1>>, <<1, 1>>, <<2, 0>>, <<3, 3>>}

=============================================================================
