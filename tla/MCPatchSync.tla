---------------------------- MODULE MCPatchSync ----------------------------
(* Small instances of PatchSync: an fx block alone, whose effects share the  *)
(* label of one slider, and beside it a block of another type with one.      *)
EXTENDS PatchSync, TLC

CONSTANTS fx1, comp, e1, e2, rate, depth, level, v0, v1
CONSTANTS c1, c2, c3, c4, c5

\* Both effects of the fx block have a LEVEL, at addresses of their own.
MCFxLabelOf == c1 :> rate @@ c2 :> level @@ c3 :> level @@ c4 :> depth
MCMixedLabelOf == c5 :> level @@ MCFxLabelOf
MCFxTable == e1 :> {c1, c2} @@ e2 :> {c3, c4}
MCFxSliders == e1 :> <<rate, level>> @@ e2 :> <<level, depth>>

MCMixedOrder == <<comp, fx1>>
MCMixedTypeOf == (comp :> "comp") @@ (fx1 :> "fx")
MCMixedTable == comp :> {c5}
MCMixedSliders ==
    (comp :> [e \in {e1, e2} |-> <<level, None>>]) @@ (fx1 :> MCFxSliders)
MCMixedUnnamed == (comp :> <<level, None>>) @@ (fx1 :> <<None, None>>)

MCFxOrder == <<fx1>>
MCFxTypeOf == fx1 :> "fx"
MCNoTable == <<>>
MCSliders == fx1 :> MCFxSliders
MCUnnamed == fx1 :> <<None, None>>

\* A patch with every block on its first effect, and one on the second.
Patch(bs, sw, e, v) ==
    [b \in bs |-> ("sw" :> sw) @@ ("type" :> e) @@ [c \in Settings |-> v]]
MCPatches == {Patch(Blocks, "OFF", e1, v0), Patch(Blocks, "ON", e2, v1)}

\* None of the blocks is an eq.
ASSUME FixedSlidersHere == FixedSliders

=============================================================================
