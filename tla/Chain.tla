-------------------------------- MODULE Chain --------------------------------
(***************************************************************************)
(* The effect chain (pygt1000/chain.py): the unit's flat list of tokens,   *)
(* the tree of blocks the parser makes of it, and the way back.  A token   *)
(* is an effect, or the DIVIDER, BRANCHSPLIT or MIXER of one divider.      *)
(***************************************************************************)
EXTENDS Integers, Sequences

Token(kind, id) == [kind |-> kind, id |-> id]
NoToken == Token("", 0)     \* mixer_name ""

-----------------------------------------------------------------------------
(* Slips this code could have had.  Nothing uses them: each shows that a    *)
(* property notices the slip.                                              *)

\* Branch B is read up to the next split.
BranchBToSplit(divider) == {Token("BRANCHSPLIT", divider.id)}
\* The two branches change places.
BranchesSwapped(divider, a, b, mixer) ==
    <<divider>> \o b \o <<Token("BRANCHSPLIT", divider.id)>> \o a \o <<mixer>>

-----------------------------------------------------------------------------
EffectBlock(token) == [block |-> "effect", token |-> token]
DividerBlock(divider, a, b, mixer) ==
    [block |-> "divider", divider |-> divider, branch_a |-> a,
     branch_b |-> b, mixer |-> mixer]

StopTokensForBranchA(divider) ==
    {Token("BRANCHSPLIT", divider.id), Token("MIXER", divider.id)}
StopTokensForBranchB(divider) == {Token("MIXER", divider.id)}

RECURSIVE ParseChain(_, _), ParseDivider(_, _)

\* parse_chain: the blocks up to a stop token, and the tokens left.
ParseChain(tokens, stop_tokens) ==
    IF tokens = <<>> \/ Head(tokens) \in stop_tokens
    THEN [blocks |-> <<>>, rest |-> tokens]
    ELSE LET first ==
               IF Head(tokens).kind = "DIVIDER"
               THEN ParseDivider(Tail(tokens), Head(tokens))
               ELSE [parsed |-> EffectBlock(Head(tokens)),
                     rest |-> Tail(tokens)]
             more == ParseChain(first.rest, stop_tokens)
         IN [blocks |-> <<first.parsed>> \o more.blocks, rest |-> more.rest]

\* parse_divider: one divider with its branches and mixer.  A chain that
\* ends early leaves the mixer out; a mixer at once leaves branch B empty.
ParseDivider(tokens, divider) ==
    LET a == ParseChain(tokens, StopTokensForBranchA(divider)) IN
    IF a.rest = <<>>
    THEN [parsed |-> DividerBlock(divider, a.blocks, <<>>, NoToken),
          rest |-> <<>>]
    ELSE IF Head(a.rest).kind # "BRANCHSPLIT"
    THEN [parsed |-> DividerBlock(divider, a.blocks, <<>>, Head(a.rest)),
          rest |-> Tail(a.rest)]
    ELSE LET b == ParseChain(Tail(a.rest), StopTokensForBranchB(divider)) IN
         IF b.rest = <<>>
         THEN [parsed |-> DividerBlock(divider, a.blocks, b.blocks, NoToken),
               rest |-> <<>>]
         ELSE [parsed |-> DividerBlock(divider, a.blocks, b.blocks,
                                       Head(b.rest)),
               rest |-> Tail(b.rest)]

-----------------------------------------------------------------------------
DividerTokens(divider, a, b, mixer) ==
    <<divider>> \o a \o <<Token("BRANCHSPLIT", divider.id)>> \o b \o <<mixer>>

RECURSIVE SerializeChain(_)

SerializeChain(blocks) ==
    IF blocks = <<>> THEN <<>>
    ELSE LET first == Head(blocks) IN
         (IF first.block = "effect" THEN <<first.token>>
          ELSE DividerTokens(first.divider, SerializeChain(first.branch_a),
                             SerializeChain(first.branch_b), first.mixer))
         \o SerializeChain(Tail(blocks))

=============================================================================
