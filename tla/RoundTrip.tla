------------------------------ MODULE RoundTrip ------------------------------
(***************************************************************************)
(* Everything an application sends and reads back: settings (module        *)
(* SettingTrip), and the chain, which the facade reads, parses, serializes *)
(* and writes as ChainCodec does.                                          *)
(*                                                                         *)
(* The unit keeps its chain in consecutive slots of one byte each.  A read *)
(* asks for ONE_BYTE and so brings the first slot alone; a write sends all *)
(* its bytes to the first slot and those that follow.                      *)
(***************************************************************************)
EXTENDS SettingTrip, Chain

LOCAL INSTANCE SequencesExt

CONSTANTS
    Slots,          \* bound: the unit's CHAIN ELEMENT slots, 49 in the tables
    Chains,         \* chains the unit may hold: an element code in every slot
    Lists,          \* lists the application may write, as element codes
    Elements        \* the ChainElement table: code -> token

ASSUME ChainsAssumption == Chains \subseteq [1..Slots -> DOMAIN Elements]

VARIABLES
    chain,      \* the unit's slots (external)
    past,       \* what a write put past the last slot (external)
    words,      \* the list of words the application holds
    tree,       \* the block tree it holds
    stage,      \* how far it is with the chain
    before,     \* history: the slots before anything was written
    given       \* history: the codes of the words that were parsed

chainVars == <<chain, past, words, tree, stage, before, given>>
vars == <<settingVars, chainVars>>

-----------------------------------------------------------------------------
Init ==
    /\ SettingInit
    /\ chain = <<>>
    /\ past = <<>>
    /\ words = <<>>
    /\ tree = <<>>
    /\ stage = "none"
    /\ before = <<>>
    /\ given = <<>>

OneByte == 1

Names(codes) == [i \in DOMAIN codes |-> Elements[codes[i]]]

\* The chain is that of the unit's patch, looked at from here on.  Bound: a
\* session that works on it writes no settings, which are elsewhere in memory.
Unseen ==
    /\ phase = "ready"
    /\ job = None
    /\ stage = "none"
    /\ chain' \in Chains
    /\ before' = chain'
    /\ stage' = "words"
    /\ UNCHANGED <<settingVars, past, tree>>

\* read_names: the bytes asked for, by name.  Without an answer fetch returns
\* None, the loop raises TypeError, and nothing has changed.
ReadChain ==
    /\ Unseen
    /\ given' = SubSeq(chain', 1, OneByte)
    /\ words' = Names(given')

\* A list of the application's own, as in the README and the example.
Compose(codes) ==
    /\ Unseen
    /\ given' = codes
    /\ words' = Names(codes)

\* GT1000.parse_chain, and the parsing of ChainCodec.read.  parse_chain takes
\* its tokens off the very list it was handed.
Parse ==
    /\ stage = "words"
    /\ tree' = ParseChain(words, {}).blocks
    /\ words' = ParseChain(words, {}).rest
    /\ stage' = "tree"
    /\ UNCHANGED <<settingVars, chain, past, before, given>>

HasElement(token) == \E code \in DOMAIN Elements : Elements[code] = token

\* chain_element_int
ElementInt(token) == CHOOSE code \in DOMAIN Elements : Elements[code] = token

\* What the slots hold when codes were written from the first one on.
Over(slots, codes) ==
    [i \in DOMAIN slots |-> IF i <= Len(codes) THEN codes[i] ELSE slots[i]]

Beyond(codes) == SubSeq(codes, Slots + 1, Len(codes))

\* write_names: a token without a code raises before anything is sent.
WriteNames(tokens, done) ==
    /\ IF \A i \in DOMAIN tokens : HasElement(tokens[i])
       THEN LET codes == [i \in DOMAIN tokens |-> ElementInt(tokens[i])] IN
            /\ chain' = Over(chain, codes)
            /\ past' = Beyond(codes)
            /\ stage' = done
       ELSE stage' = "keyerror" /\ UNCHANGED <<chain, past>>
    /\ UNCHANGED <<settingVars, words, tree, before, given>>

\* write_chain_from_obj
WriteTree == stage = "tree" /\ WriteNames(SerializeChain(tree), "rewritten")

\* write_chain_from_txt, before or after the list was parsed.
WriteWords == stage \in {"words", "tree"} /\ WriteNames(words, "written")

-----------------------------------------------------------------------------
Next ==
    \/ stage = "none" /\ SettingNext /\ UNCHANGED chainVars
    \/ ReadChain
    \/ \E codes \in Lists : Compose(codes)
    \/ Parse
    \/ WriteTree
    \/ WriteWords

Spec == Init /\ [][Next]_vars

-----------------------------------------------------------------------------
(* Properties                                                              *)

RECURSIVE WellFormed(_, _)

\* Every divider has its split and its mixer, in this order and nested; open
\* holds the dividers around c, and the branch of each.
WellFormed(c, open) ==
    IF c = <<>> THEN open = <<>>
    ELSE LET t == Elements[Head(c)]
             Inside(branch) == open # <<>> /\ Head(open) = <<t.id, branch>>
         IN CASE t.kind = "DIVIDER" ->
                   WellFormed(Tail(c), <<<<t.id, "a">>>> \o open)
              [] t.kind = "BRANCHSPLIT" ->
                   /\ Inside("a")
                   /\ WellFormed(Tail(c), <<<<t.id, "b">>>> \o Tail(open))
              [] t.kind = "MIXER" ->
                   Inside("b") /\ WellFormed(Tail(c), Tail(open))
              [] OTHER -> WellFormed(Tail(c), open)

\* A well formed list that is parsed and written back as a tree puts exactly
\* its elements into the slots, however the dividers nest: no KeyError, no
\* slot after them touched, nothing past the last slot that did not have to.
\* What a read brought leaves the unit's chain as it was when it is written
\* back, or is refused: a divider on its own.
RewriteKeepsChain ==
    /\ WellFormed(given, <<>>) =>
         /\ stage # "keyerror"
         /\ stage = "rewritten" =>
              chain = Over(before, given) /\ past = Beyond(given)
    /\ stage # "none" /\ given = SubSeq(before, 1, OneByte) => chain = before

\* What is left of c once d has been read past it.
LeftAfter(c, d) ==
    FoldLeft(LAMBDA left, e : IF left # <<>> /\ Head(left) = e
                              THEN Tail(left) ELSE left, c, d)

\* However malformed the list, what its tree puts into the slots and past
\* them has every element of the list, in order.
RewriteLosesNothing ==
    stage = "rewritten" =>
        LeftAfter(given,
            SubSeq(chain \o past, 1, Len(SerializeChain(tree)))) = <<>>

=============================================================================
