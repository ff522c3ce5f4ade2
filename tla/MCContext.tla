------------------------------ MODULE MCContext -------------------------------
(***************************************************************************)
(* Instance of Context for TLC: two files, one path a prefix of the other, *)
(* that may hold a class with a method, or further down a constant and a   *)
(* function that is defined twice.                                         *)
(***************************************************************************)
EXTENDS Context

CONSTANTS a, ab

Line(def, name) == [def |-> def, name |-> name]

Short == <<Line("class", "C"), Line("def", "f")>>
Long  == <<Line("text", ""), Line("constant", "K"), Line("def", "f"), Line("def", "f")>>

TwoPaths     == {a, ab}
Prefixed     == {<<a, a>>, <<ab, ab>>, <<ab, a>>}
TwoContents  == {Short, Long}
TheirLines   == UNION {Range(content) : content \in TwoContents}
Whole        == {<<1, NoEnd>>}
SomeBudgets  == {0, 4, 5, 11, 40}
=============================================================================
