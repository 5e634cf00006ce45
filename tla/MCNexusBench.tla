---------------------------- MODULE MCNexusBench ----------------------------
(* NexusBench with two workers, and a corpus of two base prompts in three  *)
(* dimensions with, around the first of them, the kinds of the corpus: the *)
(* same prefix with more words, the same words behind another prefix, a    *)
(* near one and unrelated ones.                                            *)
EXTENDS NexusBench

Prompt(prefix, vec, gt) == [prefix |-> prefix, vec |-> vec, gt |-> gt]

MCPrompts == { Prompt("a", <<2, 1, 0>>, "a"),   \* a base prompt
               Prompt("a", <<2, 1, 2>>, "a"),   \* with an addition
               Prompt("b", <<3, 2, 0>>, "a"),   \* as good as exactly the base
               Prompt("c", <<1, 1, 0>>, "c"),   \* near it, another answer
               Prompt("d", <<0, 1, 2>>, "d"),   \* the other base
               Prompt("e", <<0, 0, 1>>, "e") }  \* a unique prompt

MCThresholds == <<70, 85, 95>>
=============================================================================
