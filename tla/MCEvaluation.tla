----------------------------- MODULE MCEvaluation -----------------------------
(***************************************************************************)
(* An instance of Evaluation for TLC: two evaluations with other corpora,   *)
(* which share Ollama, the files of a cache and the name of their database, *)
(* and the inputs over which the metrics are checked.                      *)
(***************************************************************************)
EXTENDS Evaluation

CONSTANTS p1, p2

Item(key, text) == [key |-> key, text |-> text]
Asking(text, relevant) == [text |-> text, relevant |-> relevant, tags |-> <<"t">>]
Set(passages, queries, distractors, cached) ==
  [passages |-> passages, queries |-> queries, distractors |-> distractors, cached |-> cached]

\* Two batches of distractors would be one more; a batch after the corpus is enough
\* for ids to go on counting.  Double has a key twice, Unasked no queries.
Larger   == Set(<<Item("k1", "a"), Item("k2", "b")>>, <<Asking("a", <<"k2">>)>>,
                <<Item("d1", "a")>>, TRUE)
Smallest == Set(<<Item("k3", "b")>>, <<Asking("a", <<"k3">>)>>, <<>>, FALSE)
Double   == Set(<<Item("k1", "a"), Item("k1", "b")>>, <<Asking("a", <<"k1">>)>>, <<>>, TRUE)
Unasked  == Set(<<Item("k3", "b")>>, <<>>, <<>>, TRUE)

MCSetsOf == [p \in Procs |-> IF p = p1 THEN {Larger, Double} ELSE {Smallest, Unasked}]

MCCalls ==
  [texts : {<<"a", "b">>, <<"a">>, <<"b">>}, kind : {"document", "query"}, cached : BOOLEAN]

OneModel == [p \in Procs |-> "bge-m3:1024"]
OneDb == [p \in Procs |-> "recall_eval"]

\* The text itself is the best of all by the weights it was embedded with.
MCScore(q, v) == IF (q.text = v.text) = (q.weights = v.weights) THEN 1 ELSE 0

-----------------------------------------------------------------------------

\* Sequences of at most n keys without a repetition.
Distinct(n) ==
  UNION {{s \in [1..m -> {"k1", "k2", "k3"}] : AllDistinct(s)} : m \in 0..n}

SomeQueries == [tags : {<<"t", "u">>, <<"t", "t">>}, relevant : Distinct(2) \ {<<>>}]

Lengths == [k \in {"k1", "k2"} |-> IF k = "k1" THEN 600 ELSE 520]
MCRunesOf(text) == IF text = "a" THEN 600 ELSE 520

\* Any query with a list of three, any two with lists of two.
MCInputs ==
  [queries : {<<q>> : q \in SomeQueries}, lists : {<<l>> : l \in Distinct(3)}, runes : {Lengths}]
    \cup [queries : SomeQueries \X SomeQueries, lists : Distinct(2) \X Distinct(2), runes : {Lengths}]

MCSamples == UNION {[1..n -> 1..3] : n \in 0..5}
=============================================================================
