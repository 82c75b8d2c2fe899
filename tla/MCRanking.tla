------------------------------ MODULE MCRanking ------------------------------
(***************************************************************************)
(* An instance of Ranking for TLC: three rows with every combination of    *)
(* three distances and three lexical scores, k of 1 and 2.                   *)
(***************************************************************************)
EXTENDS Ranking

RowIds == 1..3

Store(engine, fusion, k, ef) == [engine |-> engine, fusion |-> fusion, k |-> k, ef |-> ef]

\* Every engine and fusion, and two settings that are refused.
MCSettings ==
  {Store("exhaustive", f, 0, 0) : f \in {"weighted-sum", "rrf"}}
    \cup {Store("sqlite", "weighted-sum", 0, 0), Store("sqlite", "rrf", 0, 0)}
    \cup {Store("candidates", f, w[1], w[2]) :
            f \in {"weighted-sum", "rrf"}, w \in {<<1, 1>>, <<2, 2>>, <<2, 1>>}}

\* One query of each kind of weight.  The scope is all rows or leaves one out.
MCQueries ==
  [vec : [RowIds -> -1..1], lex : [RowIds -> 0..2],
   scope : {RowIds} \cup {RowIds \ {r} : r \in RowIds},
   matches : SUBSET RowIds,
   reach : {R \in SUBSET RowIds : Cardinality(R) \in 1..3},
   alpha : {0, 5, 10}, limit : 1..2]
=============================================================================
