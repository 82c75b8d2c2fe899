------------------------------- MODULE Ranking -------------------------------
(***************************************************************************)
(* How a search orders what it finds: the candidates of the three ranking  *)
(* statements (all rows, the union of the best on either side, SQLite's    *)
(* loop in Go), the two ways of fusing a vector score with a lexical one,  *)
(* and the list that is cut to the limit.                                  *)
(*                                                                         *)
(* Scores are small integers.  Floats are compared exactly, so a weighted  *)
(* sum is scaled by Whole and by the largest lexical score, and a sum of   *)
(* reciprocals is compared by cross-multiplying.  The two lanes are Search *)
(* and SearchVector, which the evaluation harness compares with each other.*)
(***************************************************************************)
EXTENDS Integers, FiniteSetsExt

CONSTANTS
  Ids,        \* chunks.id of the rows of all organisations
  Settings,   \* how stores are configured, validly or not
  Queries,    \* what is searched for, and what the scorers say of each row
  Whole,      \* an alpha of 1.0
  RRFK,       \* the smoothing constant of the rank fusion
  Lanes       \* "search" and "searchVector"

Engines == {"exhaustive", "candidates", "sqlite"}

Setting == [engine : Engines, fusion : {"weighted-sum", "rrf"}, k : Nat, ef : Nat]

\* scope is what the WHERE clause lets pass (organisation, documents, sources),
\* matches the rows of which @@ or MATCH holds, reach the rows a walk of the HNSW
\* graph comes to: an index knows no WHERE.
Query == [vec : [Ids -> Int], lex : [Ids -> Nat], scope : SUBSET Ids,
          matches : SUBSET Ids, reach : SUBSET Ids, alpha : 0..Whole,
          limit : Nat \ {0}]

ASSUME RankingAssumption ==
  /\ IsFiniteSet(Ids) /\ Ids \subseteq Nat
  /\ Whole \in Nat \ {0} /\ RRFK \in Nat \ {0}
  /\ Settings \subseteq Setting
  /\ Queries \subseteq Query

VARIABLES
  settings,    \* Options of the store
  query,       \* index.Query
  answered,    \* the lanes that have run the statement
  candidates,  \* by lane, the rows of the candidates CTE
  answer       \* by lane, the ids listed, the best first

vars == <<settings, query, answered, candidates, answer>>

\* SQLite fuses with the weighted sum only.  Only the candidate statement looks
\* at k, and only there an unfit k keeps the store from opening.
ValidRanking(s) ==
  /\ s.engine = "sqlite" => s.fusion = "weighted-sum"
  /\ s.engine = "candidates" => s.k >= 1 /\ s.k <= s.ef

-----------------------------------------------------------------------------
(* Lists and cuts.  An order is a set of pairs, the first goes before the   *)
(* second.                                                                  *)

Least(m, n) == IF m < n THEN m ELSE n

\* ORDER BY R LIMIT n as a set: a row that goes before a taken one is taken.
\* Rows that R does not tell apart are taken as the plan happens to meet them.
Tops(S, R, n) ==
  {T \in SUBSET S : /\ Cardinality(T) = Least(n, Cardinality(S))
                    /\ \A a \in T, b \in S \ T : <<b, a>> \notin R}

\* ORDER BY R LIMIT n as a list.
Listings(S, R, n) ==
  {s \in [1..Least(n, Cardinality(S)) -> S] :
     \A i \in DOMAIN s :
       /\ \A j \in DOMAIN s : i < j => s[i] # s[j] /\ <<s[j], s[i]>> \notin R
       /\ \A b \in S \ {s[j] : j \in DOMAIN s} : <<b, s[i]>> \notin R}

-----------------------------------------------------------------------------
(* The two scores.                                                          *)

\* The inner product: -(embedding <#> q) and dot.
VectorScore(r) == query.vec[r]

\* bm25 is the smaller the better.  Only rows of MATCH have one.
Bm25(r) == -query.lex[r]

\* Mutant: bm25 is taken over with its sign.
LexicalScore_Bm25AsItIs(r) ==
  IF settings.engine # "sqlite" THEN query.lex[r]
  ELSE IF r \in query.matches THEN Bm25(r) ELSE 0

\* A row that is not in the table of scores counts zero in the loop of fuse.
\* ts_rank is computed for any row: to_tsquery makes a phrase of an identifier
\* like a_b, and a row with one word of it has a rank though @@ fails.
LexicalScore(r) ==
  IF settings.engine # "sqlite" THEN query.lex[r]
  ELSE IF r \in query.matches THEN -Bm25(r) ELSE 0

\* MAX(lexical_score) OVER (), and the loop of fuse, which starts at zero.
LexicalScores(S) == {LexicalScore(r) : r \in S} \cup {0}
MaxLexical(S)    == Max(LexicalScores(S))

-----------------------------------------------------------------------------
(* The candidates.                                                          *)

Nearer == {p \in Ids \X Ids : VectorScore(p[1]) > VectorScore(p[2])}

\* Mutant: the lexical side has no second key.
LexicallyBefore_NoId ==
  {p \in Ids \X Ids : LexicalScore(p[1]) > LexicalScore(p[2])}

LexicallyBefore ==
  {p \in Ids \X Ids :
     \/ LexicalScore(p[1]) > LexicalScore(p[2])
     \/ LexicalScore(p[1]) = LexicalScore(p[2]) /\ p[1] < p[2]}

\* The rows of the scope of which @@ holds.
Matching == query.scope \cap query.matches

\* What the index returns is filtered afterwards, so that rows of others use up
\* the width of the search.  With reach = Ids the vector side is exact.
VectorSides  == Tops(query.scope \cap query.reach, Nearer, settings.k)
LexicalSides == Tops(Matching, LexicallyBefore, settings.k)

\* Mutant: the candidates come from the vector side alone.
CandidateSets_VectorOnly ==
  IF settings.engine = "candidates" THEN VectorSides ELSE {query.scope}

CandidateSets ==
  IF settings.engine = "candidates"
    THEN {V \cup L : V \in VectorSides, L \in LexicalSides}
    ELSE {query.scope}

-----------------------------------------------------------------------------
(* Fusion.                                                                  *)

\* Mutant: alpha weighs the lexical side.
Weighted_Swapped(r, top) ==
  IF top = 0 THEN query.alpha * VectorScore(r)
  ELSE (Whole - query.alpha) * VectorScore(r) * top
         + query.alpha * LexicalScore(r)

\* alpha * vector + (1 - alpha) * lexical / top, times Whole and times top; and
\* where top is zero the lexical part falls away.
Weighted(r, top) ==
  IF top = 0 THEN query.alpha * VectorScore(r)
  ELSE query.alpha * VectorScore(r) * top
         + (Whole - query.alpha) * LexicalScore(r)

\* RANK() OVER (ORDER BY ... DESC) among the candidates.
VectorRank(r, S)  == 1 + Cardinality({s \in S : VectorScore(s) > VectorScore(r)})
LexicalRank(r, S) == 1 + Cardinality({s \in S : LexicalScore(s) > LexicalScore(r)})

\* 1 / (k + vector_rank) + 1 / (k + lexical_rank) of a is the larger.
RanksHigher(a, b, S) ==
  LET va == RRFK + VectorRank(a, S)   la == RRFK + LexicalRank(a, S)
      vb == RRFK + VectorRank(b, S)   lb == RRFK + LexicalRank(b, S)
  IN  (va + la) * (vb * lb) > (vb + lb) * (va * la)

ScoresHigher(a, b, S, top) ==
  IF settings.fusion = "weighted-sum"
    THEN Weighted(a, top) > Weighted(b, top)
    ELSE RanksHigher(a, b, S)

\* ORDER BY score DESC, id over the candidates S, whose lexical scores are
\* divided by top.
ScoreOrder(S, top) ==
  {p \in S \X S :
     \/ ScoresHigher(p[1], p[2], S, top)
     \/ ~ScoresHigher(p[2], p[1], S, top) /\ p[1] < p[2]}

-----------------------------------------------------------------------------
(* The machine: a store is asked the same query on both lanes.              *)

\* A walk of the graph returns at most ef rows.  The planner may also sort, and
\* only the candidate statement has an order that the index knows.
Reachable(q, s) ==
  \/ q.reach = Ids
  \/ s.engine = "candidates" /\ Cardinality(q.reach) <= s.ef

\* What matches has a score, and in SQLite nothing else has one.
Scored(q, s) ==
  /\ \A r \in q.matches : q.lex[r] > 0
  /\ s.engine = "sqlite" => \A r \in Ids \ q.matches : q.lex[r] = 0

Init ==
  /\ settings \in {s \in Settings : ValidRanking(s)}
  /\ query \in {q \in Queries : Reachable(q, settings) /\ Scored(q, settings)}
  /\ answered = {}
  /\ candidates = [l \in Lanes |-> {}]
  /\ answer = [l \in Lanes |-> <<>>]

\* searchRows: one statement of PostgreSQL, or fuse.
Answer(l) ==
  /\ l \notin answered
  /\ \E S \in CandidateSets :
       /\ candidates' = [candidates EXCEPT ![l] = S]
       /\ \E a \in Listings(S, ScoreOrder(S, MaxLexical(S)), query.limit) :
            answer' = [answer EXCEPT ![l] = a]
  /\ answered' = answered \cup {l}
  /\ UNCHANGED <<settings, query>>

Next == \E l \in Lanes : Answer(l)

Spec == Init /\ [][Next]_vars

-----------------------------------------------------------------------------
(* Properties.                                                              *)

\* A list has rows of its candidates, as many as there are up to the limit, and
\* the candidates are rows of the scope (searchRows, fuse).
TypeOK ==
  /\ settings \in Setting /\ query \in Query
  /\ answered \subseteq Lanes
  /\ candidates \in [Lanes -> SUBSET query.scope]
  /\ \A l \in answered :
       answer[l] \in [1..Least(query.limit, Cardinality(candidates[l]))
                        -> candidates[l]]

\* Search and SearchVector list the same rows in the same order.  On the vector
\* side there is no second key, so where only candidates are ranked this takes
\* rows of different distance (candidateSelectionCTE, lines 135-151).
SameRanking ==
  \/ settings.engine = "candidates"
     /\ \E a, b \in query.scope : a # b /\ VectorScore(a) = VectorScore(b)
  \/ \A l, m \in answered : answer[l] = answer[m]

\* A lexically best row of the scope is among those that match.
BestMatches ==
  \/ MaxLexical(query.scope) = 0
  \/ \E r \in Matching : LexicalScore(r) = MaxLexical(query.scope)

\* The score of a row is divided by the largest lexical score of the candidates,
\* so that an alpha measured among all rows means something else among few
\* (searchmode.go, lines 37-39, ADR 0022).  It can do so only where every
\* lexically best row of the scope fails @@: otherwise, whatever k and the index
\* are, a weighted sum orders the candidates with the largest score of the whole
\* scope, as a search among all rows does (weightedSumTail).
SameScoreAsExhaustive ==
  settings.fusion = "weighted-sum" /\ (settings.engine = "candidates" => BestMatches) =>
    \A l \in answered :
      answer[l] \in Listings(candidates[l],
                             ScoreOrder(candidates[l], MaxLexical(query.scope)),
                             query.limit)

\* a is as good as b on both sides and better in something that counts.
Dominates(a, b) ==
  /\ VectorScore(a) >= VectorScore(b) /\ query.lex[a] >= query.lex[b]
  /\ \/ a < b
     \/ /\ settings.fusion = "rrf" \/ query.alpha \in 1..(Whole - 1)
        /\ VectorScore(a) > VectorScore(b) \/ query.lex[a] > query.lex[b]

\* A candidate that dominates a listed row is listed in front of it, with every
\* engine and both fusions (weightedSumTail, rrfTail, fuse).
DominanceKept ==
  \A l \in answered : \A i \in DOMAIN answer[l] : \A a \in candidates[l] :
    Dominates(a, answer[l][i]) => \E j \in 1..(i - 1) : answer[l][j] = a

\* How far a list is the best of S when one side has all the weight: k rows
\* where there are only candidates.
Depth(S) ==
  Least(query.limit, Least(Cardinality(S),
    IF settings.engine = "candidates" THEN settings.k ELSE Cardinality(S)))

FirstAre(l, S, R) ==
  \A i \in 1..Depth(S) : \A b \in S \ {answer[l][j] : j \in 1..i} :
    <<b, answer[l][i]>> \notin R

\* The rows that the lexical side looks at: the candidates of PostgreSQL come
\* from the rows that match, whatever ts_rank the others have.
LexicalRows == IF settings.engine = "candidates" THEN Matching ELSE query.scope

\* An alpha of one is the pure vector search, as far as the vector side is
\* exact; an alpha of zero puts no row in front of one that matches better,
\* whatever the index has found (the check of the fusion in searcher.go, lines
\* 287-290, and ADR 0022).
OneSideAlone ==
  settings.fusion = "weighted-sum" =>
    \A l \in answered :
      /\ query.alpha = Whole /\ (settings.engine = "candidates" => query.reach = Ids)
           => FirstAre(l, query.scope, Nearer)
      /\ query.alpha = 0 => FirstAre(l, LexicalRows, LexicallyBefore)
=============================================================================
