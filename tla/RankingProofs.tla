---------------------------- MODULE RankingProofs ----------------------------
(***************************************************************************)
(* Proofs about Ranking: what the lists consist of; that the largest       *)
(* lexical score among the candidates is the largest of the scope where a  *)
(* row that has it matches, so that candidates are then ordered as a       *)
(* search among all rows orders them; that a                               *)
(* row which is no worse on either side comes first; that a weight all on  *)
(* one side leaves the pure search of it; and that both lanes list the     *)
(* same, because neither fusion's scores go round in a circle.             *)
(***************************************************************************)
EXTENDS Ranking, FiniteSetTheorems, NaturalsInduction, WellFoundedInduction, TLAPS

\* What never changes after the start.
Fixed == /\ settings \in Setting /\ ValidRanking(settings)
         /\ query \in Query /\ Scored(query, settings)

LEMMA ScoresAreNumbers ==
  ASSUME Fixed, NEW r \in Ids
  PROVE  LexicalScore(r) \in Nat /\ LexicalScore(r) = query.lex[r]
<1>1. query.lex[r] \in Nat
  BY DEF Fixed, Query
<1>2. CASE settings.engine # "sqlite"
  BY <1>1, <1>2 DEF LexicalScore
<1>3. CASE settings.engine = "sqlite" /\ r \in query.matches
  BY <1>1, <1>3 DEF LexicalScore, Bm25
<1>4. CASE settings.engine = "sqlite" /\ r \notin query.matches
  <2>1. query.lex[r] = 0
    BY <1>4 DEF Fixed, Scored
  <2>. QED
    BY <1>4, <2>1 DEF LexicalScore
<1>. QED
  BY <1>2, <1>3, <1>4

-----------------------------------------------------------------------------
(* The largest lexical score.                                               *)

\* A finite set of numbers has a largest one.
LEMMA MaxIsLargest ==
  ASSUME NEW X, IsFiniteSet(X), X \subseteq Nat, X # {}
  PROVE  Max(X) \in X /\ \A x \in X : Max(X) >= x
<1>. DEFINE Over(x) == {y \in X : y > x}
            Counts == {Cardinality(Over(x)) : x \in X}
<1>1. \A x \in X : IsFiniteSet(Over(x)) /\ Cardinality(Over(x)) \in Nat
  BY FS_Subset, FS_CardinalityType
<1>2. Counts \subseteq Nat /\ Counts # {}
  BY <1>1
<1>3. PICK n \in Counts : \A m \in Counts : ~(<<m, n>> \in OpToRel(<, Nat))
  <2>. HIDE DEF Counts
  <2>. QED
    BY <1>2, NatLessThanWellFounded, WFMin, Zenon
<1>4. PICK x \in X : n = Cardinality(Over(x))
  BY <1>3
<1>5. ASSUME NEW y \in X PROVE x >= y
  <2>1. SUFFICES ASSUME y > x PROVE FALSE
    BY <1>4
  <2>2. Over(y) \in SUBSET Over(x) /\ y \in Over(x) /\ y \notin Over(y)
    BY <1>4, <2>1
  <2>3. Cardinality(Over(y)) \in Counts
    OBVIOUS
  <2>. HIDE DEF Over
  <2>4. Cardinality(Over(y)) < Cardinality(Over(x))
    BY <1>1, <1>4, <2>2, FS_Subset
  <2>5. <<Cardinality(Over(y)), n>> \in OpToRel(<, Nat)
    BY <1>1, <1>4, <2>4 DEF OpToRel
  <2>. QED
    BY <1>3, <2>3, <2>5
<1>. HIDE DEF Over, Counts
<1>. QED
  BY <1>4, <1>5 DEF Max

\* No row of a set scores higher than what its scores are divided by.
LEMMA NoneAboveTop ==
  ASSUME Fixed, NEW S \in SUBSET Ids
  PROVE  /\ MaxLexical(S) \in Nat
         /\ \A r \in S : LexicalScore(r) <= MaxLexical(S)
<1>. DEFINE X == {LexicalScore(r) : r \in S}
            f == [r \in S |-> LexicalScore(r)]
<1>1. IsFiniteSet(S)
  BY RankingAssumption, FS_Subset
<1>2. f \in Surjection(S, X)
  BY DEF Surjection
<1>3. IsFiniteSet(X)
  <2>. HIDE DEF X, f
  <2>. QED
    BY <1>1, <1>2, FS_Surjection
<1>4. LexicalScores(S) = X \cup {0}
  BY DEF LexicalScores
<1>5. X \subseteq Nat
  BY ScoresAreNumbers
<1>6. \A r \in S : LexicalScore(r) \in X
  OBVIOUS
<1>. HIDE DEF X, f
<1>7. IsFiniteSet(X \cup {0})
  BY <1>3, FS_AddElement
<1>8. Max(X \cup {0}) \in Nat /\ \A x \in X : Max(X \cup {0}) >= x
  <2>1. PICK Y : Y = X \cup {0}
    OBVIOUS
  <2>2. Y \subseteq Nat /\ Y # {} /\ IsFiniteSet(Y) /\ X \subseteq Y
    BY <1>5, <1>7, <2>1
  <2>3. Max(Y) \in Y /\ \A x \in Y : Max(Y) >= x
    BY <2>2, MaxIsLargest
  <2>. QED
    BY <2>1, <2>2, <2>3
<1>. QED
  BY <1>4, <1>5, <1>6, <1>8 DEF MaxLexical

-----------------------------------------------------------------------------
(* The candidates.                                                          *)

\* A row that matches is a candidate, or one that matches no worse is.
LEMMA BestIsCandidate ==
  ASSUME Fixed, NEW S \in CandidateSets, NEW r \in Matching
  PROVE  \E t \in S : LexicalScore(t) >= LexicalScore(r)
<1>1. CASE settings.engine # "candidates"
  <2>1. S = query.scope
    BY <1>1 DEF CandidateSets
  <2>. QED
    BY <2>1, ScoresAreNumbers DEF Fixed, Query, Matching
<1>2. CASE settings.engine = "candidates"
  <2>1. PICK V \in VectorSides, L \in LexicalSides : S = V \cup L
    BY <1>2 DEF CandidateSets
  <2>2. r \in Matching /\ Matching \subseteq query.scope /\ query.scope \subseteq Ids
    BY DEF Matching, Fixed, Query
  <2>3. IsFiniteSet(Matching)
    BY <2>2, RankingAssumption, FS_Subset
  <2>4. Cardinality(Matching) \in Nat /\ Cardinality(Matching) # 0
    BY <2>2, <2>3, FS_CardinalityType, FS_EmptySet
  <2>5. settings.k \in Nat /\ settings.k >= 1
    BY <1>2 DEF Fixed, ValidRanking, Setting
  <2>6. /\ L \subseteq Matching
        /\ Cardinality(L) = Least(settings.k, Cardinality(Matching))
        /\ \A a \in L, b \in Matching \ L : <<b, a>> \notin LexicallyBefore
    BY DEF LexicalSides, Tops
  <2>7. Cardinality(L) # 0
    BY <2>4, <2>5, <2>6 DEF Least
  <2>8. PICK t \in L : TRUE
    BY <2>7, FS_EmptySet
  <2>9. CASE r \in L
    BY <2>1, <2>9, <2>2, ScoresAreNumbers
  <2>10. CASE r \notin L
    <3>1. t \in Ids /\ r \in Ids /\ <<r, t>> \notin LexicallyBefore
      BY <2>2, <2>6, <2>8, <2>10
    <3>2. ~(LexicalScore(r) > LexicalScore(t))
      BY <3>1 DEF LexicallyBefore
    <3>3. LexicalScore(t) >= LexicalScore(r)
      BY <3>1, <3>2, ScoresAreNumbers
    <3>. QED
      BY <2>1, <2>8, <3>3
  <2>. QED
    BY <2>9, <2>10
<1>. QED
  BY <1>1, <1>2

LEMMA CandidatesAreOfScope ==
  ASSUME Fixed, NEW S \in CandidateSets
  PROVE  S \subseteq query.scope
<1>1. CASE settings.engine # "candidates"
  BY <1>1 DEF CandidateSets
<1>2. CASE settings.engine = "candidates"
  <2>1. PICK V \in VectorSides, L \in LexicalSides : S = V \cup L
    BY <1>2 DEF CandidateSets
  <2>2. V \subseteq query.scope
    BY DEF VectorSides, Tops
  <2>3. L \subseteq query.scope
    BY DEF LexicalSides, Tops, Matching
  <2>. QED
    BY <2>1, <2>2, <2>3
<1>. QED
  BY <1>1, <1>2

\* The candidates have the same largest lexical score as the scope, unless they
\* are chosen and every row that has it fails to match.
LEMMA SameMaximum ==
  ASSUME Fixed, NEW S \in CandidateSets, settings.engine = "candidates" => BestMatches
  PROVE  MaxLexical(S) = MaxLexical(query.scope)
<1>. DEFINE X == LexicalScores(S)
            Y == LexicalScores(query.scope)
<1>1. X \subseteq Y /\ 0 \in X
  BY CandidatesAreOfScope DEF LexicalScores
<1>2. Y \subseteq Nat
  BY ScoresAreNumbers DEF LexicalScores, Fixed, Query
<1>3. \A y \in Y : \E x \in X : x >= y
  <2>1. SUFFICES ASSUME NEW r \in query.scope PROVE \E x \in X : x >= LexicalScore(r)
    BY <1>1 DEF LexicalScores
  <2>2. query.scope \in SUBSET Ids /\ LexicalScore(r) \in Nat
    BY ScoresAreNumbers DEF Fixed, Query
  <2>3. LexicalScore(r) <= MaxLexical(query.scope) /\ MaxLexical(query.scope) \in Nat
    BY <2>2, NoneAboveTop
  <2>4. CASE settings.engine # "candidates"
    <3>1. LexicalScore(r) \in X
      BY <2>4 DEF CandidateSets, LexicalScores
    <3>. QED
      BY <2>2, <3>1
  <2>5. CASE MaxLexical(query.scope) = 0
    BY <1>1, <2>2, <2>3, <2>5
  <2>6. CASE \E b \in Matching : LexicalScore(b) = MaxLexical(query.scope)
    <3>1. PICK b \in Matching : LexicalScore(b) = MaxLexical(query.scope)
      BY <2>6
    <3>2. PICK t \in S : LexicalScore(t) >= LexicalScore(b)
      BY BestIsCandidate
    <3>3. LexicalScore(t) \in X /\ LexicalScore(t) \in Nat
      BY <1>1, <1>2 DEF LexicalScores
    <3>. QED
      BY <2>2, <2>3, <3>1, <3>2, <3>3
  <2>. QED
    BY <2>4, <2>5, <2>6 DEF BestMatches
<1>. HIDE DEF X, Y
<1>4. \A m : (m \in X /\ \A y \in X : m >= y) <=> (m \in Y /\ \A y \in Y : m >= y)
  <2>1. SUFFICES ASSUME NEW m
                 PROVE  (m \in X /\ \A y \in X : m >= y) <=> (m \in Y /\ \A y \in Y : m >= y)
    OBVIOUS
  <2>2. ASSUME m \in X, \A y \in X : m >= y PROVE m \in Y /\ \A y \in Y : m >= y
    <3>1. m \in Y /\ m \in Nat
      BY <1>1, <1>2, <2>2
    <3>2. ASSUME NEW y \in Y PROVE m >= y
      <4>1. PICK x \in X : x >= y
        BY <1>3
      <4>. QED
        BY <4>1, <3>1, <2>2, <1>1, <1>2
    <3>. QED
      BY <3>1, <3>2
  <2>3. ASSUME m \in Y, \A y \in Y : m >= y PROVE m \in X /\ \A y \in X : m >= y
    <3>1. PICK x \in X : x >= m
      BY <1>3, <2>3
    <3>2. x = m
      BY <3>1, <2>3, <1>1, <1>2
    <3>. QED
      BY <3>1, <3>2, <2>3, <1>1
  <2>. QED
    BY <2>2, <2>3
<1>5. (CHOOSE m \in X : \A y \in X : m >= y) = (CHOOSE m \in Y : \A y \in Y : m >= y)
  BY <1>4, Zenon
<1>. QED
  BY <1>5 DEF MaxLexical, Max, X, Y

-----------------------------------------------------------------------------
(* Nothing but the lanes changes.                                           *)

LEMMA InitFixed == Init => Fixed
  BY RankingAssumption DEF Init, Fixed

LEMMA StepFixed == Fixed /\ [Next]_vars => Fixed'
  BY DEF Fixed, Next, Answer, vars, ValidRanking, Scored

\* The order of given rows depends on the query and the settings only.
LEMMA OrderStays ==
  ASSUME UNCHANGED <<settings, query>>, NEW S, NEW top
  PROVE  ScoreOrder(S, top)' = ScoreOrder(S, top)
BY DEF ScoreOrder, ScoresHigher, Weighted, RanksHigher, VectorRank, LexicalRank,
       VectorScore, LexicalScore, Bm25

LEMMA MaximumStays ==
  ASSUME UNCHANGED <<settings, query>>, NEW S
  PROVE  MaxLexical(S)' = MaxLexical(S)
BY DEF MaxLexical, LexicalScores, LexicalScore, Bm25

\* So do the candidates there may be.
LEMMA CandidateSetsStay ==
  ASSUME UNCHANGED <<settings, query>>
  PROVE  CandidateSets' = CandidateSets
BY DEF CandidateSets, VectorSides, LexicalSides, Tops, Nearer, LexicallyBefore,
       VectorScore, LexicalScore, Matching, Bm25

-----------------------------------------------------------------------------
(* The invariant.                                                           *)

\* What a lane has listed is a list of its candidates, ordered with the largest
\* lexical score among them.
Listed(l) ==
  /\ candidates[l] \in CandidateSets
  /\ candidates[l] \subseteq query.scope
  /\ answer[l] \in [1..Least(query.limit, Cardinality(candidates[l]))
                      -> candidates[l]]
  /\ answer[l] \in Listings(candidates[l],
                            ScoreOrder(candidates[l], MaxLexical(candidates[l])),
                            query.limit)

Inv ==
  /\ Fixed
  /\ answered \subseteq Lanes
  /\ DOMAIN candidates = Lanes /\ DOMAIN answer = Lanes
  /\ candidates \in [Lanes -> SUBSET query.scope]
  /\ \A l \in answered : Listed(l)

LEMMA InitInv == Init => Inv
<1>. SUFFICES ASSUME Init PROVE Inv
  OBVIOUS
<1>1. Fixed
  BY InitFixed
<1>. QED
  BY <1>1 DEF Init, Inv

LEMMA NextInv == Inv /\ [Next]_vars => Inv'
<1>. SUFFICES ASSUME Inv, [Next]_vars PROVE Inv'
  OBVIOUS
<1>1. Fixed'
  BY StepFixed DEF Inv
<1>2. CASE UNCHANGED vars
  <2>1. UNCHANGED <<settings, query>>
    BY <1>2 DEF vars
  <2>. QED
    BY <1>1, <1>2, <2>1, OrderStays, MaximumStays, CandidateSetsStay
       DEF Inv, Listed, vars, Listings
<1>3. ASSUME NEW l \in Lanes, Answer(l) PROVE Inv'
  <2>1. UNCHANGED <<settings, query>>
    BY <1>3 DEF Answer
  <2>2a. PICK S \in CandidateSets :
           /\ candidates' = [candidates EXCEPT ![l] = S]
           /\ \E a \in Listings(S, ScoreOrder(S, MaxLexical(S)), query.limit) :
                answer' = [answer EXCEPT ![l] = a]
    BY <1>3 DEF Answer
  <2>2. PICK a \in Listings(S, ScoreOrder(S, MaxLexical(S)), query.limit) :
           /\ candidates' = [candidates EXCEPT ![l] = S]
           /\ answer' = [answer EXCEPT ![l] = a]
    BY <2>2a
  <2>3. S \subseteq query.scope
    BY CandidatesAreOfScope DEF Inv
  <2>4. candidates'[l] = S /\ answer'[l] = a
    BY <2>2 DEF Inv
  <2>5. Listed(l)'
    <3>1. a \in [1..Least(query.limit, Cardinality(S)) -> S]
      BY <2>2 DEF Listings
    <3>2. ScoreOrder(S, MaxLexical(S))' = ScoreOrder(S, MaxLexical(S))
      BY <2>1, OrderStays, MaximumStays
    <3>3. PICK O : O = ScoreOrder(S, MaxLexical(S)) /\ O = ScoreOrder(S, MaxLexical(S))'
      BY <3>2
    <3>4. ScoreOrder(candidates[l], MaxLexical(candidates[l]))' = O
      BY <2>4, <3>3
    <3>5. Listings(S, O, query.limit)' = Listings(S, O, query.limit)
      BY <2>1 DEF Listings
    <3>. QED
      BY <2>1, <2>3, <2>4, <3>1, <3>3, <3>4, <3>5, CandidateSetsStay DEF Listed
  <2>6. ASSUME NEW m \in answered, m # l PROVE Listed(m)'
    <3>1. m \in Lanes /\ Listed(m)
      BY <2>6 DEF Inv
    <3>2. candidates'[m] = candidates[m] /\ answer'[m] = answer[m]
      BY <2>2, <2>6, <3>1 DEF Inv
    <3>. QED
      BY <2>1, <3>1, <3>2, OrderStays, MaximumStays, CandidateSetsStay DEF Listed, Listings
  <2>7. candidates' \in [Lanes -> SUBSET query'.scope] /\ DOMAIN answer' = Lanes
    BY <2>1, <2>2, <2>3 DEF Inv
  <2>8. answered' = answered \cup {l}
    BY <1>3 DEF Answer
  <2>. QED
    BY <1>1, <2>5, <2>6, <2>7, <2>8 DEF Inv
<1>. QED
  BY <1>2, <1>3 DEF Next

LEMMA SpecInv == Spec => []Inv
  BY InitInv, NextInv, PTL DEF Spec

LEMMA InvImplies == Inv => TypeOK /\ SameScoreAsExhaustive
<1>. SUFFICES ASSUME Inv PROVE TypeOK /\ SameScoreAsExhaustive
  OBVIOUS
<1>1. TypeOK
  BY DEF Inv, Fixed, Listed, TypeOK
<1>2. ASSUME NEW l \in answered, settings.engine = "candidates" => BestMatches
      PROVE  MaxLexical(candidates[l]) = MaxLexical(query.scope)
  BY <1>2, SameMaximum DEF Inv, Listed
<1>3. SameScoreAsExhaustive
  BY <1>2 DEF Inv, Listed, SameScoreAsExhaustive
<1>. QED
  BY <1>1, <1>3

\* A search lists rows of its scope, each once, as many as its candidates and
\* the limit allow, with any rows, scores, filters and settings.
THEOREM TypeCorrect == Spec => []TypeOK
  BY SpecInv, InvImplies, PTL

\* With the weighted sum a search among candidates orders them by the scores of
\* a search among all rows, whatever k, alpha and the index are, as long as one
\* of the lexically best rows of the scope satisfies @@.
THEOREM CandidatesScoreAsExhaustive == Spec => []SameScoreAsExhaustive
  BY SpecInv, InvImplies, PTL


-----------------------------------------------------------------------------
(* Lists and their orders.                                                  *)

NoRepeats(s, n) == \A j, k \in 1..n : j < k => s[j] # s[k]

\* T is what the first k places of s hold.
FirstRows(s, k, T) == \A x : x \in T <=> \E j \in 1..k : s[j] = x

\* The first k rows of a list without repetition are k rows.
LEMMA FirstCount ==
  ASSUME NEW n \in Nat, NEW s, NoRepeats(s, n),
         NEW k \in 0..n, NEW T, FirstRows(s, k, T)
  PROVE  IsFiniteSet(T) /\ Cardinality(T) = k
<1>. DEFINE f == [j \in 1..k |-> s[j]]
<1>1. \A i, j \in 1..k : s[i] = s[j] => i = j
  <2>1. TAKE i, j \in 1..k
  <2>2. i \in 1..n /\ j \in 1..n /\ (i < j \/ j < i \/ i = j)
    OBVIOUS
  <2>. QED
    BY <2>2 DEF NoRepeats
<1>2. f \in Bijection(1..k, T)
  BY <1>1 DEF Bijection, Injection, Surjection, IsInjective, FirstRows
<1>3. IsFiniteSet(1..k) /\ Cardinality(1..k) = k
  BY FS_Interval
<1>4. ExistsBijection(1..k, T)
  BY <1>2 DEF ExistsBijection
<1>. QED
  BY <1>3, <1>4, FS_Bijection

\* What a list without a second key on top of R says of the rows before a row.
LEMMA ListsInOrder ==
  ASSUME NEW S, IsFiniteSet(S), NEW R, NEW limit \in Nat, NEW s \in Listings(S, R, limit),
         NEW i \in DOMAIN s
  PROVE  /\ DOMAIN s = 1..Least(limit, Cardinality(S))
         /\ Least(limit, Cardinality(S)) \in Nat
         /\ s[i] \in S
         /\ \A a \in S : <<a, s[i]>> \in R /\ a # s[i] => \E j \in 1..(i - 1) : s[j] = a
         /\ \A j \in 1..(i - 1) : <<s[i], s[j]>> \notin R /\ s[j] # s[i]
<1>. DEFINE n == Least(limit, Cardinality(S))
<1>1. n \in Nat
  BY FS_CardinalityType DEF Least
<1>2. /\ s \in [1..n -> S]
      /\ \A k \in 1..n : /\ \A j \in 1..n : k < j => s[k] # s[j] /\ <<s[j], s[k]>> \notin R
                         /\ \A b \in S \ {s[j] : j \in 1..n} : <<b, s[k]>> \notin R
  BY DEF Listings
<1>. HIDE DEF n
<1>3. i \in 1..n /\ i \in Nat
  BY <1>1, <1>2
<1>4. ASSUME NEW a \in S, <<a, s[i]>> \in R, a # s[i]
      PROVE  \E j \in 1..(i - 1) : s[j] = a
  <2>1. PICK j \in 1..n : s[j] = a
    BY <1>2, <1>3, <1>4
  <2>2. ~(i < j) /\ j # i
    BY <1>2, <1>3, <1>4, <2>1
  <2>3. j \in 1..(i - 1)
    BY <1>1, <1>3, <2>2
  <2>. QED
    BY <2>1, <2>3
<1>5. ASSUME NEW j \in 1..(i - 1) PROVE <<s[i], s[j]>> \notin R /\ s[j] # s[i]
  <2>1. j \in 1..n /\ j < i
    BY <1>1, <1>3
  <2>. QED
    BY <1>2, <1>3, <2>1
<1>6. s[i] \in S /\ DOMAIN s = 1..n
  BY <1>2, <1>3
<1>. QED
  BY <1>1, <1>4, <1>5, <1>6 DEF n

\* A list is a function on the first n numbers, without repetition.
LEMMA ListShape ==
  ASSUME NEW S, IsFiniteSet(S), NEW R, NEW limit \in Nat, NEW s \in Listings(S, R, limit)
  PROVE  \E n \in Nat :
           /\ n = Least(limit, Cardinality(S))
           /\ s \in [1..n -> S] /\ DOMAIN s = 1..n
           /\ NoRepeats(s, n)
<1>. DEFINE n == Least(limit, Cardinality(S))
<1>1. n \in Nat
  BY FS_CardinalityType DEF Least
<1>2. s \in [1..n -> S] /\ NoRepeats(s, n)
  BY DEF Listings, NoRepeats
<1>. HIDE DEF n
<1>3. DOMAIN s = 1..n
  BY <1>2
<1>4. n = Least(limit, Cardinality(S))
  BY DEF n
<1>. QED
  BY <1>1, <1>2, <1>3, <1>4

\* The rows before the i-th are i - 1 rows of S.
LEMMA BeforeCount ==
  ASSUME NEW S, IsFiniteSet(S), NEW R, NEW limit \in Nat, NEW s \in Listings(S, R, limit),
         NEW i \in DOMAIN s, NEW T, FirstRows(s, i - 1, T)
  PROVE  /\ i \in Nat \ {0} /\ i <= Least(limit, Cardinality(S))
         /\ T \subseteq S
         /\ IsFiniteSet(T) /\ Cardinality(T) = i - 1
<1>1. PICK n \in Nat : /\ n = Least(limit, Cardinality(S))
                       /\ s \in [1..n -> S] /\ DOMAIN s = 1..n
                       /\ NoRepeats(s, n)
  BY ListShape
<1>2. i \in 1..n
  BY <1>1
<1>3. PICK m \in 0..n : m = i - 1
  BY <1>2
<1>4. IsFiniteSet(T) /\ Cardinality(T) = m
  BY <1>1, <1>3, FirstCount
<1>5. \A j \in 1..(i - 1) : s[j] \in S
  <2>1. TAKE j \in 1..(i - 1)
  <2>2. j \in 1..n
    BY <1>2
  <2>. QED
    BY <1>1, <2>2
<1>. QED
  BY <1>1, <1>2, <1>3, <1>4, <1>5 DEF FirstRows

\* No more rows than come before a row in the list are better than it.
LEMMA BetterAreFew ==
  ASSUME NEW S, IsFiniteSet(S), NEW R, NEW limit \in Nat, NEW s \in Listings(S, R, limit),
         NEW i \in DOMAIN s, NEW V \in SUBSET S,
         \A v \in V : <<v, s[i]>> \in R /\ v # s[i]
  PROVE  IsFiniteSet(V) /\ Cardinality(V) \in Nat /\ Cardinality(V) <= i - 1
<1>1. PICK T : FirstRows(s, i - 1, T)
  <2>. WITNESS {s[j] : j \in 1..(i - 1)}
  <2>. QED
    BY DEF FirstRows
<1>2. IsFiniteSet(T) /\ Cardinality(T) = i - 1
  BY <1>1, BeforeCount
<1>3. \A a \in S : <<a, s[i]>> \in R /\ a # s[i] => \E j \in 1..(i - 1) : s[j] = a
  BY ListsInOrder
<1>4. V \in SUBSET T
  BY <1>1, <1>3 DEF FirstRows
<1>. QED
  BY <1>2, <1>4, FS_Subset, FS_CardinalityType

\* R is a strict order of S that tells any two rows apart.
Orders(R, S) ==
  /\ \A a \in S : <<a, a>> \notin R
  /\ \A a, b \in S : a # b => <<a, b>> \in R \/ <<b, a>> \in R
  /\ \A a, b \in S : <<a, b>> \in R => <<b, a>> \notin R
  /\ \A a, b, c \in S : <<a, b>> \in R /\ <<b, c>> \in R => <<a, c>> \in R

\* The rows before the i-th of a list are those that go before it in S.
LEMMA PlaceIsRank ==
  ASSUME NEW S, IsFiniteSet(S), NEW R, Orders(R, S),
         NEW limit \in Nat, NEW s \in Listings(S, R, limit), NEW i \in DOMAIN s
  PROVE  /\ IsFiniteSet({b \in S : <<b, s[i]>> \in R})
         /\ Cardinality({b \in S : <<b, s[i]>> \in R}) = i - 1
<1>1. s[i] \in S /\ \A j \in 1..(i - 1) : <<s[i], s[j]>> \notin R /\ s[j] # s[i]
  BY ListsInOrder
<1>2. \A a \in S : <<a, s[i]>> \in R /\ a # s[i] => \E j \in 1..(i - 1) : s[j] = a
  BY ListsInOrder
<1>. DEFINE U == {b \in S : <<b, s[i]>> \in R}
<1>3. \A j \in 1..(i - 1) : s[j] \in S
  <2>1. PICK n \in Nat : s \in [1..n -> S] /\ DOMAIN s = 1..n
    BY ListShape
  <2>. QED
    BY <2>1
<1>4. FirstRows(s, i - 1, U)
  <2>1. ASSUME NEW b \in S, <<b, s[i]>> \in R PROVE \E j \in 1..(i - 1) : s[j] = b
    BY <1>1, <1>2, <2>1 DEF Orders
  <2>2. ASSUME NEW j \in 1..(i - 1) PROVE s[j] \in S /\ <<s[j], s[i]>> \in R
    BY <1>1, <1>3 DEF Orders
  <2>. QED
    BY <2>1, <2>2 DEF FirstRows
<1>. HIDE DEF U
<1>5. IsFiniteSet(U) /\ Cardinality(U) = i - 1
  BY <1>4, BeforeCount
<1>. QED
  BY <1>5 DEF U

\* Rows that an order tells apart can be listed in one way only.
LEMMA OneListing ==
  ASSUME NEW S, IsFiniteSet(S), NEW R, Orders(R, S), NEW limit \in Nat,
         NEW s \in Listings(S, R, limit), NEW t \in Listings(S, R, limit)
  PROVE  s = t
<1>1. PICK n \in Nat : /\ n = Least(limit, Cardinality(S))
                       /\ s \in [1..n -> S] /\ DOMAIN s = 1..n
                       /\ NoRepeats(s, n)
  BY ListShape
<1>2. t \in [1..n -> S] /\ DOMAIN t = 1..n
  BY <1>1, ListShape
<1>3. ASSUME NEW x \in S, NEW y \in S, <<x, y>> \in R, NEW A, NEW B,
             A = {b \in S : <<b, x>> \in R}, B = {b \in S : <<b, y>> \in R},
             IsFiniteSet(A), IsFiniteSet(B), Cardinality(A) = Cardinality(B)
      PROVE  FALSE
  <2>1. x \in B /\ x \notin A
    BY <1>3 DEF Orders
  <2>2. A \in SUBSET B
    BY <1>3 DEF Orders
  <2>3. A = B
    BY <1>3, <2>2, FS_Subset
  <2>. QED
    BY <2>1, <2>3
<1>4. ASSUME NEW i \in 1..n PROVE s[i] = t[i]
  <2>1. i \in DOMAIN s /\ i \in DOMAIN t
    BY <1>1, <1>2
  <2>2. PICK A : A = {b \in S : <<b, s[i]>> \in R}
    OBVIOUS
  <2>3. PICK B : B = {b \in S : <<b, t[i]>> \in R}
    OBVIOUS
  <2>4. IsFiniteSet(A) /\ Cardinality(A) = i - 1
    BY <2>1, <2>2, PlaceIsRank
  <2>5. IsFiniteSet(B) /\ Cardinality(B) = i - 1
    BY <2>1, <2>3, PlaceIsRank
  <2>6. s[i] \in S /\ t[i] \in S
    BY <1>1, <1>2
  <2>7. <<s[i], t[i]>> \notin R
    BY <1>3, <2>2, <2>3, <2>4, <2>5, <2>6
  <2>8. <<t[i], s[i]>> \notin R
    BY <1>3, <2>2, <2>3, <2>4, <2>5, <2>6
  <2>. QED
    BY <2>6, <2>7, <2>8 DEF Orders
<1>. QED
  BY <1>1, <1>2, <1>4

\* The best rows of an order that tells them apart are one set.
LEMMA OneTop ==
  ASSUME NEW S, IsFiniteSet(S), NEW R, NEW n \in Nat,
         \A a, b \in S : a # b => <<a, b>> \in R \/ <<b, a>> \in R,
         NEW T \in Tops(S, R, n), NEW U \in Tops(S, R, n)
  PROVE  T = U
<1>1. /\ T \in SUBSET S /\ U \in SUBSET S
      /\ IsFiniteSet(T) /\ IsFiniteSet(U) /\ Cardinality(T) = Cardinality(U)
      /\ \A a \in T, b \in S \ T : <<b, a>> \notin R
      /\ \A a \in U, b \in S \ U : <<b, a>> \notin R
  BY FS_Subset DEF Tops
<1>2. CASE T \in SUBSET U
  BY <1>1, <1>2, FS_Subset
<1>3. CASE U \in SUBSET T
  BY <1>1, <1>3, FS_Subset
<1>4. CASE T \notin SUBSET U /\ U \notin SUBSET T
  <2>1. PICK a \in T : a \notin U
    BY <1>4
  <2>2. PICK b \in U : b \notin T
    BY <1>4
  <2>. QED
    BY <1>1, <2>1, <2>2
<1>. QED
  BY <1>2, <1>3, <1>4


-----------------------------------------------------------------------------
(* The two fusions: a score is no smaller where both sides are no smaller.  *)

LEMMA TimesKeeps ==
  ASSUME NEW p \in Nat, NEW x \in Int, NEW y \in Int, x >= y
  PROVE  p * x \in Int /\ p * y \in Int /\ p * x >= p * y
         /\ (p > 0 /\ x > y => p * x > p * y)
<1>1. PICK d \in Nat : d = x - y
  OBVIOUS
<1>2. p * x = p * y + p * d
  BY <1>1
<1>3. p * d \in Nat /\ (p > 0 /\ d > 0 => p * d > 0)
  OBVIOUS
<1>. QED
  BY <1>1, <1>2, <1>3

\* Weighted of two rows, with the weights and the largest score in the open.
LEMMA WeightedKeeps ==
  ASSUME NEW p \in Nat, NEW q \in Nat, NEW top \in Nat, NEW x \in Int, NEW y \in Int,
         NEW u \in Nat, NEW v \in Nat, x >= y, u >= v
  PROVE  /\ p * x * top + q * u >= p * y * top + q * v
         /\ p > 0 /\ q > 0 /\ top > 0 /\ (x > y \/ u > v)
              => p * x * top + q * u > p * y * top + q * v
<1>1. /\ p * x \in Int /\ p * y \in Int /\ p * x >= p * y
      /\ (p > 0 /\ x > y => p * x > p * y)
  BY TimesKeeps
<1>2. /\ q * u \in Int /\ q * v \in Int /\ q * u >= q * v
      /\ (q > 0 /\ u > v => q * u > q * v)
  BY TimesKeeps
<1>3. /\ top * (p * x) \in Int /\ top * (p * y) \in Int /\ top * (p * x) >= top * (p * y)
      /\ (top > 0 /\ p * x > p * y => top * (p * x) > top * (p * y))
  BY <1>1, TimesKeeps
<1>4. p * x * top = top * (p * x) /\ p * y * top = top * (p * y)
  BY <1>1
<1>. QED
  BY <1>1, <1>2, <1>3, <1>4

\* A sum of two fractions of one, cross-multiplied.
LEMMA FractionsKeep ==
  ASSUME NEW p \in Nat \ {0}, NEW q \in Nat \ {0}, NEW u \in Nat \ {0}, NEW v \in Nat \ {0},
         p <= u, q <= v
  PROVE  /\ (p + q) * (u * v) \in Int /\ (u + v) * (p * q) \in Int
         /\ (p + q) * (u * v) >= (u + v) * (p * q)
         /\ p < u \/ q < v => (p + q) * (u * v) > (u + v) * (p * q)
<1>1. PICK d \in Nat, e \in Nat : u = p + d /\ v = q + e
  <2>1. u - p \in Nat /\ v - q \in Nat /\ u = p + (u - p) /\ v = q + (v - q)
    OBVIOUS
  <2>. QED
    BY <2>1
<1>2. p * u \in Nat \ {0} /\ q * v \in Nat \ {0}
  BY SMT
<1>3. (p * u) * e \in Nat /\ (q * v) * d \in Nat
      /\ (e > 0 => (p * u) * e > 0) /\ (d > 0 => (q * v) * d > 0)
  BY <1>2
<1>4. (p + q) * (u * v) = (u + v) * (p * q) + (p * u) * e + (q * v) * d
  <2>1. (p + q) * (u * v) = (p * u) * v + (q * v) * u
    OBVIOUS
  <2>2. (u + v) * (p * q) = (p * u) * q + (q * v) * p
    OBVIOUS
  <2>3. (p * u) * v = (p * u) * q + (p * u) * e
    BY <1>1, <1>2
  <2>4. (q * v) * u = (q * v) * p + (q * v) * d
    BY <1>1, <1>2
  <2>5. (p * u) * q \in Int /\ (q * v) * p \in Int
    BY <1>2
  <2>. QED
    BY <1>3, <2>1, <2>2, <2>3, <2>4, <2>5
<1>5. (u + v) * (p * q) \in Int
  OBVIOUS
<1>. QED
  BY <1>1, <1>3, <1>4, <1>5


\* Fewer rows are over a row of a higher score.
LEMMA FewerAbove ==
  ASSUME NEW S, IsFiniteSet(S), NEW f, \A r \in S : f[r] \in Int, NEW a \in S, NEW b \in S,
         NEW A, A = {r \in S : f[r] > f[a]}, NEW B, B = {r \in S : f[r] > f[b]},
         f[a] >= f[b]
  PROVE  /\ Cardinality(A) \in Nat /\ Cardinality(B) \in Nat
         /\ Cardinality(A) <= Cardinality(B)
         /\ f[a] > f[b] => Cardinality(A) < Cardinality(B)
<1>1. A \in SUBSET B /\ B \in SUBSET S
  OBVIOUS
<1>2. IsFiniteSet(A) /\ IsFiniteSet(B)
  BY <1>1, FS_Subset
<1>3. f[a] > f[b] => a \in B /\ a \notin A
  OBVIOUS
<1>. QED
  BY <1>1, <1>2, <1>3, FS_Subset, FS_CardinalityType

LEMMA RanksKeep ==
  ASSUME Fixed, NEW S \in SUBSET Ids, NEW a \in S, NEW b \in S
  PROVE  /\ VectorRank(a, S) \in Nat \ {0} /\ LexicalRank(a, S) \in Nat \ {0}
         /\ VectorScore(a) >= VectorScore(b) => VectorRank(a, S) <= VectorRank(b, S)
         /\ VectorScore(a) > VectorScore(b) => VectorRank(a, S) < VectorRank(b, S)
         /\ query.lex[a] >= query.lex[b] => LexicalRank(a, S) <= LexicalRank(b, S)
         /\ query.lex[a] > query.lex[b] => LexicalRank(a, S) < LexicalRank(b, S)
<1>1. IsFiniteSet(S)
  BY RankingAssumption, FS_Subset
<1>2. \A r \in S : query.vec[r] \in Int /\ query.lex[r] \in Int
  BY DEF Fixed, Query
<1>3. PICK va : va = {r \in S : query.vec[r] > query.vec[a]}
  OBVIOUS
<1>4. PICK vb : vb = {r \in S : query.vec[r] > query.vec[b]}
  OBVIOUS
<1>5. PICK la : la = {r \in S : query.lex[r] > query.lex[a]}
  OBVIOUS
<1>6. PICK lb : lb = {r \in S : query.lex[r] > query.lex[b]}
  OBVIOUS
<1>7. VectorRank(a, S) = 1 + Cardinality(va) /\ VectorRank(b, S) = 1 + Cardinality(vb)
  BY <1>3, <1>4 DEF VectorRank, VectorScore
<1>8. LexicalRank(a, S) = 1 + Cardinality(la)
  <2>1. la = {r \in S : LexicalScore(r) > LexicalScore(a)}
    BY <1>5, ScoresAreNumbers
  <2>. QED
    BY <2>1 DEF LexicalRank
<1>9. LexicalRank(b, S) = 1 + Cardinality(lb)
  <2>1. lb = {r \in S : LexicalScore(r) > LexicalScore(b)}
    BY <1>6, ScoresAreNumbers
  <2>. QED
    BY <2>1 DEF LexicalRank
<1>10. /\ Cardinality(va) \in Nat /\ Cardinality(la) \in Nat
       /\ Cardinality(vb) \in Nat /\ Cardinality(lb) \in Nat
  BY <1>1, <1>3, <1>4, <1>5, <1>6, FS_Subset, FS_CardinalityType
<1>11. ASSUME query.vec[a] >= query.vec[b]
       PROVE  /\ Cardinality(va) <= Cardinality(vb)
              /\ query.vec[a] > query.vec[b] => Cardinality(va) < Cardinality(vb)
  BY <1>1, <1>2, <1>3, <1>4, <1>11, FewerAbove
<1>12. ASSUME query.lex[a] >= query.lex[b]
       PROVE  /\ Cardinality(la) <= Cardinality(lb)
              /\ query.lex[a] > query.lex[b] => Cardinality(la) < Cardinality(lb)
  BY <1>1, <1>2, <1>5, <1>6, <1>12, FewerAbove
<1>. QED
  BY <1>2, <1>7, <1>8, <1>9, <1>10, <1>11, <1>12 DEF VectorScore

\* A row that dominates another one goes before it in every order.
LEMMA DominantFirst ==
  ASSUME Fixed, NEW S \in SUBSET query.scope, NEW a \in S, NEW b \in S, Dominates(a, b)
  PROVE  a # b /\ <<a, b>> \in ScoreOrder(S, MaxLexical(S))
<1>. DEFINE top == MaxLexical(S)
<1>1. /\ query.alpha \in Nat /\ Whole - query.alpha \in Nat
      /\ S \in SUBSET Ids /\ a \in Ids /\ b \in Ids
      /\ a \in query.scope /\ b \in query.scope
      /\ query.vec[a] \in Int /\ query.vec[b] \in Int
      /\ query.lex[a] \in Nat /\ query.lex[b] \in Nat
  BY RankingAssumption DEF Fixed, Query
<1>2. /\ top \in Nat
      /\ top = 0 => query.lex[a] = 0
  BY <1>1, NoneAboveTop, ScoresAreNumbers
<1>3. query.vec[a] >= query.vec[b] /\ query.lex[a] >= query.lex[b]
  BY DEF Dominates, VectorScore
<1>4. LexicalScore(a) = query.lex[a] /\ LexicalScore(b) = query.lex[b]
  BY <1>1, ScoresAreNumbers
<1>. HIDE DEF top
<1>5. a < b \/ /\ settings.fusion = "rrf" \/ query.alpha \in 1..(Whole - 1)
               /\ query.vec[a] > query.vec[b] \/ query.lex[a] > query.lex[b]
  BY DEF Dominates, VectorScore
<1>6. a # b
  BY <1>1, <1>3, <1>5, RankingAssumption
<1>7. CASE settings.fusion = "weighted-sum"
  <2>1. /\ Weighted(a, top) \in Int /\ Weighted(b, top) \in Int
        /\ Weighted(a, top) >= Weighted(b, top)
        /\ query.alpha \in 1..(Whole - 1) /\ (query.vec[a] > query.vec[b] \/ query.lex[a] > query.lex[b])
             => Weighted(a, top) > Weighted(b, top)
    <3>1. CASE top = 0
      <4>1. query.lex[a] = query.lex[b]
        BY <1>1, <1>2, <1>3, <3>1
      <4>2. /\ Weighted(a, top) = query.alpha * query.vec[a]
            /\ Weighted(b, top) = query.alpha * query.vec[b]
        BY <3>1 DEF Weighted, VectorScore
      <4>3. /\ query.alpha * query.vec[a] \in Int /\ query.alpha * query.vec[b] \in Int
            /\ query.alpha * query.vec[a] >= query.alpha * query.vec[b]
            /\ query.alpha > 0 /\ query.vec[a] > query.vec[b]
                 => query.alpha * query.vec[a] > query.alpha * query.vec[b]
        BY <1>1, <1>3, TimesKeeps
      <4>. QED
        BY <1>1, <4>1, <4>2, <4>3, RankingAssumption
    <3>2. CASE top # 0
      <4>1. /\ Weighted(a, top) = query.alpha * query.vec[a] * top + (Whole - query.alpha) * query.lex[a]
            /\ Weighted(b, top) = query.alpha * query.vec[b] * top + (Whole - query.alpha) * query.lex[b]
        BY <1>4, <3>2 DEF Weighted, VectorScore
      <4>2. PICK p \in Nat : p = query.alpha
        BY <1>1
      <4>3. PICK q \in Nat : q = Whole - query.alpha
        BY <1>1
      <4>4. query.alpha \in 1..(Whole - 1) => p > 0 /\ q > 0
        BY <4>2, <4>3, RankingAssumption
      <4>5. /\ p * query.vec[a] * top + q * query.lex[a] >= p * query.vec[b] * top + q * query.lex[b]
            /\ p > 0 /\ q > 0 /\ top > 0 /\ (query.vec[a] > query.vec[b] \/ query.lex[a] > query.lex[b])
                 => p * query.vec[a] * top + q * query.lex[a] > p * query.vec[b] * top + q * query.lex[b]
        BY <1>1, <1>2, <1>3, <4>2, <4>3, WeightedKeeps
      <4>6. \A x \in Int, u \in Nat : p * x * top + q * u \in Int
        BY <1>2
      <4>7. Weighted(a, top) \in Int /\ Weighted(b, top) \in Int
        BY <1>1, <4>1, <4>2, <4>3, <4>6
      <4>. QED
        BY <1>2, <3>2, <4>1, <4>2, <4>3, <4>4, <4>5, <4>7
    <3>. QED
      BY <3>1, <3>2
  <2>2. a < b \/ Weighted(a, top) > Weighted(b, top)
    BY <1>5, <1>7, <2>1
  <2>3. ~(Weighted(b, top) > Weighted(a, top))
    BY <2>1
  <2>. QED
    BY <1>6, <1>7, <2>2, <2>3 DEF ScoreOrder, ScoresHigher, top
<1>8. CASE settings.fusion # "weighted-sum"
  <2>1. RanksHigher(a, b, S) \/ (~RanksHigher(b, a, S) /\ a < b)
    <3>1. PICK va \in Nat \ {0}, la \in Nat \ {0}, vb \in Nat \ {0}, lb \in Nat \ {0} :
            /\ va = RRFK + VectorRank(a, S) /\ la = RRFK + LexicalRank(a, S)
            /\ vb = RRFK + VectorRank(b, S) /\ lb = RRFK + LexicalRank(b, S)
            /\ va <= vb /\ la <= lb
            /\ query.vec[a] > query.vec[b] => va < vb
            /\ query.lex[a] > query.lex[b] => la < lb
      <4>1. /\ VectorRank(a, S) \in Nat \ {0} /\ LexicalRank(a, S) \in Nat \ {0}
            /\ VectorRank(b, S) \in Nat \ {0} /\ LexicalRank(b, S) \in Nat \ {0}
        BY <1>1, RanksKeep
      <4>2. /\ VectorRank(a, S) <= VectorRank(b, S) /\ LexicalRank(a, S) <= LexicalRank(b, S)
            /\ query.vec[a] > query.vec[b] => VectorRank(a, S) < VectorRank(b, S)
            /\ query.lex[a] > query.lex[b] => LexicalRank(a, S) < LexicalRank(b, S)
        BY <1>1, <1>3, RanksKeep DEF VectorScore
      <4>. QED
        BY <4>1, <4>2, RankingAssumption
    <3>2. /\ (va + la) * (vb * lb) \in Int /\ (vb + lb) * (va * la) \in Int
          /\ (va + la) * (vb * lb) >= (vb + lb) * (va * la)
          /\ va < vb \/ la < lb => (va + la) * (vb * lb) > (vb + lb) * (va * la)
      BY <3>1, FractionsKeep
    <3>3. RanksHigher(a, b, S) <=> (va + la) * (vb * lb) > (vb + lb) * (va * la)
      BY <3>1 DEF RanksHigher
    <3>4. RanksHigher(b, a, S) <=> (vb + lb) * (va * la) > (va + la) * (vb * lb)
      BY <3>1 DEF RanksHigher
    <3>5. a < b \/ va < vb \/ la < lb
      BY <1>5, <3>1
    <3>. QED
      BY <3>2, <3>3, <3>4, <3>5
  <2>. QED
    BY <1>6, <1>8, <2>1 DEF ScoreOrder, ScoresHigher, top
<1>. QED
  BY <1>7, <1>8

LEMMA InvDominance == Inv => DominanceKept
<1>. SUFFICES ASSUME Inv, NEW l \in answered, NEW i \in DOMAIN answer[l],
                     NEW a \in candidates[l], Dominates(a, answer[l][i])
              PROVE  \E j \in 1..(i - 1) : answer[l][j] = a
  BY DEF DominanceKept
<1>1. PICK S : S = candidates[l]
  OBVIOUS
<1>2. PICK s : s = answer[l]
  OBVIOUS
<1>3. PICK R : R = ScoreOrder(S, MaxLexical(S))
  OBVIOUS
<1>4. Fixed /\ S \in SUBSET query.scope /\ s \in Listings(S, R, query.limit)
  BY <1>1, <1>2, <1>3 DEF Inv, Listed
<1>5. IsFiniteSet(S) /\ query.limit \in Nat
  BY <1>4, RankingAssumption, FS_Subset DEF Fixed, Query
<1>6. i \in DOMAIN s /\ s[i] \in S
  BY <1>2, <1>4, <1>5, ListsInOrder
<1>7. a # s[i] /\ <<a, s[i]>> \in R
  BY <1>1, <1>2, <1>3, <1>4, <1>6, DominantFirst
<1>8. \E j \in 1..(i - 1) : s[j] = a
  BY <1>1, <1>4, <1>5, <1>6, <1>7, ListsInOrder
<1>. QED
  BY <1>2, <1>8

\* A candidate that is no worse on either side than a listed row, and better in
\* something that counts, is listed before it: with all rows, scores, weights
\* and limits, with every engine and both fusions.
THEOREM DominantRowsFirst == Spec => []DominanceKept
  BY SpecInv, InvDominance, PTL


-----------------------------------------------------------------------------
(* One side alone.                                                          *)

\* A row that goes before a listed one and is not listed so far is no candidate.
LEMMA NoneBetter ==
  ASSUME NEW S, IsFiniteSet(S), NEW R, NEW limit \in Nat, NEW s \in Listings(S, R, limit),
         NEW i \in DOMAIN s, NEW b, \A j \in 1..i : s[j] # b,
         b \in S => <<b, s[i]>> \in R
  PROVE  b \notin S
<1>1. SUFFICES ASSUME b \in S PROVE FALSE
  OBVIOUS
<1>2. i \in Nat \ {0}
  <2>1. PICK n \in Nat : DOMAIN s = 1..n
    BY ListShape
  <2>. QED
    BY <2>1
<1>3. s[i] # b
  BY <1>2
<1>4. PICK j \in 1..(i - 1) : s[j] = b
  BY <1>1, <1>3, ListsInOrder
<1>5. j \in 1..i
  BY <1>2
<1>. QED
  BY <1>4, <1>5

\* Some candidates are the best k of either side, as many as there are.
LEMMA VectorSideTaken ==
  ASSUME NEW S \in CandidateSets, settings.engine = "candidates",
         NEW X, X = query.scope \cap query.reach
  PROVE  \E V \in SUBSET S :
           /\ Cardinality(V) = Least(settings.k, Cardinality(X))
           /\ \A v \in V, b \in X \ V : <<b, v>> \notin Nearer
<1>1. PICK V \in VectorSides, L \in LexicalSides : S = V \cup L
  BY DEF CandidateSets
<1>. V \in SUBSET S
  BY <1>1
<1>. WITNESS V \in SUBSET S
<1>. QED
  BY DEF VectorSides, Tops

LEMMA LexicalSideTaken ==
  ASSUME NEW S \in CandidateSets, settings.engine = "candidates"
  PROVE  \E L \in SUBSET S :
           /\ L \subseteq Matching
           /\ Cardinality(L) = Least(settings.k, Cardinality(Matching))
           /\ \A v \in L, b \in Matching \ L : <<b, v>> \notin LexicallyBefore
<1>1. PICK V \in VectorSides, L \in LexicalSides : S = V \cup L
  BY DEF CandidateSets
<1>. L \in SUBSET S
  BY <1>1
<1>. WITNESS L \in SUBSET S
<1>. QED
  BY DEF LexicalSides, Tops

\* An alpha of one leaves the distance alone to order the rows, one of zero the
\* lexical score.
LEMMA OrderOfOneSide ==
  ASSUME Fixed, settings.fusion = "weighted-sum", NEW S \in SUBSET query.scope,
         NEW top \in Nat, NEW a \in S, NEW b \in S
  PROVE  /\ query.alpha = Whole /\ <<a, b>> \in Nearer => <<a, b>> \in ScoreOrder(S, top)
         /\ query.alpha = 0 /\ (top = 0 => query.lex[a] = 0) /\ <<a, b>> \in LexicallyBefore
              => <<a, b>> \in ScoreOrder(S, top)
<1>1. /\ a \in Ids /\ b \in Ids /\ Whole \in Nat \ {0}
      /\ query.vec[a] \in Int /\ query.vec[b] \in Int
      /\ query.lex[a] \in Nat /\ query.lex[b] \in Nat
      /\ a \in Nat /\ b \in Nat
  BY RankingAssumption DEF Fixed, Query
<1>2. LexicalScore(a) = query.lex[a] /\ LexicalScore(b) = query.lex[b]
  BY <1>1, ScoresAreNumbers
<1>3. ASSUME query.alpha = Whole, <<a, b>> \in Nearer
      PROVE  <<a, b>> \in ScoreOrder(S, top)
  <2>1. query.vec[a] > query.vec[b]
    BY <1>3 DEF Nearer, VectorScore
  <2>2. /\ Whole * query.vec[a] \in Int /\ Whole * query.vec[b] \in Int
        /\ Whole * query.vec[a] > Whole * query.vec[b]
    BY <1>1, <2>1, TimesKeeps
  <2>3. CASE top = 0
    <3>1. /\ Weighted(a, top) = Whole * query.vec[a]
          /\ Weighted(b, top) = Whole * query.vec[b]
      BY <1>3, <2>3 DEF Weighted, VectorScore
    <3>. QED
      BY <2>2, <3>1 DEF ScoreOrder, ScoresHigher
  <2>4. CASE top > 0
    <3>1. /\ Weighted(a, top) = Whole * query.vec[a] * top + (Whole - Whole) * query.lex[a]
          /\ Weighted(b, top) = Whole * query.vec[b] * top + (Whole - Whole) * query.lex[b]
      BY <1>2, <1>3, <2>4 DEF Weighted, VectorScore
    <3>2. (Whole - Whole) * query.lex[a] = 0 /\ (Whole - Whole) * query.lex[b] = 0
      BY <1>1
    <3>3. top * (Whole * query.vec[a]) > top * (Whole * query.vec[b])
      BY <2>2, <2>4, TimesKeeps
    <3>4. /\ Whole * query.vec[a] * top = top * (Whole * query.vec[a])
          /\ Whole * query.vec[b] * top = top * (Whole * query.vec[b])
          /\ top * (Whole * query.vec[a]) \in Int /\ top * (Whole * query.vec[b]) \in Int
      BY <2>2
    <3>5. Weighted(a, top) > Weighted(b, top)
      BY <3>1, <3>2, <3>3, <3>4
    <3>. QED
      BY <3>5 DEF ScoreOrder, ScoresHigher
  <2>. QED
    BY <2>3, <2>4
<1>4. ASSUME query.alpha = 0, top = 0 => query.lex[a] = 0, <<a, b>> \in LexicallyBefore
      PROVE  <<a, b>> \in ScoreOrder(S, top)
  <2>1. query.lex[a] > query.lex[b] \/ (query.lex[a] = query.lex[b] /\ a < b)
    BY <1>2, <1>4 DEF LexicallyBefore
  <2>2. CASE top = 0
    <3>1. a < b
      BY <1>1, <1>4, <2>1, <2>2
    <3>2. Weighted(a, top) = 0 * query.vec[a] /\ Weighted(b, top) = 0 * query.vec[b]
      BY <1>4, <2>2 DEF Weighted, VectorScore
    <3>3. 0 * query.vec[a] = 0 /\ 0 * query.vec[b] = 0
      BY <1>1
    <3>4. ~(Weighted(b, top) > Weighted(a, top)) /\ a < b
      BY <3>1, <3>2, <3>3
    <3>. QED
      BY <3>4 DEF ScoreOrder, ScoresHigher
  <2>3. CASE top > 0
    <3>1. /\ Weighted(a, top) = 0 * query.vec[a] * top + (Whole - 0) * query.lex[a]
          /\ Weighted(b, top) = 0 * query.vec[b] * top + (Whole - 0) * query.lex[b]
      BY <1>2, <1>4, <2>3 DEF Weighted, VectorScore
    <3>2. 0 * query.vec[a] * top = 0 /\ 0 * query.vec[b] * top = 0 /\ Whole - 0 = Whole
      BY <1>1
    <3>3. /\ Whole * query.lex[a] \in Int /\ Whole * query.lex[b] \in Int
          /\ Whole * query.lex[a] >= Whole * query.lex[b]
          /\ query.lex[a] > query.lex[b] => Whole * query.lex[a] > Whole * query.lex[b]
      BY <1>1, <2>1, TimesKeeps
    <3>4. Weighted(a, top) = Whole * query.lex[a] /\ Weighted(b, top) = Whole * query.lex[b]
      BY <3>1, <3>2, <3>3
    <3>5. Weighted(a, top) > Weighted(b, top)
            \/ (~(Weighted(b, top) > Weighted(a, top)) /\ a < b)
      BY <2>1, <3>3, <3>4
    <3>. QED
      BY <3>5 DEF ScoreOrder, ScoresHigher
  <2>. QED
    BY <2>2, <2>3
<1>. QED
  BY <1>3, <1>4

\* The depth is within the list, and within what a side has contributed.
LEMMA DepthIsReached ==
  ASSUME Fixed, NEW S \in CandidateSets, NEW X \in SUBSET query.scope, NEW i \in 1..Depth(X),
         settings.engine = "candidates" =>
           \E T \in SUBSET S : Cardinality(T) = Least(settings.k, Cardinality(X))
  PROVE  /\ i \in 1..Least(query.limit, Cardinality(S))
         /\ settings.engine = "candidates" => i <= Least(settings.k, Cardinality(X))
<1>1. /\ IsFiniteSet(query.scope) /\ query.limit \in Nat /\ settings.k \in Nat
      /\ S \in SUBSET query.scope
  BY RankingAssumption, CandidatesAreOfScope, FS_Subset DEF Fixed, Query, Setting
<1>2. /\ IsFiniteSet(S) /\ Cardinality(S) \in Nat
      /\ IsFiniteSet(X) /\ Cardinality(X) \in Nat
  BY <1>1, FS_Subset, FS_CardinalityType
<1>3. CASE settings.engine = "candidates"
  <2>1. Depth(X) = Least(query.limit, Least(Cardinality(X), settings.k))
    BY <1>3 DEF Depth
  <2>2. PICK T \in SUBSET S : Cardinality(T) = Least(settings.k, Cardinality(X))
    BY <1>3
  <2>3. Cardinality(T) <= Cardinality(S)
    BY <1>2, FS_Subset
  <2>. QED
    BY <1>1, <1>2, <2>1, <2>2, <2>3 DEF Least
<1>4. CASE settings.engine # "candidates"
  <2>1. S = query.scope
    BY <1>4 DEF CandidateSets
  <2>2. Cardinality(X) <= Cardinality(S)
    BY <1>1, <2>1, FS_Subset
  <2>3. Depth(X) = Least(query.limit, Least(Cardinality(X), Cardinality(X)))
    BY <1>4 DEF Depth
  <2>. QED
    BY <1>1, <1>2, <1>4, <2>2, <2>3 DEF Least
<1>. QED
  BY <1>3, <1>4


\* The list of a lane, its candidates and the order they are in.
LEMMA ListOfLane ==
  ASSUME Inv, NEW l \in answered
  PROVE  \E S \in CandidateSets, top \in Nat :
           /\ S = candidates[l] /\ top = MaxLexical(S)
           /\ S \in SUBSET query.scope /\ IsFiniteSet(S)
           /\ answer[l] \in Listings(S, ScoreOrder(S, top), query.limit)
           /\ DOMAIN answer[l] = 1..Least(query.limit, Cardinality(S))
<1>1. PICK S \in CandidateSets : S = candidates[l]
  BY DEF Inv, Listed
<1>2. PICK top \in Nat : top = MaxLexical(S)
  <2>1. S \in SUBSET Ids
    BY <1>1 DEF Inv, Listed, Fixed, Query
  <2>. QED
    BY <2>1, NoneAboveTop DEF Inv
<1>3. /\ S \in SUBSET query.scope
      /\ answer[l] \in Listings(S, ScoreOrder(S, top), query.limit)
      /\ answer[l] \in [1..Least(query.limit, Cardinality(S)) -> S]
  BY <1>1, <1>2 DEF Inv, Listed
<1>4. IsFiniteSet(S)
  BY <1>3, RankingAssumption, FS_Subset DEF Inv, Fixed, Query
<1>5. DOMAIN answer[l] = 1..Least(query.limit, Cardinality(S))
  BY <1>3
<1>. QED
  BY <1>1, <1>2, <1>3, <1>4, <1>5

LEMMA VectorSideAlone ==
  ASSUME Inv, settings.fusion = "weighted-sum", NEW l \in answered, query.alpha = Whole,
         settings.engine = "candidates" => query.reach = Ids
  PROVE  FirstAre(l, query.scope, Nearer)
<1>. DEFINE X == query.scope
<1>1. PICK S \in CandidateSets, top \in Nat :
        /\ S \in SUBSET X /\ IsFiniteSet(S)
        /\ answer[l] \in Listings(S, ScoreOrder(S, top), query.limit)
        /\ DOMAIN answer[l] = 1..Least(query.limit, Cardinality(S))
  BY ListOfLane
<1>2. PICK s : s = answer[l]
  OBVIOUS
<1>3. PICK R : R = ScoreOrder(S, top)
  OBVIOUS
<1>4. Fixed /\ X \subseteq Ids /\ \A r \in X : query.vec[r] \in Int
  BY DEF Inv, Fixed, Query
<1>5. SUFFICES ASSUME NEW i \in 1..Depth(X), NEW b \in X, \A j \in 1..i : s[j] # b,
                      <<b, s[i]>> \in Nearer
               PROVE  FALSE
  BY <1>2 DEF FirstAre
<1>6. PICK T \in SUBSET S :
        settings.engine = "candidates" =>
          /\ Cardinality(T) = Least(settings.k, Cardinality(X))
          /\ \A v \in T, c \in X \ T : <<c, v>> \notin Nearer
  <2>1. CASE settings.engine # "candidates"
    BY <2>1
  <2>2. CASE settings.engine = "candidates"
    <3>1. X = query.scope \cap query.reach
      BY <1>4, <2>2
    <3>. QED
      BY <2>2, <3>1, VectorSideTaken
  <2>. QED
    BY <2>1, <2>2
<1>7. /\ i \in DOMAIN s
      /\ settings.engine = "candidates" => i <= Least(settings.k, Cardinality(X))
  BY <1>1, <1>2, <1>4, <1>5, <1>6, DepthIsReached
<1>8. s \in Listings(S, R, query.limit) /\ query.limit \in Nat
  BY <1>1, <1>2, <1>3, <1>4 DEF Fixed, Query
<1>9. s[i] \in S
  BY <1>1, <1>7, <1>8, ListsInOrder
<1>10. b \in S => <<b, s[i]>> \in R
  BY <1>1, <1>3, <1>4, <1>5, <1>9, OrderOfOneSide
<1>11. ASSUME b \notin S, NEW t \in T PROVE <<t, s[i]>> \in R /\ t # s[i]
  <2>1. settings.engine = "candidates"
    BY <1>11, <1>5 DEF CandidateSets
  <2>2. <<b, t>> \notin Nearer /\ t \in S /\ t \in X /\ s[i] \in X
    BY <1>1, <1>5, <1>6, <1>9, <1>11, <2>1
  <2>3. <<t, s[i]>> \in Nearer /\ t # s[i]
    BY <1>4, <1>5, <2>2 DEF Nearer, VectorScore
  <2>. QED
    BY <1>1, <1>3, <1>4, <1>9, <2>2, <2>3, OrderOfOneSide
<1>12. b \notin S /\ Cardinality(T) \in Nat /\ Cardinality(T) < i
  <2>1. \A j \in 1..i : s[j] # b
    BY <1>5
  <2>2. b \notin S
    BY <1>1, <1>7, <1>8, <1>10, <2>1, NoneBetter
  <2>3. \A t \in T : <<t, s[i]>> \in R /\ t # s[i]
    BY <1>11, <2>2
  <2>4. Cardinality(T) \in Nat /\ Cardinality(T) <= i - 1
    BY <1>1, <1>7, <1>8, <2>3, BetterAreFew
  <2>. QED
    BY <1>5, <2>2, <2>4
<1>13. settings.engine = "candidates"
  BY <1>5, <1>12 DEF CandidateSets
<1>14. i \in Nat
  BY <1>5
<1>. QED
  BY <1>6, <1>7, <1>12, <1>13, <1>14

LEMMA LexicalSideAlone ==
  ASSUME Inv, settings.fusion = "weighted-sum", NEW l \in answered, query.alpha = 0
  PROVE  FirstAre(l, LexicalRows, LexicallyBefore)
<1>1. PICK S \in CandidateSets, top \in Nat :
        /\ top = MaxLexical(S)
        /\ S \in SUBSET query.scope /\ IsFiniteSet(S)
        /\ answer[l] \in Listings(S, ScoreOrder(S, top), query.limit)
        /\ DOMAIN answer[l] = 1..Least(query.limit, Cardinality(S))
  BY ListOfLane
<1>2. PICK s : s = answer[l]
  OBVIOUS
<1>3. PICK R : R = ScoreOrder(S, top)
  OBVIOUS
<1>4. PICK X \in SUBSET query.scope : X = LexicalRows
  BY DEF LexicalRows, Matching
<1>5. /\ Fixed /\ query.scope \subseteq Ids
      /\ query.limit \in Nat /\ settings.k \in Nat
  BY DEF Inv, Fixed, Query, Setting
<1>6. \A r \in query.scope : LexicalScore(r) \in Nat /\ r \in Nat
  BY <1>5, ScoresAreNumbers, RankingAssumption
<1>7. ASSUME NEW a \in S, top = 0 PROVE query.lex[a] = 0
  <2>1. S \in SUBSET Ids /\ a \in Ids
    BY <1>1, <1>5
  <2>2. LexicalScore(a) <= top
    BY <1>1, <1>5, <2>1, NoneAboveTop
  <2>3. LexicalScore(a) \in Nat /\ LexicalScore(a) = query.lex[a]
    BY <1>5, <2>1, ScoresAreNumbers
  <2>. QED
    BY <1>7, <2>2, <2>3
<1>8. SUFFICES ASSUME NEW i \in 1..Depth(X), NEW b \in X,
                      \A j \in 1..i : s[j] # b, <<b, s[i]>> \in LexicallyBefore
               PROVE  FALSE
  BY <1>2, <1>4 DEF FirstAre
<1>9. PICK T \in SUBSET S :
        settings.engine = "candidates" =>
          /\ T \subseteq X
          /\ Cardinality(T) = Least(settings.k, Cardinality(X))
          /\ \A v \in T, c \in X \ T : <<c, v>> \notin LexicallyBefore
  <2>1. CASE settings.engine # "candidates"
    BY <2>1
  <2>2. CASE settings.engine = "candidates"
    <3>1. X = Matching
      BY <1>4, <2>2 DEF LexicalRows
    <3>. QED
      BY <2>2, <3>1, LexicalSideTaken
  <2>. QED
    BY <2>1, <2>2
<1>10. /\ i \in DOMAIN s
       /\ settings.engine = "candidates" => i <= Least(settings.k, Cardinality(X))
  BY <1>1, <1>2, <1>5, <1>8, <1>9, DepthIsReached
<1>11. s \in Listings(S, R, query.limit)
  BY <1>1, <1>2, <1>3
<1>12. s[i] \in S
  BY <1>1, <1>5, <1>10, <1>11, ListsInOrder
<1>13. b \in S => <<b, s[i]>> \in R
  BY <1>1, <1>3, <1>5, <1>7, <1>8, <1>12, OrderOfOneSide
<1>14. ASSUME b \notin S, NEW t \in T PROVE <<t, s[i]>> \in R /\ t # s[i]
  <2>1. settings.engine = "candidates"
    BY <1>8, <1>14 DEF CandidateSets
  <2>2. /\ t \in S /\ t \in query.scope /\ s[i] \in query.scope /\ b \in query.scope
        /\ t # b /\ <<b, t>> \notin LexicallyBefore
    BY <1>1, <1>8, <1>9, <1>12, <1>14, <2>1
  <2>3. <<t, s[i]>> \in LexicallyBefore /\ t # s[i]
    BY <1>5, <1>6, <1>8, <2>2 DEF LexicallyBefore
  <2>. QED
    BY <1>1, <1>3, <1>5, <1>7, <1>12, <2>2, <2>3, OrderOfOneSide
<1>15. b \notin S /\ Cardinality(T) \in Nat /\ Cardinality(T) < i
  <2>1. \A j \in 1..i : s[j] # b
    BY <1>8
  <2>2. b \notin S
    BY <1>1, <1>5, <1>10, <1>11, <1>13, <2>1, NoneBetter
  <2>3. \A t \in T : <<t, s[i]>> \in R /\ t # s[i]
    BY <1>14, <2>2
  <2>4. Cardinality(T) \in Nat /\ Cardinality(T) <= i - 1
    BY <1>1, <1>5, <1>10, <1>11, <2>3, BetterAreFew
  <2>. QED
    BY <1>8, <2>2, <2>4
<1>16. settings.engine = "candidates"
  BY <1>8, <1>15 DEF CandidateSets
<1>17. i \in Nat
  BY <1>8
<1>. QED
  BY <1>9, <1>10, <1>15, <1>16, <1>17

LEMMA InvOneSide == Inv => OneSideAlone
  BY VectorSideAlone, LexicalSideAlone DEF OneSideAlone

\* A search whose weight is all on one side is the pure search of that side, as
\* deep as the candidates go, whatever the other side has put among them: the
\* nearest rows, or with no row in front of one that matches better.
THEOREM OneSideIsPure == Spec => []OneSideAlone
  BY SpecInv, InvOneSide, PTL


-----------------------------------------------------------------------------
(* The two lanes.                                                           *)

\* A comparison G of scores, with the ids to decide where it does not.
ById(G, S) == {p \in S \X S : <<p[1], p[2]>> \in G
                                \/ (<<p[2], p[1]>> \notin G /\ p[1] < p[2])}

\* It is an order when what is not lower than what is not lower is not lower.
LEMMA ByIdOrders ==
  ASSUME NEW S \in SUBSET Nat, NEW G,
         \A a, b \in S : <<a, b>> \in G => <<b, a>> \notin G,
         \A a, b, c \in S : <<a, b>> \notin G /\ <<b, c>> \notin G => <<a, c>> \notin G
  PROVE  Orders(ById(G, S), S)
<1>. DEFINE R == ById(G, S)
<1>1. \A a, b \in S :
        <<a, b>> \in R <=> <<a, b>> \in G \/ (<<b, a>> \notin G /\ a < b)
  BY DEF ById
<1>2. \A a \in S : a \in Nat
  OBVIOUS
<1>. HIDE DEF R
<1>3. \A a \in S : <<a, a>> \notin R
  BY <1>1, <1>2
<1>4. ASSUME NEW a \in S, NEW b \in S, a # b PROVE <<a, b>> \in R \/ <<b, a>> \in R
  <2>1. a < b \/ b < a
    BY <1>2, <1>4
  <2>2. <<a, b>> \in R <=> <<a, b>> \in G \/ (<<b, a>> \notin G /\ a < b)
    BY <1>1
  <2>3. <<b, a>> \in R <=> <<b, a>> \in G \/ (<<a, b>> \notin G /\ b < a)
    BY <1>1
  <2>. QED
    BY <2>1, <2>2, <2>3
<1>5. \A a, b \in S : <<a, b>> \in R => <<b, a>> \notin R
  BY <1>1, <1>2
<1>6. ASSUME NEW a \in S, NEW b \in S, NEW c \in S, <<a, b>> \in R, <<b, c>> \in R
      PROVE  <<a, c>> \in R
  <2>1. <<b, a>> \notin G /\ <<c, b>> \notin G
    BY <1>1, <1>6
  <2>2. <<c, a>> \notin G
    BY <2>1
  <2>3. CASE <<a, b>> \in G \/ <<b, c>> \in G
    <3>1. <<a, c>> \in G
      BY <2>1, <2>3
    <3>. QED
      BY <1>1, <3>1
  <2>4. CASE a < b /\ b < c
    BY <1>1, <1>2, <2>2, <2>4
  <2>. QED
    BY <1>1, <1>6, <2>3, <2>4
<1>. QED
  BY <1>3, <1>4, <1>5, <1>6 DEF Orders, R

\* Fractions over positive numbers, cross-multiplied: <= is transitive.
LEMMA FractionsChain ==
  ASSUME NEW x1 \in Nat, NEW x2 \in Nat, NEW x3 \in Nat,
         NEW y1 \in Nat \ {0}, NEW y2 \in Nat \ {0}, NEW y3 \in Nat \ {0},
         x1 * y2 <= x2 * y1, x2 * y3 <= x3 * y2
  PROVE  x1 * y3 <= x3 * y1
<1>1. y3 * (x1 * y2) <= y3 * (x2 * y1)
  BY TimesKeeps
<1>2. y1 * (x2 * y3) <= y1 * (x3 * y2)
  BY TimesKeeps
<1>3. y3 * (x2 * y1) = y1 * (x2 * y3)
  OBVIOUS
<1>4. y3 * (x1 * y2) = y2 * (x1 * y3) /\ y1 * (x3 * y2) = y2 * (x3 * y1)
  OBVIOUS
<1>5. /\ x1 * y3 \in Int /\ x3 * y1 \in Int
      /\ y3 * (x1 * y2) \in Int /\ y3 * (x2 * y1) \in Int /\ y1 * (x3 * y2) \in Int
  OBVIOUS
<1>6. y2 * (x1 * y3) <= y2 * (x3 * y1)
  BY <1>1, <1>2, <1>3, <1>4, <1>5
<1>7. SUFFICES ASSUME x1 * y3 > x3 * y1 PROVE FALSE
  BY <1>5
<1>8. y2 * (x1 * y3) > y2 * (x3 * y1)
  BY <1>5, <1>7, TimesKeeps
<1>9. y2 * (x1 * y3) \in Int /\ y2 * (x3 * y1) \in Int
  BY <1>5
<1>. QED
  BY <1>6, <1>8, <1>9

\* Neither fusion has scores that go round in a circle, or rows that it cannot
\* compare.
LEMMA ScoresAreOrdered ==
  ASSUME Fixed, NEW S \in SUBSET query.scope, NEW top \in Nat
  PROVE  Orders(ScoreOrder(S, top), S)
<1>. DEFINE G == {p \in S \X S : ScoresHigher(p[1], p[2], S, top)}
<1>1. S \in SUBSET Ids /\ S \in SUBSET Nat
  BY RankingAssumption DEF Fixed, Query
<1>2. \A a, b \in S : <<a, b>> \in G <=> ScoresHigher(a, b, S, top)
  OBVIOUS
<1>3. ScoreOrder(S, top) = ById(G, S)
  BY <1>2 DEF ScoreOrder, ById
<1>4. CASE settings.fusion = "weighted-sum"
  <2>1. ASSUME NEW r \in S PROVE Weighted(r, top) \in Int
    <3>1. /\ query.alpha \in Int /\ Whole - query.alpha \in Int
          /\ VectorScore(r) \in Int /\ LexicalScore(r) \in Int
      BY <1>1, RankingAssumption, ScoresAreNumbers DEF Fixed, Query, VectorScore
    <3>2. \A p, x, q, u \in Int : p * x \in Int /\ p * x * top + q * u \in Int
      OBVIOUS
    <3>. QED
      BY <3>1, <3>2 DEF Weighted
  <2>2. \A a, b \in S : <<a, b>> \in G <=> Weighted(a, top) > Weighted(b, top)
    BY <1>2, <1>4 DEF ScoresHigher
  <2>. HIDE DEF G
  <2>3. \A a, b \in S : <<a, b>> \in G => <<b, a>> \notin G
    BY <2>1, <2>2
  <2>4. \A a, b, c \in S : <<a, b>> \notin G /\ <<b, c>> \notin G => <<a, c>> \notin G
    BY <2>1, <2>2
  <2>. QED
    BY <1>1, <1>3, <2>3, <2>4, ByIdOrders
<1>5. CASE settings.fusion # "weighted-sum"
  <2>. DEFINE x(r) == (RRFK + VectorRank(r, S)) + (RRFK + LexicalRank(r, S))
              y(r) == (RRFK + VectorRank(r, S)) * (RRFK + LexicalRank(r, S))
  <2>1. ASSUME NEW r \in S PROVE x(r) \in Nat /\ y(r) \in Nat \ {0}
    <3>1. PICK v \in Nat \ {0}, w \in Nat \ {0} :
            v = RRFK + VectorRank(r, S) /\ w = RRFK + LexicalRank(r, S)
      <4>1. VectorRank(r, S) \in Nat \ {0} /\ LexicalRank(r, S) \in Nat \ {0}
        BY <1>1, RanksKeep
      <4>. QED
        BY <4>1, RankingAssumption
    <3>2. v + w \in Nat /\ v * w \in Nat \ {0}
      OBVIOUS
    <3>. QED
      BY <3>1, <3>2
  <2>2. \A a, b \in S : <<a, b>> \in G <=> x(a) * y(b) > x(b) * y(a)
    BY <1>2, <1>5 DEF ScoresHigher, RanksHigher
  <2>. HIDE DEF G, x, y
  <2>3. \A a, b \in S : x(a) * y(b) \in Int
    BY <2>1
  <2>4. \A a, b \in S : <<a, b>> \in G => <<b, a>> \notin G
    BY <2>2, <2>3
  <2>5. ASSUME NEW a \in S, NEW b \in S
        PROVE  <<a, b>> \notin G <=> x(a) * y(b) <= x(b) * y(a)
    <3>1. x(a) * y(b) \in Int /\ x(b) * y(a) \in Int
      BY <2>3
    <3>2. <<a, b>> \in G <=> x(a) * y(b) > x(b) * y(a)
      BY <2>2
    <3>. QED
      BY <3>1, <3>2
  <2>6. ASSUME NEW a \in S, NEW b \in S, NEW c \in S, <<a, b>> \notin G, <<b, c>> \notin G
        PROVE  <<a, c>> \notin G
    <3>1. x(a) * y(b) <= x(b) * y(a) /\ x(b) * y(c) <= x(c) * y(b)
      BY <2>5, <2>6
    <3>2. x(a) * y(c) <= x(c) * y(a)
      BY <2>1, <3>1, FractionsChain
    <3>. QED
      BY <2>5, <3>2
  <2>7. \A a, b, c \in S : <<a, b>> \notin G /\ <<b, c>> \notin G => <<a, c>> \notin G
    BY <2>6
  <2>. QED
    BY <1>1, <1>3, <2>4, <2>7, ByIdOrders
<1>. QED
  BY <1>4, <1>5

\* Only rows of the same distance leave a choice of candidates.
LEMMA OneCandidateSet ==
  ASSUME Fixed, NEW S \in CandidateSets, NEW T \in CandidateSets,
         \/ settings.engine # "candidates"
         \/ \A a, b \in query.scope : a # b => VectorScore(a) # VectorScore(b)
  PROVE  S = T
<1>1. CASE settings.engine # "candidates"
  BY <1>1 DEF CandidateSets
<1>2. CASE settings.engine = "candidates"
  <2>1. PICK V \in VectorSides, L \in LexicalSides : S = V \cup L
    BY <1>2 DEF CandidateSets
  <2>2. PICK W \in VectorSides, M \in LexicalSides : T = W \cup M
    BY <1>2 DEF CandidateSets
  <2>3. PICK X : X = query.scope \cap query.reach
    OBVIOUS
  <2>4. /\ query.scope \subseteq Ids /\ X \in SUBSET query.scope
        /\ Matching \in SUBSET query.scope /\ settings.k \in Nat
    BY <2>3 DEF Fixed, Query, Setting, Matching
  <2>5. IsFiniteSet(X) /\ IsFiniteSet(Matching)
    BY <2>4, RankingAssumption, FS_Subset
  <2>6. \A a, b \in X : a # b => <<a, b>> \in Nearer \/ <<b, a>> \in Nearer
    <3>1. \A a \in X : a \in Ids /\ VectorScore(a) \in Int
      BY <2>4 DEF Fixed, Query, VectorScore
    <3>. QED
      BY <1>2, <2>4, <3>1 DEF Nearer
  <2>7. \A a, b \in Matching : a # b => <<a, b>> \in LexicallyBefore \/ <<b, a>> \in LexicallyBefore
    <3>1. \A a \in Matching : a \in Ids /\ a \in Nat /\ LexicalScore(a) \in Nat
      BY <2>4, RankingAssumption, ScoresAreNumbers
    <3>. QED
      BY <3>1 DEF LexicallyBefore
  <2>8. V \in Tops(X, Nearer, settings.k) /\ W \in Tops(X, Nearer, settings.k)
    BY <2>3 DEF VectorSides
  <2>9. L \in Tops(Matching, LexicallyBefore, settings.k)
        /\ M \in Tops(Matching, LexicallyBefore, settings.k)
    BY DEF LexicalSides
  <2>10. V = W
    BY <2>4, <2>5, <2>6, <2>8, OneTop
  <2>11. L = M
    BY <2>4, <2>5, <2>7, <2>9, OneTop
  <2>. QED
    BY <2>1, <2>2, <2>10, <2>11
<1>. QED
  BY <1>1, <1>2

LEMMA InvSameRanking == Inv => SameRanking
<1>. SUFFICES ASSUME Inv, NEW l \in answered, NEW m \in answered,
                     \/ settings.engine # "candidates"
                     \/ \A a, b \in query.scope : a # b => VectorScore(a) # VectorScore(b)
              PROVE  answer[l] = answer[m]
  BY DEF SameRanking
<1>1. PICK S \in CandidateSets, top \in Nat :
        /\ top = MaxLexical(S) /\ S \in SUBSET query.scope /\ IsFiniteSet(S)
        /\ answer[l] \in Listings(S, ScoreOrder(S, top), query.limit)
  BY ListOfLane
<1>2. PICK T \in CandidateSets :
        answer[m] \in Listings(T, ScoreOrder(T, MaxLexical(T)), query.limit)
  BY ListOfLane
<1>3. S = T
  BY OneCandidateSet DEF Inv
<1>4. PICK R : R = ScoreOrder(S, top)
  OBVIOUS
<1>5. query.limit \in Nat /\ Orders(R, S)
  BY <1>1, <1>4, ScoresAreOrdered DEF Inv, Fixed, Query
<1>. QED
  BY <1>1, <1>2, <1>3, <1>4, <1>5, OneListing

\* Search and SearchVector list the same, with all rows, scores, weights and
\* limits; only where candidates are ranked, rows of one distance may differ.
THEOREM LanesAgree == Spec => []SameRanking
  BY SpecInv, InvSameRanking, PTL
=============================================================================
