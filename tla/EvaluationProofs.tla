--------------------------- MODULE EvaluationProofs ---------------------------
(***************************************************************************)
(* Proofs about Evaluation for any processes, sets of files, databases,    *)
(* batch sizes, limits and rounds: a report is about the run's own rows,   *)
(* its digest is that of the weights, and a run that gives up on its lists *)
(* has a cause.  The steps of its embedder are those of EmbeddingProofs.   *)
(***************************************************************************)
EXTENDS Evaluation, EmbeddingProofs, FiniteSetTheorems, NaturalsInduction,
        WellFoundedInduction

\* The fields of a run, one by one.
IsRun(r) ==
  r = [set |-> r.set, keys |-> r.keys, vectors |-> r.vectors, at |-> r.at, round |-> r.round,
       listed |-> r.listed, lists |-> r.lists, since |-> r.since, digest |-> r.digest,
       why |-> r.why]

\* The stages of a run that has read its files, and those with rows in the database.
Begun  == Stages \ {"start", "failed"}
Filled == Begun \ {"create", "migrate", "corpus"}

Entries(set) == ToSet(set.passages) \cup ToSet(set.distractors)

\* CallOf, of a stage and a run.
NextOf(r) ==
  SubSeq(r.set.distractors, r.at + 1, Smaller(r.at + IngestBatchSize, Len(r.set.distractors)))

CallFor(s, r) ==
  [texts  |-> IF s = "corpus" THEN TextsOf(r.set.passages)
              ELSE IF s = "distractors" THEN TextsOf(NextOf(r))
              ELSE <<r.set.queries[r.at + 1].text>>,
   kind   |-> IF s \in {"corpus", "distractors"} THEN "document" ELSE "query",
   cached |-> r.set.cached]

\* What holds of a run at every stage: s is the stage, c the place of its call, w
\* the weights there are.
Shape(p, s, c, r, w) ==
  /\ s \in Stages /\ IsRun(r) /\ (c # "idle" => s \in Embeds)
  /\ s \in {"start", "failed"} => r = [NoRun EXCEPT !.why = r.why]
  /\ s \in Begun => r.set \in SetsOf[p] /\ ValidSet(r.set)
  /\ r.at \in Nat /\ r.round \in 1..Rounds /\ r.since \in 0..w

\* A sequence of whatever it is.
IsList(list) == \E h \in Nat : list = [i \in 1..h |-> list[i]]

\* How far it is.
Progress(s, c, r) ==
  LET count == Len(r.set.queries)
      asked == Len(r.vectors)
      has   == Len(r.lists)
  IN  /\ has \in Nat /\ r.lists = [i \in 1..has |-> r.lists[i]]
      /\ s \in {"create", "migrate", "corpus"} => r.keys = <<>> /\ r.at = 0
      /\ s \in Begun \ {"search", "vector", "report", "done"} => r.lists = <<>> /\ r.round = 1
      /\ s \in {"create", "migrate", "corpus", "distractors"} => r.vectors = <<>>
      /\ s = "corpus" /\ c # "idle" =>
           r.set.passages # <<>> /\ PassageKeys(r.set) \cap Reserved = {}
      /\ s = "distractors" => r.at < Len(r.set.distractors)
      /\ s = "queries" => r.at = asked /\ (r.at < count \/ (count = 0 /\ c = "idle" /\ r.at = 0))
      /\ s \in {"warmup", "search", "vector"} => asked = count /\ r.at < count
      /\ s \in {"search", "vector"} => has = IF r.round = 1 THEN r.at ELSE r.at + 1
      /\ s = "report" => r.at = count
      /\ s \in {"report", "done"} => asked = count /\ has = count
      /\ \A n \in 1..has : IsList(r.lists[n])

\* The ids it has been given stand for its texts, and all the passages have one.
Keyed(s, r) ==
  /\ DOMAIN r.keys \subseteq Nat
  /\ s \in Filled =>
       /\ PassageKeys(r.set) \cap Reserved = {}
       /\ \A i \in DOMAIN r.set.passages :
            \E id \in DOMAIN r.keys : r.keys[id] = r.set.passages[i].key

\* Computed by weights there were since the run began.
Recent(v, r, w) == v.weights \in r.since..w

\* The digest says that the weights are those of the start.
Dated(s, r) == s = "done" /\ r.digest = r.since

\* The vectors of the queries.
Asked(s, r, m, w) ==
  /\ r.vectors \in Seq(Vector) /\ Len(r.vectors) <= Len(r.set.queries)
  /\ \A n \in 1..Len(r.vectors) :
       /\ Good(r.vectors[n], r.set.queries[n].text, m) /\ Recent(r.vectors[n], r, w)
       /\ Dated(s, r) => r.vectors[n].weights = r.since

\* What its call has so far.
InCall(s, c, t, r, w) ==
  c \notin {"idle", "failed"} =>
    /\ t.call = CallFor(s, r)
    /\ c \in {"store", "write"} => UsesFiles(t.call)
    /\ ~UsesFiles(t.call) =>
         /\ \A j \in 1..Len(t.fresh) : Recent(t.fresh[j], r, w)
         /\ c = "ok" => \A i \in 1..Len(t.vectors) : Recent(t.vectors[i], r, w)

KeyList(keys, list) == [i \in DOMAIN list |-> keys[list[i]]]

\* As long as nobody else recreates the database, its rows are there with the ids
\* it was given, and what has been listed is what they list.
Stored(s, r, d, w) ==
  /\ \A id \in DOMAIN r.keys :
       /\ id \in 1..Len(d.rows)
       /\ \E e \in Entries(r.set) : e.key = r.keys[id] /\ e.text = d.rows[id].text
       /\ ~r.set.cached => Recent(d.rows[id], r, w)
       /\ ~r.set.cached /\ Dated(s, r) => d.rows[id].weights = r.since
  /\ \A n \in 1..Len(r.lists) :
       r.lists[n] = KeyList(r.keys, Best(r.vectors[n], d.rows, DOMAIN r.keys))

\* Between the lanes: the first has listed the rows there were, by a vector of the
\* query; more may have come since.
Halfway(p, s, r, m, d, w) ==
  s = "vector" =>
    \E v \in Vector :
      /\ Good(v, r.set.queries[r.at + 1].text, m) /\ Recent(v, r, w)
      /\ d.maker = p =>
           \E n \in 0..Len(d.rows) : DOMAIN r.keys \subseteq 1..n /\ r.listed = Best(v, d.rows, 1..n)

RunInv(p, s, c, t, r, d, w) ==
  /\ Shape(p, s, c, r, w) /\ Progress(s, c, r) /\ Keyed(s, r)
  /\ Asked(s, r, ModelOf[p], w) /\ InCall(s, c, t, r, w)
  /\ d.maker = p => Stored(s, r, d, w)
  /\ Halfway(p, s, r, ModelOf[p], d, w)

Base(d) ==
  /\ d.schema \in {"absent", "empty", "migrated"}
  /\ d.rows \in Seq(Vector) /\ d.maker \in Procs \cup {Nobody}

RunOf(p) ==
  RunInv(p, stage[p], pc[p], task[p], run[p], db[DbOf[p]], weights[ModelOf[p]])

EvalInv ==
  /\ Inv
  /\ DOMAIN db = Databases /\ \A d \in Databases : Base(db[d])
  /\ stage \in [Procs -> Stages] /\ DOMAIN run = Procs
  /\ \A p \in Procs : RunOf(p)

-----------------------------------------------------------------------------
(* The best of some rows.                                                   *)

\* Those of S that are listed before a.
Ahead(q, rows, S, a) == {j \in S : Before(q, rows, j, a)}

LEMMA BeforeOrders ==
  ASSUME NEW q \in Vector, NEW rows \in Seq(Vector), NEW S \in SUBSET (1..Len(rows))
  PROVE  /\ \A a \in S : ~Before(q, rows, a, a)
         /\ \A a, b \in S : a # b => Before(q, rows, a, b) \/ Before(q, rows, b, a)
         /\ \A a, b, c \in S : Before(q, rows, a, b) /\ Before(q, rows, b, c) => Before(q, rows, a, c)
<1>1. ASSUME NEW a \in S PROVE a \in Nat /\ Score(q, rows[a]) \in Int
  <2>1. a \in Nat /\ rows[a] \in Vector
    OBVIOUS
  <2>2. Score(q, rows[a]) \in Int
    BY <2>1, EvaluationAssumption, Zenon
  <2>. QED
    BY <2>1, <2>2
<1>. QED
  BY <1>1 DEF Before

LEMMA PlacesDiffer ==
  ASSUME NEW q \in Vector, NEW rows \in Seq(Vector), NEW S \in SUBSET (1..Len(rows))
  PROVE  /\ IsFiniteSet(S) /\ Cardinality(S) \in Nat
         /\ \A a \in S : /\ Cardinality(Ahead(q, rows, S, a)) \in Nat
                         /\ Cardinality(Ahead(q, rows, S, a)) < Cardinality(S)
         /\ \A a, b \in S : Before(q, rows, a, b) =>
              Cardinality(Ahead(q, rows, S, a)) < Cardinality(Ahead(q, rows, S, b))
<1>1. IsFiniteSet(S) /\ Cardinality(S) \in Nat
  <2>1. PICK n \in Nat : n = Len(rows)
    OBVIOUS
  <2>2. S \in SUBSET (1..n)
    BY <2>1
  <2>3. IsFiniteSet(1..n)
    BY FS_Interval
  <2>4. IsFiniteSet(S)
    BY <2>2, <2>3, FS_Subset
  <2>. QED
    BY <2>4, FS_CardinalityType
<1>2. ASSUME NEW a \in S, NEW A, A = Ahead(q, rows, S, a)
      PROVE  /\ IsFiniteSet(A) /\ Cardinality(A) \in Nat /\ Cardinality(A) < Cardinality(S)
             /\ A \in SUBSET S /\ a \notin A
  <2>1. A \in SUBSET S /\ a \notin A /\ a \in S
    BY <1>2, BeforeOrders DEF Ahead
  <2>2. IsFiniteSet(A) /\ Cardinality(A) <= Cardinality(S) /\ (Cardinality(S) = Cardinality(A) => S = A)
    BY <1>1, <2>1, FS_Subset
  <2>3. Cardinality(A) \in Nat
    BY <2>2, FS_CardinalityType
  <2>4. Cardinality(S) # Cardinality(A)
    BY <2>1, <2>2
  <2>. QED
    BY <1>1, <2>1, <2>2, <2>3, <2>4
<1>3. ASSUME NEW a \in S, NEW b \in S, Before(q, rows, a, b), NEW A, A = Ahead(q, rows, S, a),
             NEW B, B = Ahead(q, rows, S, b)
      PROVE  Cardinality(A) < Cardinality(B)
  <2>1. A \in SUBSET B /\ a \in B /\ a \notin A
    BY <1>3, BeforeOrders DEF Ahead
  <2>. QED
    BY <1>2, <1>3, <2>1, FS_Subset
<1>. QED
  BY <1>1, <1>2, <1>3

LEMMA OnePlace ==
  ASSUME NEW q \in Vector, NEW rows \in Seq(Vector), NEW S \in SUBSET (1..Len(rows)),
         NEW a \in S, NEW b \in S, a # b
  PROVE  Cardinality(Ahead(q, rows, S, a)) + 1 # Cardinality(Ahead(q, rows, S, b)) + 1
<1>1. Before(q, rows, a, b) \/ Before(q, rows, b, a)
  BY BeforeOrders
<1>2. PICK m \in Nat : m = Cardinality(Ahead(q, rows, S, a))
  BY PlacesDiffer
<1>3. PICK n \in Nat : n = Cardinality(Ahead(q, rows, S, b))
  BY PlacesDiffer
<1>4. m < n \/ n < m
  BY <1>1, <1>2, <1>3, PlacesDiffer
<1>. QED
  BY <1>2, <1>3, <1>4

\* Every place is taken.
LEMMA PlacesTaken ==
  ASSUME NEW q \in Vector, NEW rows \in Seq(Vector), NEW S \in SUBSET (1..Len(rows)),
         NEW i \in 1..Cardinality(S)
  PROVE  \E a \in S : Cardinality(Ahead(q, rows, S, a)) = i - 1
<1>. DEFINE place(a) == Cardinality(Ahead(q, rows, S, a)) + 1
            f == [a \in S |-> place(a)]
<1>1. PICK n \in Nat : n = Cardinality(S) /\ IsFiniteSet(S)
  BY PlacesDiffer
<1>2. \A a \in S : place(a) \in 1..n
  BY <1>1, PlacesDiffer
<1>3. ASSUME NEW a \in S, NEW b \in S, a # b PROVE place(a) # place(b)
  BY <1>3, OnePlace
<1>. HIDE DEF place
<1>4. f \in Injection(S, 1..n)
  BY <1>2, <1>3 DEF Injection, IsInjective
<1>5. IsFiniteSet(1..n) /\ Cardinality(1..n) = n
  BY FS_Interval
<1>6. f \in Surjection(S, 1..n)
  <2>. HIDE DEF f
  <2>. QED
    BY <1>1, <1>4, <1>5, FS_Injection
<1>7. \E a \in S : f[a] = i
  BY <1>1, <1>6 DEF Surjection
<1>. QED
  BY <1>7, PlacesDiffer DEF place

LEMMA BestAt ==
  ASSUME NEW q \in Vector, NEW rows \in Seq(Vector), NEW S \in SUBSET (1..Len(rows))
  PROVE  \E n \in Nat :
           /\ n = Smaller(Limit, Cardinality(S)) /\ n <= Cardinality(S) /\ n <= Limit
           /\ n < Limit => n = Cardinality(S)
           /\ Best(q, rows, S) = [i \in 1..n |-> Best(q, rows, S)[i]]
           /\ \A i \in 1..n : /\ Best(q, rows, S)[i] \in S
                              /\ Cardinality(Ahead(q, rows, S, Best(q, rows, S)[i])) = i - 1
           /\ \A i \in 1..n : \A a \in S : Cardinality(Ahead(q, rows, S, a)) = i - 1
                                             => Best(q, rows, S)[i] = a
<1>1. Limit \in Nat /\ Cardinality(S) \in Nat
  BY PlacesDiffer, EvaluationAssumption
<1>2. PICK n \in Nat : n = Smaller(Limit, Cardinality(S))
  BY <1>1 DEF Smaller
<1>3. n <= Cardinality(S) /\ n <= Limit /\ (n < Limit => n = Cardinality(S))
  BY <1>1, <1>2 DEF Smaller
<1>4. PICK best : best = Best(q, rows, S)
  OBVIOUS
<1>5. best = [i \in 1..n |->
        CHOOSE id \in S : Cardinality(Ahead(q, rows, S, id)) = i - 1]
  BY <1>2, <1>4 DEF Best, Ahead
<1>6. ASSUME NEW i \in 1..n
      PROVE  best[i] \in S /\ Cardinality(Ahead(q, rows, S, best[i])) = i - 1
  <2>1. \E a \in S : Cardinality(Ahead(q, rows, S, a)) = i - 1
    <3>1. i \in 1..Cardinality(S)
      BY <1>1, <1>3
    <3>. QED
      BY <3>1, PlacesTaken
  <2>. QED
    BY <1>5, <2>1
<1>7. ASSUME NEW i \in 1..n, NEW a \in S, Cardinality(Ahead(q, rows, S, a)) = i - 1
      PROVE  best[i] = a
  <2>1. best[i] \in S /\ Cardinality(Ahead(q, rows, S, best[i])) = i - 1
    BY <1>6
  <2>. QED
    BY <1>7, <2>1, OnePlace
<1>8. best = [i \in 1..n |-> best[i]]
  BY <1>5
<1>. QED
  BY <1>2, <1>3, <1>4, <1>6, <1>7, <1>8

\* When all that is listed of T is in S, S lists the same.
LEMMA BestOfMore ==
  ASSUME NEW q \in Vector, NEW rows \in Seq(Vector), NEW T \in SUBSET (1..Len(rows)),
         NEW S \in SUBSET T,
         \A i \in DOMAIN Best(q, rows, T) : Best(q, rows, T)[i] \in S
  PROVE  Best(q, rows, T) = Best(q, rows, S)
<1>1. PICK t : t = Best(q, rows, T)
  OBVIOUS
<1>2. PICK s : s = Best(q, rows, S)
  OBVIOUS
<1>3. PICK n \in Nat :
        /\ n = Smaller(Limit, Cardinality(T)) /\ n <= Cardinality(T) /\ n <= Limit
        /\ n < Limit => n = Cardinality(T)
        /\ t = [i \in 1..n |-> t[i]]
        /\ \A i \in 1..n : t[i] \in T /\ Cardinality(Ahead(q, rows, T, t[i])) = i - 1
        /\ \A i \in 1..n : \A a \in T : Cardinality(Ahead(q, rows, T, a)) = i - 1 => t[i] = a
  BY <1>1, BestAt
<1>4. S \in SUBSET (1..Len(rows))
  OBVIOUS
<1>5. PICK m \in Nat :
        /\ m = Smaller(Limit, Cardinality(S)) /\ m <= Cardinality(S) /\ m <= Limit
        /\ m < Limit => m = Cardinality(S)
        /\ s = [i \in 1..m |-> s[i]]
        /\ \A i \in 1..m : \A a \in S : Cardinality(Ahead(q, rows, S, a)) = i - 1 => s[i] = a
  BY <1>2, <1>4, BestAt
<1>6. ASSUME NEW i \in 1..n
      PROVE  t[i] \in S /\ Cardinality(Ahead(q, rows, S, t[i])) = i - 1
  <2>1. t[i] \in S
    BY <1>1, <1>3
  <2>2. ASSUME NEW j \in T, Before(q, rows, j, t[i]) PROVE j \in S
    <3>1. Cardinality(Ahead(q, rows, T, t[i])) = i - 1
      BY <1>3
    <3>2. PICK k \in Nat : k = Cardinality(Ahead(q, rows, T, j))
      BY PlacesDiffer
    <3>3. k < i - 1
      BY <1>3, <2>2, <3>1, <3>2, PlacesDiffer
    <3>4. k + 1 \in 1..n /\ k = (k + 1) - 1
      BY <3>3
    <3>5. t[k + 1] = j
      BY <1>3, <3>2, <3>4
    <3>. QED
      BY <1>1, <1>3, <3>4, <3>5
  <2>3. Ahead(q, rows, S, t[i]) = Ahead(q, rows, T, t[i])
    BY <2>2 DEF Ahead
  <2>. QED
    BY <1>3, <2>1, <2>3
<1>7. n = m
  <2>1. IsFiniteSet(T) /\ Cardinality(T) \in Nat /\ Cardinality(S) \in Nat
    BY <1>4, PlacesDiffer
  <2>2. Cardinality(S) <= Cardinality(T)
    BY <2>1, FS_Subset
  <2>3. n <= Cardinality(S)
    <3>1. CASE n = 0
      BY <2>1, <3>1
    <3>2. CASE n > 0
      <4>1. t[n] \in S /\ Cardinality(Ahead(q, rows, S, t[n])) = n - 1
        BY <1>6, <3>2
      <4>2. Cardinality(Ahead(q, rows, S, t[n])) < Cardinality(S)
        BY <1>4, <4>1, PlacesDiffer
      <4>. QED
        BY <2>1, <4>1, <4>2
    <3>. QED
      BY <3>1, <3>2
  <2>. QED
    BY <1>3, <1>5, <2>1, <2>2, <2>3, EvaluationAssumption
<1>8. \A i \in 1..n : s[i] = t[i]
  BY <1>5, <1>6, <1>7
<1>9. s = t
  <2>1. s = [i \in 1..n |-> s[i]]
    BY <1>5, <1>7
  <2>2. t = [i \in 1..n |-> t[i]]
    BY <1>3
  <2>. QED
    BY <1>8, <2>1, <2>2
<1>. QED
  BY <1>1, <1>2, <1>9

\* What some rows list depends on these rows alone.
LEMMA BestStays ==
  ASSUME NEW q \in Vector, NEW rows \in Seq(Vector), NEW more \in Seq(Vector),
         NEW S \in SUBSET (1..Len(rows)), S \in SUBSET (1..Len(more)),
         \A i \in S : more[i] = rows[i]
  PROVE  Best(q, more, S) = Best(q, rows, S)
<1>1. PICK t : t = Best(q, rows, S)
  OBVIOUS
<1>2. PICK s : s = Best(q, more, S)
  OBVIOUS
<1>3. PICK n \in Nat :
        /\ n = Smaller(Limit, Cardinality(S))
        /\ t = [i \in 1..n |-> t[i]]
        /\ \A i \in 1..n : t[i] \in S /\ Cardinality(Ahead(q, rows, S, t[i])) = i - 1
  BY <1>1, BestAt
<1>4. PICK m \in Nat :
        /\ m = Smaller(Limit, Cardinality(S))
        /\ s = [i \in 1..m |-> s[i]]
        /\ \A i \in 1..m : \A a \in S : Cardinality(Ahead(q, more, S, a)) = i - 1 => s[i] = a
  BY <1>2, BestAt
<1>5. ASSUME NEW a \in S PROVE Ahead(q, more, S, a) = Ahead(q, rows, S, a)
  BY DEF Ahead, Before
<1>6. \A i \in 1..n : s[i] = t[i]
  BY <1>3, <1>4, <1>5
<1>7. s = [i \in 1..n |-> s[i]] /\ t = [i \in 1..n |-> t[i]]
  BY <1>3, <1>4
<1>. QED
  BY <1>1, <1>2, <1>6, <1>7

-----------------------------------------------------------------------------
(* What a step leaves alone.                                                *)

\* What q may find after a step of another: its database is somebody else's now,
\* or has kept its rows.
Later(q, d, e) ==
  e.maker = q =>
    /\ d.maker = q /\ Len(d.rows) <= Len(e.rows)
    /\ \A i \in 1..Len(d.rows) : e.rows[i] = d.rows[i]

\* The files of a run that has begun.
LEMMA SetFacts ==
  ASSUME NEW p \in Procs, NEW set \in SetsOf[p]
  PROVE  /\ set.passages \in Seq(Entry) /\ set.distractors \in Seq(Entry)
         /\ set.queries \in Seq([text : Texts, relevant : Seq(STRING), tags : Seq(STRING)])
         /\ set.cached \in BOOLEAN /\ CallsAreThere(set)
         /\ \A i \in DOMAIN set.distractors : set.distractors[i].key \in Reserved
  BY EvaluationAssumption DEF EvalSet

LEMMA Counts ==
  /\ \A p \in Procs : \A set \in SetsOf[p] : Len(set.queries) \in Nat
  /\ <<>> \in Seq(Vector) /\ Len(<<>>) = 0
<1>1. ASSUME NEW p \in Procs, NEW set \in SetsOf[p] PROVE Len(set.queries) \in Nat
  BY SetFacts
<1>2. <<>> \in Seq(Vector) /\ Len(<<>>) = 0
  OBVIOUS
<1>. QED
  BY <1>1, <1>2, Zenon

\* Every list belongs to a query that has a vector.
LEMMA ListsAreAsked ==
  ASSUME NEW p \in Procs, NEW s, NEW c, NEW r, NEW w, NEW m,
         Shape(p, s, c, r, w), Progress(s, c, r), Asked(s, r, m, w)
  PROVE  \E n, l \in Nat : /\ n = Len(r.vectors) /\ l = Len(r.lists) /\ l <= n
                           /\ \A i \in 1..l : i \in 1..n /\ r.vectors[i] \in Vector
<1>1. PICK n \in Nat : n = Len(r.vectors) /\ r.vectors \in [1..n -> Vector]
  BY DEF Asked
<1>2. PICK l \in Nat : l = Len(r.lists)
  BY DEF Progress
<1>3. l <= n
  <2>1. CASE s \in {"start", "failed"}
    <3>1. r.lists = <<>>
      BY <2>1 DEF Shape, NoRun
    <3>. QED
      BY <1>1, <1>2, <3>1
  <2>2. CASE s \in Begun \ {"search", "vector", "report", "done"}
    <3>1. r.lists = <<>>
      BY <2>2 DEF Progress
    <3>. QED
      BY <1>1, <1>2, <3>1
  <2>3. CASE s \in {"search", "vector"}
    <3>1. n = Len(r.set.queries) /\ r.at < n /\ l = IF r.round = 1 THEN r.at ELSE r.at + 1
      BY <1>1, <1>2, <2>3 DEF Progress
    <3>. QED
      BY <3>1 DEF Shape
  <2>4. CASE s \in {"report", "done"}
    BY <1>1, <1>2, <2>4 DEF Progress
  <2>. QED
    BY <2>1, <2>2, <2>3, <2>4 DEF Shape, Begun, Stages, Embeds
<1>. QED
  BY <1>1, <1>2, <1>3

\* The run of which an error is left.
Over(why) ==
  [set |-> EmptySet, keys |-> <<>>, vectors |-> <<>>, at |-> 0, round |-> 1,
   listed |-> <<>>, lists |-> <<>>, since |-> 0, digest |-> NoDigest, why |-> why]

LEMMA OverIsNoRun == (\A why : [NoRun EXCEPT !.why = why] = Over(why)) /\ NoRun = Over("")
<1>1. NoRun = Over("")
  BY DEF NoRun, Over
<1>2. ASSUME NEW why PROVE [NoRun EXCEPT !.why = why] = Over(why)
  <2>1. PICK o : o = NoRun
    OBVIOUS
  <2>2. PICK u : u = [o EXCEPT !.why = why]
    OBVIOUS
  <2>3. u = Over(why)
    BY <1>1, <2>1, <2>2 DEF Over
  <2>. QED
    BY <2>1, <2>2, <2>3
<1>. QED
  BY <1>1, <1>2

\* A run that is over, or has not begun.
LEMMA NoRunFits ==
  ASSUME NEW p \in Procs, NEW s \in {"start", "failed"}, NEW t, NEW why, NEW d, NEW w \in Nat,
         NEW r, r = Over(why)
  PROVE  RunInv(p, s, "idle", t, r, d, w)
<1>1. r = [NoRun EXCEPT !.why = r.why]
  BY OverIsNoRun DEF Over
<1>2. /\ r.keys = <<>> /\ r.vectors = <<>> /\ r.at = 0 /\ r.round = 1 /\ r.lists = <<>>
      /\ r.since = 0 /\ r.why = why /\ r.set = EmptySet /\ IsRun(r)
  BY DEF IsRun, Over
<1>3. 1 \in 1..Rounds /\ 0 \in 0..w
  BY EvaluationAssumption
<1>4. Shape(p, s, "idle", r, w)
  BY <1>1, <1>2, <1>3 DEF Shape, Begun, Stages
<1>5. Progress(s, "idle", r) /\ Keyed(s, r)
  BY <1>2 DEF Progress, Keyed, Begun, Filled, Stages
<1>6. Asked(s, r, ModelOf[p], w)
  <2>1. EmptySet.queries = <<>> /\ r.vectors \in Seq(Vector) /\ Len(r.vectors) = 0
    BY <1>2 DEF EmptySet
  <2>. QED
    BY <1>2, <2>1 DEF Asked
<1>7. Stored(s, r, d, w)
  BY <1>2 DEF Stored
<1>8. InCall(s, "idle", t, r, w) /\ Halfway(p, s, r, ModelOf[p], d, w)
  BY DEF InCall, Halfway
<1>. QED
  BY <1>4, <1>5, <1>6, <1>7, <1>8 DEF RunInv

\* The rows that have been there are listed as before.
LEMMA StoredStays ==
  ASSUME NEW p \in Procs, NEW s, NEW c, NEW r, NEW w \in Nat, NEW v \in Nat, w <= v,
         NEW d, NEW e, Base(d), Base(e), Len(d.rows) <= Len(e.rows),
         \A i \in 1..Len(d.rows) : e.rows[i] = d.rows[i],
         Shape(p, s, c, r, w), Progress(s, c, r), Asked(s, r, ModelOf[p], w), Stored(s, r, d, w)
  PROVE  Stored(s, r, e, v)
<1>1. PICK k \in Nat : k = Len(d.rows)
  BY DEF Base
<1>2. PICK n \in Nat : n = Len(e.rows) /\ k <= n
  BY <1>1 DEF Base
<1>3. \A id \in DOMAIN r.keys : id \in 1..k /\ id \in 1..n /\ e.rows[id] = d.rows[id]
  BY <1>1, <1>2 DEF Stored
<1>4. ASSUME NEW id \in DOMAIN r.keys
      PROVE  /\ id \in 1..Len(e.rows)
             /\ \E x \in Entries(r.set) : x.key = r.keys[id] /\ x.text = e.rows[id].text
             /\ ~r.set.cached => Recent(e.rows[id], r, v)
             /\ ~r.set.cached /\ Dated(s, r) => e.rows[id].weights = r.since
  <2>1. r.since \in 0..w
    BY DEF Shape
  <2>2. Recent(d.rows[id], r, w) => Recent(d.rows[id], r, v)
    BY <2>1 DEF Recent
  <2>3. PICK row : row = d.rows[id] /\ row = e.rows[id]
    BY <1>3
  <2>. QED
    BY <1>2, <1>3, <2>2, <2>3 DEF Stored
<1>5. ASSUME NEW i \in 1..Len(r.lists)
      PROVE  r.lists[i] = KeyList(r.keys, Best(r.vectors[i], e.rows, DOMAIN r.keys))
  <2>1. r.vectors[i] \in Vector
    BY ListsAreAsked
  <2>2. PICK S : S = DOMAIN r.keys
    OBVIOUS
  <2>3. Best(r.vectors[i], e.rows, S) = Best(r.vectors[i], d.rows, S)
    <3>1. S \in SUBSET (1..Len(d.rows)) /\ S \in SUBSET (1..Len(e.rows))
      BY <1>1, <1>2, <1>3, <2>2
    <3>2. \A j \in S : e.rows[j] = d.rows[j]
      BY <1>3, <2>2
    <3>3. d.rows \in Seq(Vector) /\ e.rows \in Seq(Vector)
      BY DEF Base
    <3>. QED
      BY <2>1, <3>1, <3>2, <3>3, BestStays
  <2>4. r.lists[i] = KeyList(r.keys, Best(r.vectors[i], d.rows, S))
    BY <2>2 DEF Stored
  <2>. QED
    BY <2>2, <2>3, <2>4
<1>. QED
  BY <1>4, <1>5 DEF Stored

\* A step of another, or other weights.
LEMMA OtherStays ==
  ASSUME NEW q \in Procs, NEW s, NEW c, NEW t, NEW r, NEW d, NEW e, NEW w \in Nat, NEW v \in Nat,
         w <= v, Base(d), Base(e), Later(q, d, e), RunInv(q, s, c, t, r, d, w)
  PROVE  RunInv(q, s, c, t, r, e, v)
<1>1. Shape(q, s, c, r, v)
  <2>1. Shape(q, s, c, r, w)
    BY DEF RunInv
  <2>2. r.since \in 0..v
    BY <2>1 DEF Shape
  <2>. QED
    BY <2>1, <2>2 DEF Shape
<1>2. ASSUME NEW x, Recent(x, r, w) PROVE Recent(x, r, v)
  <2>1. r.since \in 0..w
    BY DEF RunInv, Shape
  <2>. QED
    BY <1>2, <2>1 DEF Recent
<1>3. Asked(s, r, ModelOf[q], v)
  BY <1>2 DEF RunInv, Asked
<1>4. InCall(s, c, t, r, v)
  BY <1>2 DEF RunInv, InCall
<1>5. ASSUME e.maker = q PROVE Stored(s, r, e, v)
  BY <1>5, StoredStays DEF RunInv, Later
<1>6. Halfway(q, s, r, ModelOf[q], e, v)
  <2>. SUFFICES ASSUME s = "vector" PROVE Halfway(q, s, r, ModelOf[q], e, v)
    BY DEF Halfway
  <2>1. PICK x \in Vector :
          /\ Good(x, r.set.queries[r.at + 1].text, ModelOf[q]) /\ Recent(x, r, w)
          /\ d.maker = q => \E n \in 0..Len(d.rows) : /\ DOMAIN r.keys \subseteq 1..n
                                                      /\ r.listed = Best(x, d.rows, 1..n)
    BY DEF RunInv, Halfway
  <2>2. ASSUME e.maker = q
        PROVE  \E n \in 0..Len(e.rows) : DOMAIN r.keys \subseteq 1..n /\ r.listed = Best(x, e.rows, 1..n)
    <3>1. PICK n \in 0..Len(d.rows) : DOMAIN r.keys \subseteq 1..n /\ r.listed = Best(x, d.rows, 1..n)
      BY <2>1, <2>2 DEF Later
    <3>2. PICK k \in Nat : k = Len(d.rows)
      BY DEF Base
    <3>3. PICK l \in Nat : l = Len(e.rows) /\ k <= l
      BY <2>2, <3>2 DEF Base, Later
    <3>4. PICK S : S = 1..n
      OBVIOUS
    <3>5. Best(x, e.rows, S) = Best(x, d.rows, S)
      <4>1. S \in SUBSET (1..Len(d.rows)) /\ S \in SUBSET (1..Len(e.rows))
        BY <3>1, <3>2, <3>3, <3>4
      <4>2. \A j \in S : e.rows[j] = d.rows[j]
        BY <2>2, <4>1 DEF Later
      <4>3. d.rows \in Seq(Vector) /\ e.rows \in Seq(Vector)
        BY DEF Base
      <4>. QED
        BY <4>1, <4>2, <4>3, BestStays
    <3>6. n \in 0..Len(e.rows)
      BY <3>1, <3>2, <3>3
    <3>. QED
      BY <3>1, <3>4, <3>5, <3>6
  <2>. QED
    BY <1>2, <2>1, <2>2 DEF Halfway
<1>. QED
  BY <1>1, <1>3, <1>4, <1>5, <1>6 DEF RunInv

-----------------------------------------------------------------------------
(* The steps of one run.                                                    *)

\* All that a step of p changes is its own and its database.
Only(p) ==
  /\ stage' \in [Procs -> Stages] /\ DOMAIN run' = Procs /\ DOMAIN db' = Databases
  /\ weights' = weights
  /\ \A q \in Procs \ {p} :
       stage'[q] = stage[q] /\ run'[q] = run[q] /\ pc'[q] = pc[q] /\ task'[q] = task[q]
  /\ \A d \in Databases \ {DbOf[p]} : db'[d] = db[d]

\* What is known of a run.
LEMMA RunFacts ==
  ASSUME EvalInv, NEW p \in Procs
  PROVE  /\ DbOf[p] \in Databases /\ Base(db[DbOf[p]]) /\ ModelOf[p] \in Models
         /\ weights[ModelOf[p]] \in 0..MaxPulls /\ weights[ModelOf[p]] \in Nat
         /\ RunInv(p, stage[p], pc[p], task[p], run[p], db[DbOf[p]], weights[ModelOf[p]])
<1>1. DbOf[p] \in Databases /\ ModelOf[p] \in Models
  BY DEF Databases, Models
<1>2. weights[ModelOf[p]] \in 0..MaxPulls
  BY <1>1 DEF EvalInv, Inv, WorldInv
<1>. QED
  BY <1>1, <1>2, EmbeddingAssumption DEF EvalInv, RunOf

LEMMA OneRun ==
  ASSUME EvalInv, Inv', NEW p \in Procs, Only(p), Base(db'[DbOf[p]]),
         \A q \in Procs \ {p} : Later(q, db[DbOf[p]], db'[DbOf[p]]),
         RunInv(p, stage'[p], pc'[p], task'[p], run'[p], db'[DbOf[p]], weights[ModelOf[p]])
  PROVE  EvalInv'
<1>1. ASSUME NEW d \in Databases PROVE Base(db'[d])
  BY DEF EvalInv, Only
<1>2. ASSUME NEW q \in Procs
      PROVE  RunInv(q, stage'[q], pc'[q], task'[q], run'[q], db'[DbOf[q]], weights'[ModelOf[q]])
  <2>1. CASE q = p
    BY <2>1 DEF Only
  <2>2. CASE q # p
    <3>1. /\ DbOf[q] \in Databases /\ Base(db[DbOf[q]]) /\ weights[ModelOf[q]] \in Nat
          /\ RunInv(q, stage[q], pc[q], task[q], run[q], db[DbOf[q]], weights[ModelOf[q]])
      BY RunFacts
    <3>2. Later(q, db[DbOf[q]], db'[DbOf[q]])
      <4>1. CASE DbOf[q] = DbOf[p]
        BY <2>2, <4>1
      <4>2. CASE DbOf[q] # DbOf[p]
        <5>1. db'[DbOf[q]] = db[DbOf[q]]
          BY <3>1, <4>2 DEF Only
        <5>2. Len(db[DbOf[q]].rows) \in Nat
          BY <3>1 DEF Base
        <5>. QED
          BY <5>1, <5>2 DEF Later
      <4>. QED
        BY <4>1, <4>2
    <3>3. Base(db'[DbOf[q]])
      BY <1>1, <3>1
    <3>4. RunInv(q, stage[q], pc[q], task[q], run[q], db'[DbOf[q]], weights[ModelOf[q]])
      BY <3>1, <3>2, <3>3, OtherStays
    <3>. QED
      BY <2>2, <3>4 DEF Only
  <2>. QED
    BY <2>1, <2>2
<1>. QED
  BY <1>1, <1>2 DEF EvalInv, RunOf, Only

\* The same when the database is left alone.
LEMMA OneRunAlone ==
  ASSUME EvalInv, Inv', NEW p \in Procs, Only(p), UNCHANGED db,
         RunInv(p, stage'[p], pc'[p], task'[p], run'[p], db[DbOf[p]], weights[ModelOf[p]])
  PROVE  EvalInv'
<1>1. Base(db[DbOf[p]]) /\ Len(db[DbOf[p]].rows) \in Nat
  BY RunFacts DEF Base
<1>2. \A q \in Procs \ {p} : Later(q, db[DbOf[p]], db[DbOf[p]])
  BY <1>1 DEF Later
<1>. QED
  BY <1>1, <1>2, OneRun

\* The steps of the embedder are of one process.
LEMMA EmbedderAlone ==
  ASSUME Inv, NEW p \in Procs,
         (\E c \in Calls : Embed(p, c)) \/ Step(p) \/ Return(p) \/ Crash(p) \/ UNCHANGED vars
  PROVE  weights' = weights /\ \A q \in Procs \ {p} : pc'[q] = pc[q] /\ task'[q] = task[q]
<1>1. DOMAIN task = Procs /\ pc \in [Procs -> Places]
  BY DEF Inv
<1>2. CASE UNCHANGED vars
  BY <1>2 DEF vars
<1>3. ASSUME NEW c \in Calls, Embed(p, c)
      PROVE  weights' = weights /\ \A q \in Procs \ {p} : pc'[q] = pc[q] /\ task'[q] = task[q]
  BY <1>1, <1>3 DEF Embed, Go
<1>4. CASE Return(p) \/ Crash(p) \/ WriteFails(p)
  BY <1>1, <1>4 DEF Return, Crash, WriteFails, Fail, Go
<1>5. CASE Load(p)
  BY <1>1, <1>5 DEF Load
<1>6. CASE Ask(p)
  BY <1>1, <1>6 DEF Ask, Refuse, Fail, Go
<1>7. CASE LoadDone(p) \/ AskDone(p)
  BY <1>1, <1>7 DEF LoadDone, AskDone, Fail, Go
<1>8. CASE Truncate(p) \/ Write(p) \/ StoreDone(p)
  BY <1>1, <1>8 DEF Truncate, Write, StoreDone, Go
<1>. QED
  BY <1>2, <1>3, <1>4, <1>5, <1>6, <1>7, <1>8 DEF Step

\* What a run asks for is among the calls.
LEMMA CallIsThere ==
  ASSUME EvalInv, NEW p \in Procs, stage[p] \in Embeds, ~Refused(p)
  PROVE  CallOf(p) = CallFor(stage[p], run[p]) /\ CallOf(p) \in Calls
<1>1. PICK s \in Embeds : s = stage[p]
  OBVIOUS
<1>2. PICK r : r = run[p]
  OBVIOUS
<1>3. PICK set \in SetsOf[p] : set = r.set
  BY <1>1, <1>2, RunFacts DEF RunInv, Shape, Begun, Stages, Embeds
<1>4. PICK at \in Nat : at = r.at
  BY <1>2, RunFacts DEF RunInv, Shape
<1>5. Progress(s, pc[p], r)
  BY <1>1, <1>2, RunFacts DEF RunInv
<1>6. PICK n \in Nat : n = Len(set.distractors) /\ set.distractors \in Seq(Entry)
                       /\ DOMAIN set.distractors = 1..n
  BY SetFacts
<1>7. PICK m \in Nat : m = Len(set.queries) /\ DOMAIN set.queries = 1..m
                       /\ (m = 0 => set.queries = <<>>)
  BY SetFacts
<1>8. CallsAreThere(set) /\ set.cached \in BOOLEAN
  BY SetFacts
<1>9. CASE s = "corpus"
  <2>1. CallOf(p) = [texts |-> TextsOf(set.passages), kind |-> "document", cached |-> set.cached]
    BY <1>1, <1>2, <1>3, <1>9 DEF CallOf
  <2>2. CallFor(s, r) = [texts |-> TextsOf(set.passages), kind |-> "document", cached |-> set.cached]
    BY <1>3, <1>9 DEF CallFor
  <2>3. set.passages # <<>>
    BY <1>1, <1>2, <1>3, <1>9 DEF Refused
  <2>. QED
    BY <1>1, <1>2, <1>8, <2>1, <2>2, <2>3 DEF CallsAreThere
<1>10. CASE s = "distractors"
  <2>1. PICK j \in Nat : j = Smaller(at + IngestBatchSize, n)
    BY <1>6, EvaluationAssumption DEF Smaller
  <2>2. at < n
    BY <1>3, <1>4, <1>5, <1>6, <1>10 DEF Progress
  <2>3. at + 1 \in 1..n /\ j \in 1..n /\ at + 1 <= j /\ j - (at + 1) < IngestBatchSize
    <3>1. PICK b \in Nat \ {0} : b = IngestBatchSize
      BY EvaluationAssumption
    <3>2. j = IF at + b < n THEN at + b ELSE n
      BY <2>1, <3>1, Zenon DEF Smaller
    <3>. QED
      BY <2>2, <3>1, <3>2
  <2>4. /\ NextDistractors(p) = SubSeq(set.distractors, at + 1, j)
        /\ NextOf(r) = SubSeq(set.distractors, at + 1, j)
    <3>1. NextOf(r) = SubSeq(set.distractors, at + 1, j)
      BY <1>3, <1>4, <1>6, <2>1, Zenon DEF NextOf
    <3>2. NextDistractors(p) = NextOf(r)
      BY <1>2, Zenon DEF NextDistractors, NextOf
    <3>. QED
      BY <3>1, <3>2
  <2>5. PICK texts : texts = TextsOf(SubSeq(set.distractors, at + 1, j))
    OBVIOUS
  <2>6. CallOf(p) = [texts |-> texts, kind |-> "document", cached |-> set.cached]
    BY <1>1, <1>2, <1>3, <1>10, <2>4, <2>5 DEF CallOf
  <2>7. CallFor(s, r) = [texts |-> texts, kind |-> "document", cached |-> set.cached]
    BY <1>3, <1>10, <2>4, <2>5 DEF CallFor
  <2>8. [texts |-> texts, kind |-> "document", cached |-> set.cached] \in Calls
    BY <1>6, <1>8, <2>3, <2>5 DEF CallsAreThere
  <2>. QED
    BY <1>1, <1>2, <2>6, <2>7, <2>8
<1>11. CASE s \in {"queries", "warmup", "search"}
  <2>1. PICK texts : texts = <<set.queries[at + 1].text>>
    OBVIOUS
  <2>2. CallOf(p) = [texts |-> texts, kind |-> "query", cached |-> set.cached]
    BY <1>1, <1>2, <1>3, <1>4, <1>11, <2>1 DEF CallOf, QueryKind
  <2>3. CallFor(s, r) = [texts |-> texts, kind |-> "query", cached |-> set.cached]
    BY <1>3, <1>4, <1>11, <2>1 DEF CallFor
  <2>4. at < m
    <3>1. CASE s = "queries"
      <4>1. m # 0
        BY <1>1, <1>2, <1>3, <1>7, <3>1 DEF Refused
      <4>. QED
        BY <1>3, <1>4, <1>5, <1>7, <3>1, <4>1 DEF Progress
    <3>2. CASE s \in {"warmup", "search"}
      BY <1>3, <1>4, <1>5, <1>7, <3>2 DEF Progress
    <3>. QED
      BY <1>11, <3>1, <3>2
  <2>5. at + 1 \in 1..m
    BY <2>4
  <2>6. [texts |-> texts, kind |-> "query", cached |-> set.cached] \in Calls
    BY <1>7, <1>8, <2>1, <2>5 DEF CallsAreThere
  <2>. QED
    BY <1>1, <1>2, <2>2, <2>3, <2>6
<1>. QED
  BY <1>1, <1>9, <1>10, <1>11 DEF Embeds

\* The steps of an evaluation are steps of its embedder, or do not concern it.
LEMMA EvaluationSteps == EvalInv /\ [EvalNext]_evalVars => [Next]_vars
<1>. SUFFICES ASSUME EvalInv, [EvalNext]_evalVars PROVE [Next]_vars
  OBVIOUS
<1>1. CASE UNCHANGED evalVars
  BY <1>1 DEF evalVars
<1>2. ASSUME NEW p \in Procs, AskEmbedder(p) PROVE [Next]_vars
  <2>1. CASE Refused(p)
    BY <1>2, <2>1 DEF AskEmbedder
  <2>2. CASE ~Refused(p)
    <3>1. \E c \in Calls : Embed(p, c)
      BY <1>2, <2>2, CallIsThere DEF AskEmbedder
    <3>. QED
      BY <3>1 DEF Next
  <2>. QED
    BY <2>1, <2>2
<1>3. ASSUME NEW p \in Procs, Return(p) \/ Step(p) \/ Crash(p) \/ UNCHANGED vars PROVE [Next]_vars
  BY <1>3 DEF Next
<1>4. ASSUME NEW p \in Procs, Advance(p) PROVE [Next]_vars
  <2>1. CASE Recreate(p) \/ MigrateDb(p) \/ SearchVector(p) \/ WriteReport(p) \/ GiveUp(p)
    <3>1. UNCHANGED vars
      BY <2>1 DEF Recreate, MigrateDb, SearchVector, WriteReport, GiveUp
    <3>. QED
      BY <3>1
  <2>2. CASE EmbedderFails(p) \/ PutCorpus(p) \/ PutDistractors(p) \/ KeepVector(p) \/ WarmUp(p) \/ Search(p)
    <3>1. Return(p)
      BY <2>2 DEF EmbedderFails, PutCorpus, PutDistractors, KeepVector, WarmUp, Search, Answers
    <3>. QED
      BY <1>3, <3>1
  <2>. QED
    BY <1>2, <1>3, <1>4, <2>1, <2>2 DEF Advance
<1>5. ASSUME NEW p \in Procs, LoadInput(p) PROVE [Next]_vars
  <2>1. UNCHANGED vars
    BY <1>5 DEF LoadInput
  <2>. QED
    BY <2>1
<1>6. ASSUME NEW p \in Procs, Die(p) PROVE [Next]_vars
  <2>1. Crash(p)
    BY <1>6 DEF Die
  <2>. QED
    BY <1>3, <2>1
<1>7. ASSUME NEW m \in Models, Pull(m) PROVE [Next]_vars
  BY <1>7 DEF Next
<1>. QED
  BY <1>1, <1>4, <1>5, <1>6, <1>7 DEF EvalNext

\* The call is over.
LEMMA ReturnFacts ==
  ASSUME Inv, NEW p \in Procs, Return(p)
  PROVE  /\ pc[p] \in {"ok", "failed"} /\ pc'[p] = "idle" /\ weights' = weights
         /\ \A q \in Procs \ {p} : pc'[q] = pc[q] /\ task'[q] = task[q]
<1>1. pc'[p] = "idle"
  BY DEF Return, Go, Inv
<1>. QED
  BY <1>1, EmbedderAlone DEF Return

\* Where the run is now.
LEMMA EnterFacts ==
  ASSUME EvalInv, NEW p \in Procs, NEW s \in Stages, Enter(p, s)
  PROVE  /\ stage' \in [Procs -> Stages] /\ stage'[p] = s
         /\ \A q \in Procs \ {p} : stage'[q] = stage[q]
  BY DEF EvalInv, Enter

\* What it has now.
LEMMA HasFacts ==
  ASSUME EvalInv, NEW p \in Procs, NEW u, run' = [run EXCEPT ![p] = u]
  PROVE  DOMAIN run' = Procs /\ run'[p] = u /\ \A q \in Procs \ {p} : run'[q] = run[q]
  BY DEF EvalInv

LEMMA QuitFacts ==
  ASSUME EvalInv, NEW p \in Procs, NEW why, Quit(p, why)
  PROVE  /\ stage' \in [Procs -> Stages] /\ stage'[p] = "failed"
         /\ DOMAIN run' = Procs /\ run'[p] = Over(why)
         /\ \A q \in Procs \ {p} : stage'[q] = stage[q] /\ run'[q] = run[q]
<1>1. Enter(p, "failed") /\ run' = [run EXCEPT ![p] = Over(why)]
  BY OverIsNoRun DEF Quit
<1>2. "failed" \in Stages
  BY DEF Stages
<1>. QED
  BY <1>1, <1>2, EnterFacts, HasFacts

\* A run ends with an error.
LEMMA QuitStep ==
  ASSUME EvalInv, Inv', NEW p \in Procs, NEW why, Quit(p, why), pc'[p] = "idle", weights' = weights,
         \A q \in Procs \ {p} : pc'[q] = pc[q] /\ task'[q] = task[q], UNCHANGED db
  PROVE  EvalInv'
<1>1. Only(p)
  BY QuitFacts DEF Only, EvalInv
<1>2. weights[ModelOf[p]] \in Nat
  BY RunFacts
<1>3. PICK r : r = Over(why)
  OBVIOUS
<1>4. RunInv(p, "failed", "idle", task'[p], r, db[DbOf[p]], weights[ModelOf[p]])
  BY <1>2, <1>3, NoRunFits
<1>. QED
  BY <1>1, <1>3, <1>4, QuitFacts, OneRunAlone

\* Between the calls of its embedder, a run that is not at one is idle.
LEMMA Idle ==
  ASSUME EvalInv, NEW p \in Procs, stage[p] \notin Embeds
  PROVE  pc[p] = "idle"
  BY RunFacts DEF RunInv, Shape

\* The files are read.
LEMMA LoadInputStep ==
  ASSUME EvalInv, Inv', NEW p \in Procs, LoadInput(p)
  PROVE  EvalInv'
<1>1. /\ pc[p] = "idle" /\ pc' = pc /\ task' = task /\ weights' = weights /\ db' = db
      /\ stage[p] = "start"
  BY Idle DEF LoadInput, vars, Embeds
<1>2. PICK set \in SetsOf[p] :
        IF ValidSet(set)
          THEN /\ Enter(p, "create")
               /\ run' = [run EXCEPT ![p] = [NoRun EXCEPT !.set = set,
                                                          !.since = weights[ModelOf[p]]]]
          ELSE Quit(p, "input")
  BY DEF LoadInput
<1>3. CASE ~ValidSet(set)
  <2>1. Quit(p, "input")
    BY <1>2, <1>3
  <2>. QED
    BY <1>1, <2>1, QuitStep
<1>4. CASE ValidSet(set)
  <2>1. PICK w \in Nat : w = weights[ModelOf[p]]
    BY RunFacts
  <2>2. PICK u : u = [NoRun EXCEPT !.set = set, !.since = w]
    OBVIOUS
  <2>3. u = [set |-> set, keys |-> <<>>, vectors |-> <<>>, at |-> 0, round |-> 1,
             listed |-> <<>>, lists |-> <<>>, since |-> w, digest |-> NoDigest, why |-> ""]
    <3>1. PICK o : o = NoRun
      OBVIOUS
    <3>. QED
      BY <2>2, <3>1 DEF NoRun
  <2>4. /\ u.set = set /\ u.keys = <<>> /\ u.vectors = <<>> /\ u.at = 0 /\ u.round = 1
        /\ u.lists = <<>> /\ u.since = w /\ IsRun(u)
    BY <2>3 DEF IsRun
  <2>5. /\ "create" \in Stages /\ "create" \in Begun /\ "create" \notin Filled
        /\ "create" \notin Embeds
    BY DEF Stages, Begun, Filled, Embeds
  <2>6. 1 \in 1..Rounds /\ w \in 0..w
    BY EvaluationAssumption
  <2>7. Shape(p, "create", "idle", u, w)
    BY <1>4, <2>4, <2>5, <2>6 DEF Shape
  <2>8. Progress("create", "idle", u) /\ Keyed("create", u)
    BY <2>4, <2>5 DEF Progress, Keyed
  <2>9. Asked("create", u, ModelOf[p], w)
    <3>1. Len(set.queries) \in Nat
      BY SetFacts
    <3>. QED
      BY <2>4, <3>1 DEF Asked
  <2>10. Stored("create", u, db[DbOf[p]], w)
    BY <2>4 DEF Stored
  <2>11. RunInv(p, "create", "idle", task[p], u, db[DbOf[p]], w)
    BY <2>7, <2>8, <2>9, <2>10 DEF RunInv, InCall, Halfway
  <2>12. run' = [run EXCEPT ![p] = u] /\ Enter(p, "create")
    BY <1>2, <1>4, <2>1, <2>2
  <2>13. Only(p)
    BY <1>1, <2>5, <2>12, EnterFacts, HasFacts DEF Only, EvalInv
  <2>14. stage'[p] = "create" /\ run'[p] = u /\ pc'[p] = "idle" /\ UNCHANGED db
    BY <1>1, <2>5, <2>12, EnterFacts, HasFacts
  <2>15. PICK t : t = task[p] /\ t = task'[p]
    BY <1>1
  <2>16. RunInv(p, "create", "idle", t, u, db[DbOf[p]], w)
    BY <2>11, <2>15
  <2>. QED
    BY <2>1, <2>13, <2>14, <2>15, <2>16, OneRunAlone
<1>. QED
  BY <1>3, <1>4

\* The database is dropped and made again.
LEMMA RecreateStep ==
  ASSUME EvalInv, Inv', NEW p \in Procs, Recreate(p)
  PROVE  EvalInv'
<1>1. /\ pc[p] = "idle" /\ pc' = pc /\ task' = task /\ weights' = weights /\ stage[p] = "create"
  BY Idle DEF Recreate, vars, Embeds
<1>2. PICK schema \in {"absent", "empty"} :
        /\ db' = [db EXCEPT ![DbOf[p]] = [schema |-> schema, rows |-> <<>>, maker |-> p]]
        /\ IF schema = "empty" THEN Enter(p, "migrate") /\ UNCHANGED run ELSE Quit(p, "error")
  BY DEF Recreate
<1>3. PICK e : e = [schema |-> schema, rows |-> <<>>, maker |-> p]
  OBVIOUS
<1>4. e.rows = <<>> /\ e.maker = p /\ Base(e)
  BY <1>3 DEF Base
<1>5. DOMAIN db' = Databases /\ db'[DbOf[p]] = e /\ \A d \in Databases \ {DbOf[p]} : db'[d] = db[d]
  BY <1>2, <1>3, RunFacts DEF EvalInv
<1>6. \A q \in Procs \ {p} : Later(q, db[DbOf[p]], e)
  BY <1>4 DEF Later
<1>7. CASE schema = "empty"
  <2>1. PICK r : r = run[p]
    OBVIOUS
  <2>2. PICK w \in Nat : w = weights[ModelOf[p]]
    BY RunFacts
  <2>3. RunInv(p, "create", "idle", task[p], r, db[DbOf[p]], w)
    BY <1>1, <2>1, <2>2, RunFacts
  <2>4. /\ "create" \in Begun /\ "migrate" \in Stages /\ "migrate" \in Begun
        /\ "migrate" \notin Filled /\ "migrate" \notin Embeds
    BY DEF Stages, Begun, Filled, Embeds
  <2>5. Shape(p, "migrate", "idle", r, w)
    BY <2>3, <2>4 DEF RunInv, Shape
  <2>6. r.keys = <<>> /\ r.lists = <<>>
    BY <2>3, <2>4 DEF RunInv, Progress
  <2>7. Progress("migrate", "idle", r)
    BY <2>3, <2>4 DEF RunInv, Progress
  <2>8. Keyed("migrate", r) /\ Asked("migrate", r, ModelOf[p], w)
    BY <2>3, <2>4 DEF RunInv, Keyed, Asked, Dated
  <2>9. Stored("migrate", r, e, w)
    BY <2>6 DEF Stored
  <2>10. RunInv(p, "migrate", "idle", task[p], r, e, w)
    BY <2>5, <2>7, <2>8, <2>9 DEF RunInv, InCall, Halfway
  <2>11. Enter(p, "migrate") /\ run' = run
    BY <1>2, <1>7
  <2>12. Only(p)
    BY <1>1, <1>5, <2>4, <2>11, EnterFacts DEF Only, EvalInv
  <2>. QED
    BY <1>1, <1>4, <1>5, <1>6, <2>1, <2>2, <2>4, <2>10, <2>11, <2>12, EnterFacts, OneRun
<1>8. CASE schema # "empty"
  <2>1. Quit(p, "error")
    BY <1>2, <1>8
  <2>2. Only(p)
    BY <1>1, <1>5, <2>1, QuitFacts DEF Only
  <2>3. weights[ModelOf[p]] \in Nat
    BY RunFacts
  <2>4. PICK r : r = Over("error")
    OBVIOUS
  <2>5. RunInv(p, "failed", "idle", task[p], r, e, weights[ModelOf[p]])
    BY <2>3, <2>4, NoRunFits
  <2>. QED
    BY <1>1, <1>4, <1>5, <1>6, <2>1, <2>2, <2>4, <2>5, QuitFacts, OneRun
<1>. QED
  BY <1>7, <1>8

\* The schema is there; the rows stay.
LEMMA MigrateDbStep ==
  ASSUME EvalInv, Inv', NEW p \in Procs, MigrateDb(p)
  PROVE  EvalInv'
<1>1. /\ pc[p] = "idle" /\ pc' = pc /\ task' = task /\ weights' = weights /\ stage[p] = "migrate"
  BY Idle DEF MigrateDb, vars, Embeds
<1>2. CASE Db(p).schema = "absent"
  <2>1. Quit(p, "error") /\ UNCHANGED db
    BY <1>2 DEF MigrateDb
  <2>. QED
    BY <1>1, <2>1, QuitStep
<1>3. CASE Db(p).schema # "absent"
  <2>1. /\ db' = [db EXCEPT ![DbOf[p]].schema = "migrated"]
        /\ Enter(p, "corpus") /\ run' = run
    BY <1>3 DEF MigrateDb
  <2>2. PICK d : d = db[DbOf[p]]
    OBVIOUS
  <2>3. Base(d)
    BY <2>2, RunFacts
  <2>4. PICK e : e = [d EXCEPT !.schema = "migrated"]
    OBVIOUS
  <2>5. DOMAIN db' = Databases /\ db'[DbOf[p]] = e /\ \A x \in Databases \ {DbOf[p]} : db'[x] = db[x]
    BY <2>1, <2>2, <2>4, RunFacts DEF EvalInv
  <2>6. e.rows = d.rows /\ e.maker = d.maker /\ e.schema = "migrated"
    BY <2>3, <2>4 DEF Base
  <2>7. Base(e) /\ \A q \in Procs : Later(q, d, e)
    <3>1. Len(d.rows) \in Nat
      BY <2>3 DEF Base
    <3>. QED
      BY <2>3, <2>6, <3>1 DEF Base, Later
  <2>8. PICK r : r = run[p]
    OBVIOUS
  <2>9. PICK w \in Nat : w = weights[ModelOf[p]]
    BY RunFacts
  <2>10. RunInv(p, "migrate", "idle", task[p], r, d, w)
    BY <1>1, <2>2, <2>8, <2>9, RunFacts
  <2>11. RunInv(p, "migrate", "idle", task[p], r, e, w)
    BY <2>3, <2>7, <2>9, <2>10, OtherStays
  <2>12. /\ "migrate" \in Begun /\ "corpus" \in Stages /\ "corpus" \in Begun
         /\ "corpus" \notin Filled /\ "migrate" \notin Filled
    BY DEF Stages, Begun, Filled, Embeds
  <2>13. Shape(p, "corpus", "idle", r, w)
    BY <2>11, <2>12 DEF RunInv, Shape
  <2>14. Progress("corpus", "idle", r)
    BY <2>11, <2>12 DEF RunInv, Progress
  <2>15. Keyed("corpus", r) /\ Asked("corpus", r, ModelOf[p], w)
    BY <2>11, <2>12 DEF RunInv, Keyed, Asked, Dated
  <2>16. Stored("corpus", r, e, w) \/ e.maker # p
    BY <2>11 DEF RunInv, Stored, Dated
  <2>17. RunInv(p, "corpus", "idle", task[p], r, e, w)
    BY <2>13, <2>14, <2>15, <2>16 DEF RunInv, InCall, Halfway
  <2>18. Only(p)
    BY <1>1, <2>1, <2>5, <2>12, EnterFacts DEF Only, EvalInv
  <2>. QED
    BY <1>1, <2>1, <2>2, <2>5, <2>7, <2>8, <2>9, <2>12, <2>17, <2>18, EnterFacts, OneRun
<1>. QED
  BY <1>2, <1>3 DEF MigrateDb

\* Nothing of the run but its call changes.
LEMMA CallOnly ==
  ASSUME EvalInv, Inv', NEW p \in Procs, UNCHANGED evaluation, weights' = weights,
         \A q \in Procs \ {p} : pc'[q] = pc[q] /\ task'[q] = task[q],
         Shape(p, stage[p], pc'[p], run[p], weights[ModelOf[p]]),
         Progress(stage[p], pc'[p], run[p]),
         InCall(stage[p], pc'[p], task'[p], run[p], weights[ModelOf[p]])
  PROVE  EvalInv'
<1>1. stage' = stage /\ run' = run /\ db' = db
  BY DEF evaluation
<1>2. RunInv(p, stage[p], pc[p], task[p], run[p], db[DbOf[p]], weights[ModelOf[p]])
  BY RunFacts
<1>3. RunInv(p, stage[p], pc'[p], task'[p], run[p], db[DbOf[p]], weights[ModelOf[p]])
  BY <1>2 DEF RunInv
<1>4. Only(p)
  BY <1>1 DEF Only, EvalInv
<1>. QED
  BY <1>1, <1>3, <1>4, OneRunAlone

\* The embedder is asked, or the run refuses.
LEMMA AskEmbedderStep ==
  ASSUME EvalInv, Inv', NEW p \in Procs, AskEmbedder(p)
  PROVE  EvalInv'
<1>1. stage[p] \in Embeds /\ Inv
  BY DEF AskEmbedder, EvalInv
<1>2. CASE Refused(p)
  <2>1. pc[p] = "idle" /\ Quit(p, "input") /\ UNCHANGED <<vars, db>>
    BY <1>2 DEF AskEmbedder
  <2>2. pc' = pc /\ task' = task /\ weights' = weights /\ db' = db
    BY <2>1 DEF vars
  <2>. QED
    BY <2>1, <2>2, QuitStep
<1>3. CASE ~Refused(p)
  <2>1. PICK c \in Calls : c = CallOf(p) /\ c = CallFor(stage[p], run[p])
    BY <1>1, <1>3, CallIsThere
  <2>2. Embed(p, c) /\ UNCHANGED evaluation
    BY <1>3, <2>1 DEF AskEmbedder
  <2>3. weights' = weights /\ \A q \in Procs \ {p} : pc'[q] = pc[q] /\ task'[q] = task[q]
    BY <1>1, <2>2, EmbedderAlone
  <2>4. pc[p] = "idle" /\ pc'[p] = IF UsesFiles(c) THEN "load" ELSE "ask"
    BY <1>1, <2>2 DEF Embed, Go, Inv
  <2>5. task'[p].call = c /\ task'[p].fresh = <<>>
    BY <1>1, <2>2 DEF Embed, NoTask, Inv
  <2>6. PICK r : r = run[p]
    OBVIOUS
  <2>7. PICK s \in Embeds : s = stage[p]
    BY <1>1
  <2>8. PICK w \in Nat : w = weights[ModelOf[p]]
    BY RunFacts
  <2>9. Shape(p, s, "idle", r, w) /\ Progress(s, "idle", r)
    BY <2>4, <2>6, <2>7, <2>8, RunFacts DEF RunInv
  <2>10. Shape(p, s, pc'[p], r, w)
    BY <2>9 DEF Shape
  <2>11. r.set \in SetsOf[p]
    BY <2>7, <2>9 DEF Shape, Begun, Stages, Embeds
  <2>12. Progress(s, pc'[p], r)
    <3>1. s = "corpus" => r.set.passages # <<>> /\ PassageKeys(r.set) \cap Reserved = {}
      BY <1>3, <2>6, <2>7 DEF Refused
    <3>2. s = "queries" => r.at < Len(r.set.queries)
      <4>1. s = "queries" => r.set.queries # <<>>
        BY <1>3, <2>6, <2>7 DEF Refused
      <4>2. s = "queries" => Len(r.set.queries) # 0
        BY <2>11, <4>1, SetFacts
      <4>. QED
        BY <2>9, <4>2 DEF Progress
    <3>. QED
      BY <2>9, <3>1, <3>2 DEF Progress
  <2>13. InCall(s, pc'[p], task'[p], r, w)
    BY <2>1, <2>4, <2>5, <2>6, <2>7 DEF InCall
  <2>. QED
    BY <2>2, <2>3, <2>6, <2>7, <2>8, <2>10, <2>12, <2>13, CallOnly
<1>. QED
  BY <1>2, <1>3

\* The steps that end a run whatever it has.
LEMMA EndSteps ==
  ASSUME EvalInv, Inv', NEW p \in Procs, EmbedderFails(p) \/ GiveUp(p) \/ Die(p)
  PROVE  EvalInv'
<1>. Inv
  BY DEF EvalInv
<1>1. CASE EmbedderFails(p)
  BY <1>1, ReturnFacts, QuitStep DEF EmbedderFails
<1>2. CASE GiveUp(p)
  BY <1>2, QuitStep DEF GiveUp, vars
<1>3. CASE Die(p)
  <2>1. /\ Crash(p) /\ Enter(p, "start") /\ run' = [run EXCEPT ![p] = Over("")] /\ db' = db
    BY <1>3, OverIsNoRun DEF Die
  <2>2. weights' = weights /\ \A q \in Procs \ {p} : pc'[q] = pc[q] /\ task'[q] = task[q]
    BY <2>1, EmbedderAlone
  <2>3. pc'[p] = "idle"
    BY <2>1 DEF Crash, Go, Inv
  <2>4. "start" \in Stages
    BY DEF Stages
  <2>5. PICK r : r = Over("")
    OBVIOUS
  <2>6. /\ stage' \in [Procs -> Stages] /\ stage'[p] = "start" /\ DOMAIN run' = Procs /\ run'[p] = r
        /\ \A q \in Procs \ {p} : stage'[q] = stage[q] /\ run'[q] = run[q]
    <3>1. run' = [run EXCEPT ![p] = r]
      BY <2>1, <2>5
    <3>2. DOMAIN run' = Procs /\ run'[p] = r /\ \A q \in Procs \ {p} : run'[q] = run[q]
      BY <3>1, HasFacts
    <3>3. Enter(p, "start")
      BY <2>1
    <3>4. PICK s \in Stages : s = "start"
      BY <2>4
    <3>5. /\ stage' \in [Procs -> Stages] /\ stage'[p] = s
          /\ \A q \in Procs \ {p} : stage'[q] = stage[q]
      BY <3>3, <3>4, EnterFacts
    <3>. QED
      BY <3>2, <3>4, <3>5
  <2>7. Only(p)
    BY <2>1, <2>2, <2>6 DEF Only, EvalInv
  <2>8. RunInv(p, "start", "idle", task'[p], r, db[DbOf[p]], weights[ModelOf[p]])
    BY <2>5, RunFacts, NoRunFits
  <2>. QED
    BY <2>1, <2>3, <2>6, <2>7, <2>8, OneRunAlone
<1>. QED
  BY <1>1, <1>2, <1>3

\* Other weights under an identity.
LEMMA PullStep ==
  ASSUME EvalInv, Inv', NEW m \in Models, Pull(m), UNCHANGED evaluation
  PROVE  EvalInv'
<1>1. /\ stage' = stage /\ run' = run /\ db' = db /\ pc' = pc /\ task' = task
      /\ weights' = [weights EXCEPT ![m] = @ + 1]
  BY DEF evaluation, Pull
<1>2. ASSUME NEW p \in Procs
      PROVE  RunInv(p, stage[p], pc[p], task[p], run[p], db[DbOf[p]], weights'[ModelOf[p]])
  <2>1. PICK w \in Nat : w = weights[ModelOf[p]]
    BY RunFacts
  <2>2. weights' \in [Models -> 0..MaxPulls] /\ weights \in [Models -> 0..MaxPulls]
    BY DEF EvalInv, Inv, WorldInv
  <2>3. PICK v \in Nat : v = weights'[ModelOf[p]]
    BY <2>2, RunFacts, EmbeddingAssumption
  <2>4. w <= v
    BY <1>1, <2>1, <2>2, <2>3, RunFacts, EmbeddingAssumption
  <2>5. PICK d : d = db[DbOf[p]]
    OBVIOUS
  <2>6. Base(d) /\ Later(p, d, d)
    <3>1. Base(d) /\ Len(d.rows) \in Nat
      BY <2>5, RunFacts DEF Base
    <3>. QED
      BY <3>1 DEF Later
  <2>7. RunInv(p, stage[p], pc[p], task[p], run[p], d, w)
    BY <2>1, <2>5, RunFacts
  <2>. QED
    BY <2>1, <2>3, <2>4, <2>5, <2>6, <2>7, OtherStays
<1>. QED
  BY <1>1, <1>2 DEF EvalInv, RunOf

\* Ollama answers by the weights there are.
LEMMA FreshIsRecent ==
  ASSUME EvalInv, NEW p \in Procs, NEW r, NEW w, w = weights[ModelOf[p]], r.since \in 0..w,
         NEW t, t = task[p], NEW reply \in Replies, Accepted(p, reply),
         pc[p] = "ask", task[p].at <= Len(task[p].missing),
         \A j \in 1..Len(t.fresh) : Recent(t.fresh[j], r, w),
         NEW fresh, fresh = t.fresh \o Answered(p, reply)
  PROVE  \A j \in 1..Len(fresh) : Recent(fresh[j], r, w)
<1>. Inv
  BY DEF EvalInv
<1>1. PICK l \in Nat : l = Len(t.missing)
  BY CallFacts
<1>2. PICK f \in Nat : f = Len(t.fresh) /\ t.fresh \in Seq(Vector)
  BY CallFacts DEF TaskType
<1>3. t.at = f + 1 /\ f + 1 <= l
  BY <1>1, <1>2, CallFacts DEF CallInv
<1>4. PICK b \in 1..(l - f) : IsBatch(p, t, f, b)
  BY <1>1, <1>2, <1>3, BatchFacts
<1>5. PICK g : g = Answered(p, reply)
  OBVIOUS
<1>6. g \in [1..b -> Vector] /\ \A j \in 1..b : g[j].weights = w
  <2>1. b \in Nat \ {0} /\ Batch(p) \in [1..b -> Texts]
    BY <1>4 DEF IsBatch
  <2>2. /\ Answered(p, reply) \in [1..b -> Vector]
        /\ \A j \in 1..b : Answered(p, reply)[j].weights = weights[ModelOf[p]]
    BY <2>1, AcceptedIsGood
  <2>. QED
    BY <1>5, <2>2
<1>7. g \in Seq(Vector) /\ Len(g) = b
  BY <1>6
<1>8. Len(fresh) = f + b /\ \A i \in 1..(f + b) : fresh[i] = IF i <= f THEN t.fresh[i] ELSE g[i - f]
  <2>1. PICK old \in Seq(Vector) : old = t.fresh /\ Len(old) = f
    BY <1>2
  <2>2. fresh = old \o g
    BY <1>5, <2>1
  <2>3. /\ Len(old \o g) = Len(old) + Len(g)
        /\ \A i \in 1..(Len(old) + Len(g)) :
             (old \o g)[i] = IF i <= Len(old) THEN old[i] ELSE g[i - Len(old)]
    BY <1>7, ConcatProperties, Zenon
  <2>4. Len(fresh) = Len(old) + Len(g)
    BY <2>2, <2>3
  <2>5. \A i \in 1..(Len(old) + Len(g)) : fresh[i] = IF i <= Len(old) THEN old[i] ELSE g[i - Len(old)]
    BY <2>2, <2>3, Zenon
  <2>. QED
    BY <1>7, <2>1, <2>4, <2>5
<1>9. w \in Nat
  BY RunFacts
<1>10. ASSUME NEW j \in 1..(f + b) PROVE Recent(fresh[j], r, w)
  <2>1. CASE j <= f
    <3>1. j \in 1..f /\ fresh[j] = t.fresh[j]
      BY <1>8, <2>1
    <3>2. \A i \in 1..f : Recent(t.fresh[i], r, w)
      BY <1>2
    <3>. QED
      BY <3>1, <3>2
  <2>2. CASE j > f
    <3>1. j - f \in 1..b /\ fresh[j] = g[j - f]
      BY <1>8, <2>2
    <3>2. fresh[j].weights = w
      BY <1>6, <3>1
    <3>3. PICK a \in 0..w : a = r.since
      OBVIOUS
    <3>4. w \in a..w
      BY <1>9
    <3>. QED
      BY <3>2, <3>3, <3>4 DEF Recent
  <2>3. j <= f \/ j > f
    OBVIOUS
  <2>. QED
    BY <2>1, <2>2, <2>3, Zenon
<1>. QED
  BY <1>8, <1>10

\* A step of the embedder leaves the call what the run asked for.
LEMMA CallStep ==
  ASSUME EvalInv, NEW p \in Procs, Step(p), NEW w, w = weights[ModelOf[p]]
  PROVE  /\ pc[p] \notin {"idle", "ok", "failed"}
         /\ InCall(stage[p], pc'[p], task'[p], run[p], w)
<1>. Inv
  BY DEF EvalInv
<1>1. PICK t : t = task[p]
  OBVIOUS
<1>2. PICK r : r = run[p]
  OBVIOUS
<1>3. PICK s : s = stage[p]
  OBVIOUS
<1>4. PICK c : c = pc[p]
  OBVIOUS
<1>5. c \in {"load", "ask", "store", "write"} /\ pc \in [Procs -> Places] /\ DOMAIN task = Procs
  BY <1>4 DEF Step, Load, LoadDone, Ask, AskDone, Truncate, Write, WriteFails, StoreDone, Inv
<1>6. /\ t.call = CallFor(s, r)
      /\ c \in {"store", "write"} => UsesFiles(t.call)
      /\ ~UsesFiles(t.call) => \A j \in 1..Len(t.fresh) : Recent(t.fresh[j], r, w)
  BY <1>1, <1>2, <1>3, <1>4, <1>5, RunFacts DEF RunInv, InCall
<1>7. r.since \in 0..w
  BY <1>2, RunFacts DEF RunInv, Shape
<1>8. CASE Fail(p)
  <2>1. pc'[p] = "failed"
    BY <1>5, <1>8 DEF Fail, Go
  <2>. QED
    BY <1>4, <1>5, <2>1 DEF InCall
<1>9. ASSUME task'[p].call = t.call, UsesFiles(t.call), ~Fail(p)
      PROVE  InCall(s, pc'[p], task'[p], r, w)
  BY <1>6, <1>9 DEF InCall
<1>10. CASE ~Fail(p) /\ Load(p)
  <2>1. UsesFiles(t.call)
    BY <1>1, <1>10, CallFacts DEF Load, CallInv
  <2>2. task'[p].call = t.call
    BY <1>1, <1>5, <1>10 DEF Load
  <2>. QED
    BY <1>2, <1>3, <1>4, <1>5, <1>9, <1>10, <2>1, <2>2
<1>11. CASE ~Fail(p) /\ LoadDone(p)
  <2>1. UsesFiles(t.call)
    BY <1>1, <1>11, CallFacts DEF LoadDone, CallInv
  <2>2. task'[p].call = t.call
    BY <1>1, <1>5, <1>11 DEF LoadDone
  <2>. QED
    BY <1>2, <1>3, <1>4, <1>5, <1>9, <1>11, <2>1, <2>2
<1>12. CASE ~Fail(p) /\ Ask(p)
  <2>1. PICK reply \in Replies :
          /\ Accepted(p, reply) /\ UNCHANGED pc
          /\ task' = [task EXCEPT ![p].at = @ + Len(Batch(p)), ![p].fresh = @ \o Answered(p, reply)]
    BY <1>12 DEF Ask, Refuse
  <2>2. pc[p] = "ask" /\ task[p].at <= Len(task[p].missing)
    BY <1>12 DEF Ask
  <2>3. PICK fresh : fresh = t.fresh \o Answered(p, reply)
    OBVIOUS
  <2>4. task'[p].call = t.call /\ task'[p].fresh = fresh
    BY <1>1, <1>5, <2>1, <2>3
  <2>5. ~UsesFiles(t.call) => \A j \in 1..Len(fresh) : Recent(fresh[j], r, w)
    BY <1>1, <1>6, <1>7, <2>1, <2>2, <2>3, FreshIsRecent
  <2>. QED
    BY <1>2, <1>3, <1>4, <1>5, <1>6, <2>1, <2>2, <2>4, <2>5 DEF InCall
<1>13. CASE ~Fail(p) /\ AskDone(p)
  <2>1. CASE UsesFiles(t.call)
    <3>1. task' = [task EXCEPT ![p].at = 1]
      BY <1>1, <1>13, <2>1 DEF AskDone
    <3>2. task'[p].call = t.call
      BY <1>1, <1>5, <3>1
    <3>. QED
      BY <1>2, <1>3, <1>4, <1>5, <1>9, <1>13, <2>1, <3>2
  <2>2. CASE ~UsesFiles(t.call)
    <3>1. Go(p, "ok") /\ task' = [task EXCEPT ![p].vectors = t.fresh]
      BY <1>1, <1>13, <2>2 DEF AskDone
    <3>2. pc'[p] = "ok" /\ task'[p].call = t.call /\ task'[p].fresh = t.fresh
          /\ task'[p].vectors = t.fresh
      BY <1>1, <1>5, <3>1 DEF Go
    <3>. QED
      BY <1>2, <1>3, <1>4, <1>5, <1>6, <2>2, <3>2 DEF InCall
  <2>. QED
    BY <2>1, <2>2
<1>14. CASE ~Fail(p) /\ (Truncate(p) \/ Write(p) \/ StoreDone(p))
  <2>1. UsesFiles(t.call)
    BY <1>4, <1>6, <1>14 DEF Truncate, Write, StoreDone
  <2>2. task'[p].call = t.call
    <3>1. CASE Write(p)
      <4>1. PICK x : x = task[p].fresh[task[p].at]
        OBVIOUS
      <4>2. PICK i : i = Place(task[p])
        OBVIOUS
      <4>3. task' = [task EXCEPT ![p].vectors[i] = x, ![p].at = @ + 1]
        BY <3>1, <4>1, <4>2 DEF Write
      <4>4. task'[p] = [t EXCEPT !.vectors[i] = x, !.at = @ + 1]
        BY <1>1, <1>5, <4>3
      <4>. QED
        BY <4>4
    <3>2. CASE Truncate(p) \/ StoreDone(p)
      BY <1>1, <3>2 DEF Truncate, StoreDone
    <3>. QED
      BY <1>14, <3>1, <3>2
  <2>. QED
    BY <1>2, <1>3, <1>4, <1>5, <1>9, <1>14, <2>1, <2>2
<1>15. CASE WriteFails(p)
  BY <1>8, <1>15 DEF WriteFails
<1>. QED
  BY <1>8, <1>10, <1>11, <1>12, <1>13, <1>14, <1>15 DEF Step

\* A step of the embedder.
LEMMA EmbedderStep ==
  ASSUME EvalInv, Inv', NEW p \in Procs, Step(p), UNCHANGED evaluation
  PROVE  EvalInv'
<1>1. weights' = weights /\ \A q \in Procs \ {p} : pc'[q] = pc[q] /\ task'[q] = task[q]
  BY EmbedderAlone DEF EvalInv
<1>2. PICK w \in Nat : w = weights[ModelOf[p]]
  BY RunFacts
<1>3. pc[p] # "idle" /\ InCall(stage[p], pc'[p], task'[p], run[p], w)
  BY <1>2, CallStep
<1>4. PICK c : c = pc[p]
  OBVIOUS
<1>5. PICK d : d = pc'[p]
  OBVIOUS
<1>6. Shape(p, stage[p], c, run[p], w) /\ Progress(stage[p], c, run[p])
  BY <1>2, <1>4, RunFacts DEF RunInv
<1>7. Shape(p, stage[p], d, run[p], w)
  BY <1>3, <1>4, <1>6 DEF Shape
<1>8. Progress(stage[p], d, run[p])
  BY <1>3, <1>4, <1>6 DEF Progress
<1>. QED
  BY <1>1, <1>2, <1>3, <1>5, <1>7, <1>8, CallOnly

\* What a call that has succeeded brings.
LEMMA AnswerFacts ==
  ASSUME EvalInv, NEW p \in Procs, pc[p] = "ok", NEW s, s = stage[p], NEW r, r = run[p],
         NEW w, w = weights[ModelOf[p]]
  PROVE  \E c \in CallType, v \in Seq(Vector), n \in Nat :
           /\ c = CallFor(s, r) /\ v = task[p].vectors /\ n = Len(c.texts) /\ Len(v) = n
           /\ \A i \in 1..n : Good(v[i], c.texts[i], ModelOf[p])
           /\ ~UsesFiles(c) => \A i \in 1..n : Recent(v[i], r, w)
<1>. Inv
  BY DEF EvalInv
<1>1. PICK c : c = task[p].call
  OBVIOUS
<1>2. PICK v : v = task[p].vectors
  OBVIOUS
<1>3. PICK n \in Nat : n = Len(c.texts) /\ c \in CallType
  BY <1>1, CallFacts
<1>4. /\ v \in Seq(Vector \cup {Hole}) /\ Len(v) = n
      /\ \A i \in 1..n : Good(v[i], c.texts[i], ModelOf[p])
  BY <1>1, <1>2, <1>3, CallFacts DEF TaskType, Sized, CallInv
<1>5. v \in Seq(Vector)
  <2>1. v \in [1..n -> Vector]
    BY <1>4 DEF Good
  <2>. QED
    BY <2>1
<1>6. c = CallFor(s, r) /\ (~UsesFiles(c) => \A i \in 1..n : Recent(v[i], r, w))
  BY <1>1, <1>2, <1>4, RunFacts DEF RunInv, InCall
<1>. QED
  BY <1>2, <1>3, <1>4, <1>5, <1>6

\* The answer for a query.
LEMMA QueryAnswered ==
  ASSUME EvalInv, NEW p \in Procs, pc[p] = "ok", NEW s \in {"queries", "warmup", "search"},
         s = stage[p], NEW r, r = run[p], NEW w, w = weights[ModelOf[p]]
  PROVE  \E x \in Vector : /\ task[p].vectors = <<x>> /\ Recent(x, r, w)
                           /\ Good(x, r.set.queries[r.at + 1].text, ModelOf[p])
<1>1. PICK c \in CallType, v \in Seq(Vector), n \in Nat :
        /\ c = CallFor(s, r) /\ v = task[p].vectors /\ n = Len(c.texts) /\ Len(v) = n
        /\ \A i \in 1..n : Good(v[i], c.texts[i], ModelOf[p])
        /\ ~UsesFiles(c) => \A i \in 1..n : Recent(v[i], r, w)
  BY AnswerFacts
<1>2. PICK text : text = r.set.queries[r.at + 1].text
  OBVIOUS
<1>3. c.texts = <<text>> /\ c.kind = "query"
  BY <1>1, <1>2 DEF CallFor
<1>4. n = 1 /\ c.texts[1] = text /\ ~UsesFiles(c)
  BY <1>1, <1>3 DEF UsesFiles
<1>5. v[1] \in Vector /\ v = <<v[1]>>
  BY <1>1, <1>4
<1>. QED
  BY <1>1, <1>2, <1>4, <1>5

\* What is put in a batch.
Items(s, r) == IF s = "corpus" THEN r.set.passages ELSE NextOf(r)

LEMMA ItemFacts ==
  ASSUME EvalInv, NEW p \in Procs, NEW s \in {"corpus", "distractors"}, s = stage[p],
         NEW r, r = run[p]
  PROVE  \E n \in Nat : /\ Items(s, r) \in Seq(Entry) /\ n = Len(Items(s, r))
                        /\ DOMAIN Items(s, r) = 1..n
                        /\ \A i \in 1..n : Items(s, r)[i] \in Entries(r.set)
                        /\ s = "distractors" => r.at + n \in Nat
<1>1. Shape(p, s, pc[p], r, weights[ModelOf[p]]) /\ Progress(s, pc[p], r)
  BY RunFacts DEF RunInv
<1>2. PICK set \in SetsOf[p] : set = r.set
  BY <1>1 DEF Shape, Begun, Stages, Embeds
<1>3. CASE s = "corpus"
  <2>1. PICK items \in Seq(Entry) : items = set.passages
    BY SetFacts
  <2>2. Items(s, r) = items
    BY <1>2, <1>3, <2>1 DEF Items
  <2>3. \A i \in 1..Len(items) : items[i] \in Entries(set)
    BY <2>1 DEF Entries, ToSet
  <2>. QED
    BY <1>2, <1>3, <2>2, <2>3
<1>4. CASE s = "distractors"
  <2>1. PICK all \in Seq(Entry) : all = set.distractors
    BY SetFacts
  <2>2. PICK k \in Nat : k = Len(all)
    OBVIOUS
  <2>3. PICK at \in Nat : at = r.at /\ at < k
    BY <1>1, <1>2, <1>4, <2>1, <2>2 DEF Shape, Progress
  <2>4. PICK j \in Nat : j = Smaller(at + IngestBatchSize, k) /\ j <= k /\ at < j
    BY <2>2, <2>3, EvaluationAssumption DEF Smaller
  <2>5. PICK items : items = SubSeq(all, at + 1, j)
    OBVIOUS
  <2>6. Items(s, r) = items
    BY <1>2, <1>4, <2>1, <2>2, <2>3, <2>4, <2>5 DEF Items, NextOf
  <2>7. /\ items \in Seq(Entry) /\ Len(items) = j - at
        /\ \A i \in 1..(j - at) : items[i] = all[at + i]
    <3>1. at + 1 \in 1..k /\ j \in 1..k /\ at + 1 <= j + 1
      BY <2>2, <2>3, <2>4
    <3>2. /\ items \in Seq(Entry) /\ Len(items) = j - (at + 1) + 1
          /\ \A i \in 1..(j - (at + 1) + 1) : items[i] = all[at + 1 + i - 1]
      BY <2>2, <2>5, <3>1
    <3>. QED
      BY <3>2
  <2>8. ASSUME NEW i \in 1..(j - at) PROVE items[i] \in Entries(set)
    <3>1. at + i \in 1..k
      BY <2>4
    <3>2. all[at + i] \in ToSet(all)
      BY <2>2, <3>1 DEF ToSet
    <3>. QED
      BY <2>1, <2>7, <3>2 DEF Entries
  <2>9. j - at \in Nat /\ at + (j - at) \in Nat
    BY <2>4
  <2>10. PICK n \in Nat : n = j - at
    BY <2>9
  <2>11. /\ items \in Seq(Entry) /\ n = Len(items) /\ DOMAIN items = 1..n
         /\ \A i \in 1..n : items[i] \in Entries(r.set)
    BY <1>2, <2>7, <2>8, <2>10
  <2>12. r.at + n \in Nat
    BY <2>3
  <2>. QED
    BY <2>6, <2>11, <2>12
<1>. QED
  BY <1>3, <1>4

\* The answer for a batch.
LEMMA BatchAnswered ==
  ASSUME EvalInv, NEW p \in Procs, pc[p] = "ok", NEW s \in {"corpus", "distractors"},
         s = stage[p], NEW r, r = run[p], NEW w, w = weights[ModelOf[p]],
         NEW items, items = Items(s, r), NEW n \in Nat, DOMAIN items = 1..n, n = Len(items)
  PROVE  \E v \in Seq(Vector) :
           /\ v = task[p].vectors /\ Len(v) = n
           /\ \A i \in 1..n : v[i].text = items[i].text
           /\ ~r.set.cached => \A i \in 1..n : Recent(v[i], r, w)
<1>1. PICK c \in CallType, v \in Seq(Vector), m \in Nat :
        /\ c = CallFor(s, r) /\ v = task[p].vectors /\ m = Len(c.texts) /\ Len(v) = m
        /\ \A i \in 1..m : Good(v[i], c.texts[i], ModelOf[p])
        /\ ~UsesFiles(c) => \A i \in 1..m : Recent(v[i], r, w)
  BY AnswerFacts
<1>2. c.texts = TextsOf(items) /\ c.cached = r.set.cached
  BY <1>1 DEF CallFor, Items
<1>3. c.texts = [i \in 1..n |-> items[i].text]
  BY <1>2 DEF TextsOf
<1>4. m = n
  BY <1>1, <1>3
<1>. QED
  BY <1>1, <1>2, <1>3, <1>4 DEF Good, UsesFiles

\* The ids of a batch of n rows behind the first l, and the keys they are given.
NewIds(l, n) == (l + 1)..(l + n)

KeyedBy(new, keys, items, l, n) ==
  /\ DOMAIN new = DOMAIN keys \cup NewIds(l, n)
  /\ \A id \in DOMAIN keys : new[id] = keys[id]
  /\ \A i \in 1..n : new[l + i] = items[i].key

\* The keys of PutBatch.
KeysWith(p, keys, items) ==
  [id \in DOMAIN keys \cup {IdOf(p, i) : i \in DOMAIN items} |->
     IF id \in {IdOf(p, i) : i \in DOMAIN items}
       THEN items[CHOOSE i \in DOMAIN items : IdOf(p, i) = id].key
       ELSE keys[id]]

LEMMA KeysAfter ==
  ASSUME NEW p, NEW keys, NEW items, NEW l \in Nat, NEW n \in Nat, DOMAIN items = 1..n,
         l = Len(Db(p).rows), {IdOf(p, i) : i \in DOMAIN items} \cap DOMAIN keys = {}
  PROVE  KeyedBy(KeysWith(p, keys, items), keys, items, l, n)
<1>. DEFINE new == KeysWith(p, keys, items)
<1>1. \A i \in 1..n : IdOf(p, i) = l + i
  BY DEF IdOf
<1>2. DOMAIN new = DOMAIN keys \cup NewIds(l, n)
  <2>1. ASSUME NEW id \in NewIds(l, n) PROVE \E i \in 1..n : id = l + i
    <3>1. id - l \in 1..n /\ id = l + (id - l)
      BY DEF NewIds
    <3>. QED
      BY <3>1
  <2>2. \A i \in 1..n : l + i \in NewIds(l, n)
    BY DEF NewIds
  <2>3. {IdOf(p, i) : i \in DOMAIN items} = NewIds(l, n)
    <3>1. ASSUME NEW x \in {IdOf(p, i) : i \in DOMAIN items} PROVE x \in NewIds(l, n)
      BY <1>1, <2>2
    <3>2. ASSUME NEW x \in NewIds(l, n) PROVE x \in {IdOf(p, i) : i \in DOMAIN items}
      <4>1. PICK i \in 1..n : x = l + i
        BY <2>1, <3>2
      <4>2. i \in DOMAIN items /\ x = IdOf(p, i)
        BY <1>1, <4>1
      <4>. QED
        BY <4>2
    <3>. QED
      BY <3>1, <3>2
  <2>4. DOMAIN new = DOMAIN keys \cup {IdOf(p, i) : i \in DOMAIN items}
    BY DEF KeysWith
  <2>. QED
    BY <2>3, <2>4, Zenon
<1>3. ASSUME NEW id \in DOMAIN keys PROVE new[id] = keys[id]
  BY <1>3 DEF KeysWith
<1>4. ASSUME NEW i \in 1..n PROVE new[l + i] = items[i].key
  <2>1. PICK id : id = l + i
    OBVIOUS
  <2>2. id \in {IdOf(p, j) : j \in DOMAIN items}
    BY <1>1, <2>1
  <2>3. new[id] = items[CHOOSE j \in DOMAIN items : IdOf(p, j) = id].key
    BY <2>2 DEF KeysWith
  <2>4. \A j \in DOMAIN items : IdOf(p, j) = id <=> j = i
    BY <1>1, <2>1
  <2>5. (CHOOSE j \in DOMAIN items : IdOf(p, j) = id) = i
    BY <2>4
  <2>. QED
    BY <2>1, <2>3, <2>5
<1>. QED
  BY <1>2, <1>3, <1>4 DEF KeyedBy

\* e is d with the rows v put behind its l rows.
Appended(d, e, v, l, n) ==
  /\ l = Len(d.rows) /\ Len(e.rows) = l + n
  /\ \A i \in 1..l : e.rows[i] = d.rows[i]
  /\ \A i \in 1..n : e.rows[l + i] = v[i]

\* The rows of a batch go behind those there are.
LEMMA RowsAfter ==
  ASSUME NEW d, NEW e, Base(d), NEW v \in Seq(Vector), NEW l \in Nat, l = Len(d.rows),
         NEW n \in Nat, n = Len(v), e.rows = d.rows \o v, e.maker = d.maker, e.schema = d.schema
  PROVE  /\ Base(e) /\ Appended(d, e, v, l, n)
         /\ \A q \in Procs : Later(q, d, e)
<1>1. PICK rows \in Seq(Vector) : rows = d.rows
  BY DEF Base
<1>2. PICK all : all = rows \o v
  OBVIOUS
<1>3. /\ all \in Seq(Vector) /\ Len(all) = l + n
      /\ \A i \in 1..(l + n) : all[i] = IF i <= l THEN rows[i] ELSE v[i - l]
  BY <1>1, <1>2, ConcatProperties
<1>4. e.rows = all /\ e.maker = d.maker /\ e.schema = d.schema
  BY <1>1, <1>2 DEF Base
<1>5. \A i \in 1..l : all[i] = rows[i]
  BY <1>3
<1>6. ASSUME NEW i \in 1..n PROVE all[l + i] = v[i]
  <2>1. l + i \in 1..(l + n) /\ ~(l + i <= l) /\ (l + i) - l = i
    OBVIOUS
  <2>. QED
    BY <1>3, <2>1
<1>7. l <= l + n
  OBVIOUS
<1>8. Base(e)
  BY <1>3, <1>4 DEF Base
<1>9. Len(e.rows) = l + n /\ \A i \in 1..l : e.rows[i] = d.rows[i]
  BY <1>1, <1>3, <1>4, <1>5
<1>10. \A i \in 1..n : e.rows[l + i] = v[i]
  BY <1>4, <1>6
<1>11. \A q \in Procs : Later(q, d, e)
  BY <1>4, <1>7, <1>9 DEF Later
<1>12. Appended(d, e, v, l, n)
  BY <1>9, <1>10 DEF Appended
<1>. QED
  BY <1>8, <1>11, <1>12

\* The rows of a batch stand for the texts its ids are given.
Computed(v, items, r, w, n) ==
  /\ \A i \in 1..n : v[i].text = items[i].text /\ items[i] \in Entries(r.set)
  /\ ~r.set.cached => \A i \in 1..n : Recent(v[i], r, w)

LEMMA PutStored ==
  ASSUME NEW s, NEW z \in {"distractors", "queries"}, NEW r, NEW u, NEW d, NEW e,
         NEW w, NEW items, NEW v, NEW l \in Nat, NEW n \in Nat,
         Appended(d, e, v, l, n), Computed(v, items, r, w, n),
         Stored(s, r, d, w), KeyedBy(u.keys, r.keys, items, l, n),
         u.set = r.set, u.since = r.since, u.lists = <<>>
  PROVE  Stored(z, u, e, w)
<1>. USE DEF Appended, Computed
<1>1. ASSUME NEW id \in DOMAIN u.keys
      PROVE  /\ id \in 1..(l + n)
             /\ \E x \in Entries(r.set) : x.key = u.keys[id] /\ x.text = e.rows[id].text
             /\ ~r.set.cached => Recent(e.rows[id], r, w)
  <2>1. CASE id \in DOMAIN r.keys
    <3>1. id \in 1..l /\ u.keys[id] = r.keys[id] /\ e.rows[id] = d.rows[id]
      BY <2>1 DEF Stored, KeyedBy
    <3>2. id \in 1..(l + n)
      BY <3>1
    <3>. QED
      BY <2>1, <3>1, <3>2 DEF Stored
  <2>2. CASE id \notin DOMAIN r.keys
    <3>1. id \in (l + 1)..(l + n)
      BY <1>1, <2>2 DEF KeyedBy, NewIds
    <3>2. PICK i \in 1..n : id = l + i
      <4>1. id - l \in 1..n /\ id = l + (id - l)
        BY <3>1
      <4>. QED
        BY <4>1
    <3>3. u.keys[id] = items[i].key /\ e.rows[id] = v[i]
      BY <3>2 DEF KeyedBy
    <3>4. id \in 1..(l + n)
      BY <3>1
    <3>. QED
      BY <3>2, <3>3, <3>4
  <2>. QED
    BY <2>1, <2>2
<1>2. ~Dated(z, u)
  BY DEF Dated
<1>3. \A x : Recent(x, r, w) = Recent(x, u, w)
  BY DEF Recent
<1>4. Len(u.lists) = 0
  OBVIOUS
<1>. QED
  BY <1>1, <1>2, <1>3, <1>4 DEF Stored

\* The run after a batch: with its keys, at a, in the stage z.
After(u, r, new, a, z) ==
  /\ u = [r EXCEPT !.keys = new, !.at = a]
  /\ z \in {"distractors", "queries"} /\ a \in Nat
  /\ z = "distractors" => a < Len(r.set.distractors)
  /\ z = "queries" => a = 0

LEMMA PutFits ==
  ASSUME NEW p \in Procs, NEW s \in {"corpus", "distractors"}, NEW t, NEW t2, NEW r, NEW d, NEW e,
         NEW w \in Nat, RunInv(p, s, "ok", t, r, d, w),
         NEW z, NEW a, NEW u, NEW new, After(u, r, new, a, z), NEW items, items = Items(s, r),
         NEW n \in Nat, DOMAIN items = 1..n, NEW l \in Nat, KeyedBy(new, r.keys, items, l, n),
         e.maker = p => Stored(z, u, e, w)
  PROVE  RunInv(p, z, "idle", t2, u, e, w)
<1>. USE DEF After
<1>1. PICK o : o = [set |-> r.set, keys |-> r.keys, vectors |-> r.vectors, at |-> r.at,
                    round |-> r.round, listed |-> r.listed, lists |-> r.lists,
                    since |-> r.since, digest |-> r.digest, why |-> r.why]
  OBVIOUS
<1>2. o = r
  BY <1>1 DEF RunInv, Shape, IsRun
<1>3. u = [set |-> r.set, keys |-> new, vectors |-> r.vectors, at |-> a,
           round |-> r.round, listed |-> r.listed, lists |-> r.lists,
           since |-> r.since, digest |-> r.digest, why |-> r.why]
  <2>1. u = [o EXCEPT !.keys = new, !.at = a]
    BY <1>2
  <2>. QED
    BY <1>1, <2>1
<1>4. /\ u.set = r.set /\ u.keys = new /\ u.vectors = r.vectors /\ u.at = a /\ u.round = r.round
      /\ u.lists = r.lists /\ u.since = r.since /\ u.digest = r.digest /\ IsRun(u)
  BY <1>3 DEF IsRun
<1>5. /\ s \in Begun /\ z \in Begun /\ z \in Stages /\ z \in Filled /\ "distractors" \in Filled
      /\ s \notin {"search", "vector", "report", "done"}
      /\ z \notin {"create", "migrate", "corpus", "start", "failed", "search", "vector", "report", "done"}
  BY DEF Begun, Stages, Filled, Embeds
<1>6. Shape(p, s, "ok", r, w) /\ Progress(s, "ok", r)
  BY DEF RunInv
<1>7. Shape(p, z, "idle", u, w)
  BY <1>4, <1>5, <1>6 DEF Shape
<1>8. r.lists = <<>> /\ r.round = 1 /\ r.vectors = <<>>
  BY <1>5, <1>6 DEF Progress
<1>9. PICK set \in SetsOf[p] : set = r.set
  BY <1>5, <1>6 DEF Shape
<1>10. PICK m \in Nat : m = Len(set.queries)
  <2>1. Len(set.queries) \in Nat
    BY Counts, Zenon
  <2>. QED
    BY <2>1
<1>11. Progress(z, "idle", u)
  <2>1. Len(u.vectors) = 0 /\ u.lists = <<>> /\ u.round = 1 /\ u.vectors = <<>>
    BY <1>4, <1>8, Counts, Zenon
  <2>2. u.lists = [i \in 1..Len(u.lists) |-> u.lists[i]] /\ Len(u.lists) \in Nat
    BY <2>1
  <2>3. z = "distractors" => u.at < Len(u.set.distractors)
    BY <1>4
  <2>4. z = "queries" => u.at = 0 /\ (0 < m \/ m = 0) /\ m = Len(u.set.queries)
    BY <1>4, <1>9, <1>10
  <2>. QED
    BY <1>5, <2>1, <2>2, <2>3, <2>4 DEF Progress
<1>12. Keyed(z, u)
  <2>1. Keyed(s, r)
    BY DEF RunInv
  <2>2. DOMAIN new \subseteq Nat
    BY <2>1 DEF Keyed, KeyedBy, NewIds
  <2>3. PassageKeys(r.set) \cap Reserved = {}
    BY <1>5, <1>6, <2>1 DEF Progress, Keyed
  <2>4. ASSUME NEW i \in DOMAIN r.set.passages
        PROVE  \E id \in DOMAIN new : new[id] = r.set.passages[i].key
    <3>1. CASE s = "corpus"
      <4>1. items = r.set.passages /\ i \in 1..n
        BY <2>4, <3>1 DEF Items
      <4>2. l + i \in DOMAIN new
        BY <4>1 DEF KeyedBy, NewIds
      <4>. QED
        BY <4>1, <4>2 DEF KeyedBy
    <3>2. CASE s = "distractors"
      <4>1. PICK id \in DOMAIN r.keys : r.keys[id] = r.set.passages[i].key
        BY <1>5, <2>1, <2>4, <3>2 DEF Keyed
      <4>. QED
        BY <4>1 DEF KeyedBy
    <3>. QED
      BY <3>1, <3>2
  <2>. QED
    BY <1>4, <2>2, <2>3, <2>4 DEF Keyed
<1>13. Asked(z, u, ModelOf[p], w)
  <2>1. u.vectors = <<>>
    BY <1>4, <1>8
  <2>2. u.vectors \in Seq(Vector) /\ Len(u.vectors) = 0
    BY <2>1, Counts, Zenon
  <2>. QED
    BY <1>4, <1>9, <1>10, <2>2 DEF Asked
<1>. QED
  BY <1>5, <1>7, <1>11, <1>12, <1>13 DEF RunInv, InCall, Halfway

\* A batch is put: PutCorpus and PutDistractors.
LEMMA PutStep ==
  ASSUME EvalInv, Inv', NEW p \in Procs, NEW s \in {"corpus", "distractors"}, s = stage[p],
         pc[p] = "ok", Return(p), NEW items, items = Items(s, run[p]), PutBatch(p, items)
  PROVE  EvalInv'
<1>. Inv
  BY DEF EvalInv
<1>1. /\ pc'[p] = "idle" /\ weights' = weights
      /\ \A q \in Procs \ {p} : pc'[q] = pc[q] /\ task'[q] = task[q]
  BY ReturnFacts
<1>2. PICK r : r = run[p]
  OBVIOUS
<1>3. PICK d : d = db[DbOf[p]]
  OBVIOUS
<1>4. PICK w \in Nat : w = weights[ModelOf[p]]
  BY RunFacts
<1>5. Base(d) /\ RunInv(p, s, "ok", task[p], r, d, w)
  BY <1>2, <1>3, <1>4, RunFacts
<1>6. PICK l \in Nat : l = Len(d.rows)
  BY <1>5 DEF Base
<1>7. PICK n \in Nat : /\ n = Len(items) /\ DOMAIN items = 1..n
                       /\ \A i \in 1..n : items[i] \in Entries(r.set)
                       /\ s = "distractors" => r.at + n \in Nat
  BY <1>2, ItemFacts
<1>8. PICK v \in Seq(Vector) :
        /\ v = task[p].vectors /\ Len(v) = n
        /\ \A i \in 1..n : v[i].text = items[i].text
        /\ ~r.set.cached => \A i \in 1..n : Recent(v[i], r, w)
  BY <1>2, <1>4, <1>7, BatchAnswered
<1>9. CASE d.schema # "migrated"
  <2>1. Quit(p, "error") /\ UNCHANGED db
    BY <1>3, <1>9 DEF PutBatch, Db
  <2>. QED
    BY <1>1, <2>1, QuitStep
<1>10. CASE d.schema = "migrated"
  <2>1. PICK ids : ids = NewIds(l, n)
    OBVIOUS
  <2>2. {IdOf(p, i) : i \in DOMAIN items} = ids
    <3>1. \A i \in 1..n : IdOf(p, i) = l + i
      BY <1>3, <1>6 DEF IdOf, Db
    <3>2. ASSUME NEW id \in (l + 1)..(l + n) PROVE \E i \in 1..n : id = l + i
      <4>1. id - l \in 1..n /\ id = l + (id - l)
        OBVIOUS
      <4>. QED
        BY <4>1
    <3>. QED
      BY <1>7, <2>1, <3>1, <3>2 DEF NewIds
  <2>3. PICK e : e = [d EXCEPT !.rows = @ \o v]
    OBVIOUS
  <2>4. db' = [db EXCEPT ![DbOf[p]].rows = @ \o task[p].vectors]
    BY <1>3, <1>10 DEF PutBatch, Db
  <2>5. DOMAIN db' = Databases /\ db'[DbOf[p]] = e /\ \A x \in Databases \ {DbOf[p]} : db'[x] = db[x]
    BY <1>3, <1>8, <2>3, <2>4, RunFacts DEF EvalInv
  <2>6. /\ Base(e) /\ e.maker = d.maker /\ Len(e.rows) = l + n
        /\ \A i \in 1..l : e.rows[i] = d.rows[i]
        /\ \A i \in 1..n : e.rows[l + i] = v[i]
        /\ \A q \in Procs : Later(q, d, e)
    <3>1. e.rows = d.rows \o v /\ e.maker = d.maker /\ e.schema = d.schema
      BY <1>5, <2>3 DEF Base
    <3>2. /\ n = Len(v) /\ l = Len(d.rows) /\ Base(d)
          /\ v \in Seq(Vector) /\ l \in Nat /\ n \in Nat
      BY <1>5, <1>6, <1>8
    <3>3. /\ Base(e) /\ Appended(d, e, v, l, n)
          /\ \A q \in Procs : Later(q, d, e)
      BY <3>1, <3>2, RowsAfter
    <3>. QED
      BY <3>1, <3>3, Zenon DEF Appended
  <2>7. CASE ids \cap DOMAIN r.keys # {}
    <3>1. Quit(p, "twice")
      BY <1>2, <1>3, <1>10, <2>2, <2>7 DEF PutBatch, Db
    <3>2. Only(p)
      BY <1>1, <2>5, <3>1, QuitFacts DEF Only
    <3>3. PICK o : o = Over("twice")
      OBVIOUS
    <3>4. RunInv(p, "failed", "idle", task'[p], o, e, w)
      BY <3>3, NoRunFits
    <3>. QED
      BY <1>1, <1>3, <1>4, <2>5, <2>6, <3>1, <3>2, <3>3, <3>4, QuitFacts, OneRun
  <2>8. CASE ids \cap DOMAIN r.keys = {}
    <3>1. PICK b : b = IF s = "corpus" THEN 0 ELSE r.at + n
      OBVIOUS
    <3>2. PICK z : z = AfterIngest(p, b)
      OBVIOUS
    <3>3. PICK a : a = IF z = "queries" THEN 0 ELSE b
      OBVIOUS
    <3>4. PICK new : new = KeysWith(p, run[p].keys, items)
      OBVIOUS
    <3>5. KeyedBy(new, r.keys, items, l, n) /\ {IdOf(p, i) : i \in DOMAIN items} \cap DOMAIN run[p].keys = {}
      <4>1. l = Len(Db(p).rows) /\ l \in Nat /\ n \in Nat /\ DOMAIN items = 1..n
        BY <1>3, <1>6, <1>7 DEF Db
      <4>2. {IdOf(p, i) : i \in DOMAIN items} \cap DOMAIN run[p].keys = {}
        BY <1>2, <2>2, <2>8
      <4>3. KeyedBy(new, run[p].keys, items, l, n)
        BY <3>4, <4>1, <4>2, KeysAfter
      <4>. QED
        BY <1>2, <4>2, <4>3
    <3>6. /\ z \in {"distractors", "queries"} /\ a \in Nat
          /\ z = "distractors" => a < Len(r.set.distractors)
          /\ z = "queries" => a = 0
      BY <1>2, <1>7, <3>1, <3>2, <3>3 DEF AfterIngest
    <3>7. PICK u : u = [r EXCEPT !.keys = new, !.at = a]
      OBVIOUS
    <3>8. Enter(p, z) /\ run' = [run EXCEPT ![p].keys = new, ![p].at = a]
      <4>1. Db(p).schema = "migrated"
        BY <1>3, <1>10 DEF Db
      <4>2. PICK at : at = IF stage[p] = "corpus" THEN 0 ELSE run[p].at + Len(items)
        OBVIOUS
      <4>3. at = b
        BY <1>2, <1>7, <3>1, <4>2
      <4>4. /\ run' = [run EXCEPT ![p].keys = new,
                                  ![p].at = IF AfterIngest(p, at) = "queries" THEN 0 ELSE at]
            /\ Enter(p, AfterIngest(p, at))
        BY <3>4, <3>5, <4>1, <4>2, Zenon DEF PutBatch, KeysWith
      <4>. QED
        BY <3>2, <3>3, <4>3, <4>4
    <3>9. run'[p] = u /\ DOMAIN run' = Procs /\ \A q \in Procs \ {p} : run'[q] = run[q]
      BY <1>2, <3>7, <3>8 DEF EvalInv
    <3>10. z \in Stages
      BY <3>6 DEF Stages, Embeds
    <3>11. Only(p) /\ stage'[p] = z
      BY <1>1, <2>5, <3>8, <3>9, <3>10, EnterFacts DEF Only
    <3>12. e.maker = p => Stored(z, u, e, w)
      <4>1. Shape(p, s, "ok", r, w) /\ Progress(s, "ok", r) /\ s \in Begun
            /\ s \notin {"search", "vector", "report", "done"}
        BY <1>5 DEF RunInv, Begun, Stages, Embeds
      <4>2. r.lists = <<>>
        BY <4>1 DEF Progress
      <4>3. u.set = r.set /\ u.since = r.since /\ u.lists = <<>> /\ u.keys = new
        BY <3>7, <4>1, <4>2 DEF Shape, IsRun
      <4>4. KeyedBy(u.keys, r.keys, items, l, n)
        BY <3>5, <4>3
      <4>5. Computed(v, items, r, w, n)
        BY <1>7, <1>8 DEF Computed
      <4>6. e.maker = p => Stored(s, r, d, w)
        BY <1>5, <2>6 DEF RunInv
      <4>7. Appended(d, e, v, l, n)
        BY <1>6, <2>6 DEF Appended
      <4>. QED
        BY <3>6, <4>3, <4>4, <4>5, <4>6, <4>7, PutStored
    <3>13. RunInv(p, z, "idle", task'[p], u, e, w)
      <4>1. RunInv(p, s, "ok", task[p], r, d, w) /\ items = Items(s, r) /\ DOMAIN items = 1..n
            /\ l \in Nat /\ n \in Nat /\ w \in Nat /\ a \in Nat
        BY <1>2, <1>5, <1>7, <3>6
      <4>2. PICK t : t = task'[p]
        OBVIOUS
      <4>3. RunInv(p, z, "idle", t, u, e, w)
        <5>1. After(u, r, new, a, z)
          BY <3>6, <3>7 DEF After
        <5>. QED
          BY <3>5, <3>12, <4>1, <5>1, PutFits
      <4>. QED
        BY <4>2, <4>3
    <3>. QED
      BY <1>1, <1>3, <1>4, <2>5, <2>6, <3>9, <3>11, <3>13, OneRun
  <2>. QED
    BY <2>7, <2>8
<1>. QED
  BY <1>9, <1>10

\* A sequence and one element after it.
LEMMA OneMore ==
  ASSUME NEW S, NEW s \in Seq(S), NEW x \in S, NEW k \in Nat, k = Len(s),
         NEW more, more = s \o <<x>>
  PROVE  /\ more \in Seq(S) /\ Len(more) = k + 1 /\ more[k + 1] = x
         /\ \A i \in 1..k : more[i] = s[i]
<1>1. PICK one \in Seq(S) : one = <<x>> /\ Len(one) = 1 /\ one[1] = x
  <2>1. <<x>> \in Seq(S) /\ Len(<<x>>) = 1 /\ <<x>>[1] = x
    OBVIOUS
  <2>. QED
    BY <2>1
<1>2. more = s \o one
  BY <1>1
<1>3. /\ more \in Seq(S) /\ Len(more) = k + 1
      /\ \A i \in 1..(k + 1) : more[i] = IF i <= k THEN s[i] ELSE one[i - k]
  BY <1>1, <1>2
<1>4. more[k + 1] = one[1]
  BY <1>3
<1>. QED
  BY <1>1, <1>3, <1>4

\* The vector of a query is kept.
LEMMA KeepVectorStep ==
  ASSUME EvalInv, Inv', NEW p \in Procs, KeepVector(p)
  PROVE  EvalInv'
<1>. Inv
  BY DEF EvalInv
<1>1. /\ stage[p] = "queries" /\ pc[p] = "ok" /\ Return(p) /\ db' = db
      /\ run' = [run EXCEPT ![p].vectors = @ \o task[p].vectors, ![p].at = NextQuery(p, "warmup").at]
      /\ Enter(p, NextQuery(p, "warmup").stage)
  BY DEF KeepVector, Answers
<1>2. /\ pc'[p] = "idle" /\ weights' = weights
      /\ \A q \in Procs \ {p} : pc'[q] = pc[q] /\ task'[q] = task[q]
  BY <1>1, ReturnFacts
<1>3. PICK r : r = run[p]
  OBVIOUS
<1>4. PICK w \in Nat : w = weights[ModelOf[p]]
  BY RunFacts
<1>5. PICK d : d = db[DbOf[p]]
  OBVIOUS
<1>6. RunInv(p, "queries", "ok", task[p], r, d, w)
  BY <1>1, <1>3, <1>4, <1>5, RunFacts
<1>7. PICK x \in Vector : /\ task[p].vectors = <<x>> /\ Recent(x, r, w)
                          /\ Good(x, r.set.queries[r.at + 1].text, ModelOf[p])
  BY <1>1, <1>3, <1>4, QueryAnswered
<1>8. /\ Shape(p, "queries", "ok", r, w) /\ Progress("queries", "ok", r)
      /\ Asked("queries", r, ModelOf[p], w)
  BY <1>6 DEF RunInv
<1>9. /\ "queries" \in Begun /\ "queries" \in Filled /\ "queries" \in Stages
      /\ "warmup" \in Begun /\ "warmup" \in Filled /\ "warmup" \in Stages
  BY DEF Begun, Stages, Filled, Embeds
<1>10. PICK set \in SetsOf[p] : set = r.set
  BY <1>8, <1>9 DEF Shape
<1>11. PICK m \in Nat : m = Len(set.queries)
  BY Counts
<1>12. PICK vectors \in Seq(Vector) : vectors = r.vectors
  BY <1>8 DEF Asked
<1>13. PICK k \in Nat : k = Len(vectors) /\ k = r.at /\ k < m
  BY <1>8, <1>10, <1>11, <1>12 DEF Progress
<1>14. PICK more : more = vectors \o <<x>>
  OBVIOUS
<1>15. /\ more \in Seq(Vector) /\ Len(more) = k + 1 /\ more[k + 1] = x
       /\ \A i \in 1..k : more[i] = vectors[i]
  <2>1. k = Len(vectors)
    BY <1>13
  <2>2. more \in Seq(Vector)
    BY <1>14, <2>1, OneMore
  <2>3. Len(more) = k + 1
    BY <1>14, <2>1, OneMore
  <2>4. more[k + 1] = x
    BY <1>14, <2>1, OneMore
  <2>5. \A i \in 1..k : more[i] = vectors[i]
    BY <1>14, <2>1, OneMore
  <2>. QED
    BY <2>2, <2>3, <2>4, <2>5
<1>16. PICK a : a = IF k + 1 = m THEN 0 ELSE k + 1
  OBVIOUS
<1>17. PICK z : z = IF k + 1 = m THEN "warmup" ELSE "queries"
  OBVIOUS
<1>18. NextQuery(p, "warmup").at = a /\ NextQuery(p, "warmup").stage = z
  BY <1>1, <1>3, <1>10, <1>11, <1>13, <1>16, <1>17 DEF NextQuery
<1>19. PICK u : u = [r EXCEPT !.vectors = more, !.at = a]
  OBVIOUS
<1>20. run' = [run EXCEPT ![p].vectors = more, ![p].at = a] /\ Enter(p, z)
  BY <1>1, <1>3, <1>7, <1>12, <1>14, <1>18
<1>21. run'[p] = u /\ DOMAIN run' = Procs /\ \A q \in Procs \ {p} : run'[q] = run[q]
  BY <1>3, <1>19, <1>20 DEF EvalInv
<1>22. z \in Stages /\ z \in Filled /\ z \in Begun /\ z \in {"queries", "warmup"}
  BY <1>9, <1>17
<1>23. Only(p) /\ stage'[p] = z
  BY <1>1, <1>2, <1>20, <1>21, <1>22, EnterFacts DEF Only, EvalInv
<1>24. /\ u.set = r.set /\ u.keys = r.keys /\ u.vectors = more /\ u.at = a /\ u.round = r.round
       /\ u.lists = r.lists /\ u.since = r.since /\ u.digest = r.digest /\ IsRun(u)
  <2>1. PICK o : o = [set |-> r.set, keys |-> r.keys, vectors |-> r.vectors, at |-> r.at,
                      round |-> r.round, listed |-> r.listed, lists |-> r.lists,
                      since |-> r.since, digest |-> r.digest, why |-> r.why]
    OBVIOUS
  <2>2. o = r
    BY <1>8, <2>1 DEF Shape, IsRun
  <2>3. u = [set |-> r.set, keys |-> r.keys, vectors |-> more, at |-> a,
             round |-> r.round, listed |-> r.listed, lists |-> r.lists,
             since |-> r.since, digest |-> r.digest, why |-> r.why]
    <3>1. u = [o EXCEPT !.vectors = more, !.at = a]
      BY <1>19, <2>2
    <3>. QED
      BY <2>1, <3>1
  <2>. QED
    BY <2>3 DEF IsRun
<1>25. Shape(p, z, "idle", u, w)
  <2>1. a \in Nat /\ z \notin {"start", "failed"}
    BY <1>16, <1>22
  <2>. QED
    BY <1>8, <1>9, <1>22, <1>24, <2>1 DEF Shape
<1>26. Progress(z, "idle", u)
  <2>1. r.lists = <<>> /\ r.round = 1 /\ Len(r.lists) \in Nat
        /\ r.lists = [i \in 1..Len(r.lists) |-> r.lists[i]]
    BY <1>8, <1>9 DEF Progress
  <2>2. z = "queries" => a = k + 1 /\ a < m
    BY <1>13, <1>16, <1>17
  <2>3. z = "warmup" => k + 1 = m /\ a < m
    BY <1>13, <1>16, <1>17
  <2>. QED
    BY <1>10, <1>11, <1>15, <1>22, <1>24, <2>1, <2>2, <2>3 DEF Progress
<1>27. Keyed(z, u)
  BY <1>6, <1>9, <1>22, <1>24 DEF RunInv, Keyed
<1>28. ~Dated(z, u)
  BY <1>22 DEF Dated
<1>29. Asked(z, u, ModelOf[p], w)
  <2>1. ASSUME NEW n \in 1..(k + 1)
        PROVE  Good(more[n], set.queries[n].text, ModelOf[p]) /\ Recent(more[n], u, w)
    <3>1. CASE n = k + 1
      BY <1>7, <1>10, <1>13, <1>15, <1>24, <3>1 DEF Recent
    <3>2. CASE n # k + 1
      <4>1. n \in 1..k
        BY <3>2
      <4>2. Good(vectors[n], set.queries[n].text, ModelOf[p]) /\ Recent(vectors[n], r, w)
        BY <1>8, <1>10, <1>12, <1>13, <4>1 DEF Asked
      <4>. QED
        BY <1>15, <1>24, <4>1, <4>2 DEF Recent
    <3>. QED
      BY <3>1, <3>2
  <2>2. k + 1 <= m
    BY <1>13
  <2>. QED
    BY <1>10, <1>11, <1>15, <1>24, <1>28, <2>1, <2>2 DEF Asked
<1>30. d.maker = p => Stored(z, u, d, w)
  <2>1. r.lists = <<>> /\ Len(r.lists) = 0
    BY <1>8, <1>9, Counts DEF Progress
  <2>2. d.maker = p => Stored("queries", r, d, w)
    BY <1>6 DEF RunInv
  <2>3. \A y : Recent(y, r, w) = Recent(y, u, w)
    BY <1>24 DEF Recent
  <2>. QED
    BY <1>24, <1>28, <2>1, <2>2, <2>3 DEF Stored
<1>31. PICK t : t = task'[p]
  OBVIOUS
<1>32. RunInv(p, z, "idle", t, u, d, w)
  BY <1>22, <1>25, <1>26, <1>27, <1>29, <1>30 DEF RunInv, InCall, Halfway
<1>. QED
  BY <1>1, <1>2, <1>4, <1>5, <1>21, <1>23, <1>31, <1>32, OneRunAlone


\* A run that goes on with the same keys, vectors and lists.
LEMMA GoesOn ==
  ASSUME NEW p \in Procs, NEW s \in Filled, NEW c, NEW t, NEW r, NEW d, NEW w \in Nat,
         RunInv(p, s, c, t, r, d, w), NEW k, NEW u, NEW z \in Filled, z # "done",
         IsRun(u), u.set = r.set, u.keys = r.keys, u.vectors = r.vectors, u.lists = r.lists,
         u.since = r.since, u.at \in Nat, u.round \in 1..Rounds,
         Progress(z, "idle", u), Halfway(p, z, u, ModelOf[p], d, w)
  PROVE  RunInv(p, z, "idle", k, u, d, w)
<1>1. /\ Shape(p, s, c, r, w) /\ Keyed(s, r) /\ Asked(s, r, ModelOf[p], w)
      /\ d.maker = p => Stored(s, r, d, w)
  BY DEF RunInv
<1>2. s \in Begun /\ z \in Begun /\ z \in Stages /\ z \notin {"start", "failed"}
  BY DEF Begun, Filled
<1>3. Shape(p, z, "idle", u, w)
  BY <1>1, <1>2 DEF Shape
<1>4. Keyed(z, u)
  BY <1>1 DEF Keyed
<1>5. ~Dated(z, u)
  BY DEF Dated
<1>6. \A y : Recent(y, r, w) = Recent(y, u, w)
  BY DEF Recent
<1>7. Asked(z, u, ModelOf[p], w)
  BY <1>1, <1>5, <1>6 DEF Asked
<1>8. d.maker = p => Stored(z, u, d, w)
  BY <1>1, <1>5, <1>6 DEF Stored
<1>9. InCall(z, "idle", k, u, w)
  BY DEF InCall
<1>. QED
  BY <1>3, <1>4, <1>7, <1>8, <1>9 DEF RunInv

\* A query is searched for, and nobody looks.
LEMMA WarmUpStep ==
  ASSUME EvalInv, Inv', NEW p \in Procs, WarmUp(p)
  PROVE  EvalInv'
<1>. Inv
  BY DEF EvalInv
<1>1. stage[p] = "warmup" /\ pc[p] = "ok" /\ Return(p) /\ db' = db
  BY DEF WarmUp, Answers
<1>2. /\ pc'[p] = "idle" /\ weights' = weights
      /\ \A q \in Procs \ {p} : pc'[q] = pc[q] /\ task'[q] = task[q]
  BY <1>1, ReturnFacts
<1>3. CASE Db(p).schema # "migrated"
  <2>1. Quit(p, "error")
    BY <1>3 DEF WarmUp
  <2>. QED
    BY <1>1, <1>2, <2>1, QuitStep
<1>4. CASE Db(p).schema = "migrated"
  <2>1. PICK r : r = run[p]
    OBVIOUS
  <2>2. PICK w \in Nat : w = weights[ModelOf[p]]
    BY RunFacts
  <2>3. PICK d : d = db[DbOf[p]]
    OBVIOUS
  <2>4. RunInv(p, "warmup", "ok", task[p], r, d, w)
    BY <1>1, <2>1, <2>2, <2>3, RunFacts
  <2>5. Shape(p, "warmup", "ok", r, w) /\ Progress("warmup", "ok", r)
    BY <2>4 DEF RunInv
  <2>6. "warmup" \in Filled /\ "search" \in Filled /\ "warmup" \in Begun
    BY DEF Begun, Stages, Filled, Embeds
  <2>7. PICK set \in SetsOf[p] : set = r.set
    BY <2>5, <2>6 DEF Shape
  <2>8. PICK m \in Nat : m = Len(set.queries)
    BY Counts
  <2>9. PICK k \in Nat : k = r.at /\ k < m /\ Len(r.vectors) = m
    BY <2>5, <2>7, <2>8 DEF Progress, Shape
  <2>10. PICK a \in Nat : a = IF k + 1 = m THEN 0 ELSE k + 1
    OBVIOUS
  <2>11. PICK z \in Filled : z = (IF k + 1 = m THEN "search" ELSE "warmup")
    BY <2>6
  <2>12. NextQuery(p, "search").at = a /\ NextQuery(p, "search").stage = z
    BY <1>1, <2>1, <2>7, <2>8, <2>9, <2>10, <2>11 DEF NextQuery
  <2>13. run' = [run EXCEPT ![p].at = a] /\ Enter(p, z)
    BY <1>4, <2>12 DEF WarmUp
  <2>14. PICK u : u = [r EXCEPT !.at = a]
    OBVIOUS
  <2>15. run'[p] = u /\ DOMAIN run' = Procs /\ \A q \in Procs \ {p} : run'[q] = run[q]
    BY <2>1, <2>13, <2>14 DEF EvalInv
  <2>16. z \in Stages /\ z \in {"warmup", "search"} /\ z # "done"
    BY <2>11 DEF Filled, Begun
  <2>17. Only(p) /\ stage'[p] = z
    BY <1>1, <1>2, <2>13, <2>15, <2>16, EnterFacts DEF Only, EvalInv
  <2>18. /\ u.set = r.set /\ u.keys = r.keys /\ u.vectors = r.vectors /\ u.at = a
         /\ u.round = r.round /\ u.lists = r.lists /\ u.since = r.since /\ IsRun(u)
    <3>1. PICK o : o = [set |-> r.set, keys |-> r.keys, vectors |-> r.vectors, at |-> r.at,
                        round |-> r.round, listed |-> r.listed, lists |-> r.lists,
                        since |-> r.since, digest |-> r.digest, why |-> r.why]
      OBVIOUS
    <3>2. o = r
      BY <2>5, <3>1 DEF Shape, IsRun
    <3>3. u = [o EXCEPT !.at = a]
      BY <2>14, <3>2
    <3>4. u = [set |-> r.set, keys |-> r.keys, vectors |-> r.vectors, at |-> a,
               round |-> r.round, listed |-> r.listed, lists |-> r.lists,
               since |-> r.since, digest |-> r.digest, why |-> r.why]
      BY <3>1, <3>3
    <3>. QED
      BY <3>4 DEF IsRun
  <2>19. Progress(z, "idle", u)
    <3>1. /\ r.lists = <<>> /\ r.round = 1 /\ Len(r.lists) = 0
          /\ r.lists = [i \in 1..Len(r.lists) |-> r.lists[i]]
      BY <2>5, <2>6, Counts DEF Progress, Filled
    <3>2. a < m /\ (z = "search" => a = 0)
      BY <2>9, <2>10, <2>11
    <3>. QED
      BY <2>7, <2>8, <2>9, <2>16, <2>18, <3>1, <3>2 DEF Progress
  <2>20. Halfway(p, z, u, ModelOf[p], d, w)
    BY <2>16 DEF Halfway
  <2>21. u.at \in Nat /\ u.round \in 1..Rounds
    BY <2>5, <2>18 DEF Shape
  <2>22. PICK t : t = task'[p]
    OBVIOUS
  <2>23. RunInv(p, z, "idle", t, u, d, w)
    BY <2>4, <2>6, <2>16, <2>18, <2>19, <2>20, <2>21, GoesOn
  <2>. QED
    BY <1>1, <1>2, <2>2, <2>3, <2>15, <2>17, <2>22, <2>23, OneRunAlone
<1>. QED
  BY <1>3, <1>4

\* The lane that embeds the query has listed the rows there are.
LEMMA SearchStep ==
  ASSUME EvalInv, Inv', NEW p \in Procs, Search(p)
  PROVE  EvalInv'
<1>. Inv
  BY DEF EvalInv
<1>1. stage[p] = "search" /\ pc[p] = "ok" /\ Return(p) /\ db' = db
  BY DEF Search, Answers
<1>2. /\ pc'[p] = "idle" /\ weights' = weights
      /\ \A q \in Procs \ {p} : pc'[q] = pc[q] /\ task'[q] = task[q]
  BY <1>1, ReturnFacts
<1>3. CASE Db(p).schema # "migrated"
  <2>1. Quit(p, "error")
    BY <1>3 DEF Search
  <2>. QED
    BY <1>1, <1>2, <2>1, QuitStep
<1>4. CASE Db(p).schema = "migrated"
  <2>1. PICK r : r = run[p]
    OBVIOUS
  <2>2. PICK w \in Nat : w = weights[ModelOf[p]]
    BY RunFacts
  <2>3. PICK d : d = db[DbOf[p]]
    OBVIOUS
  <2>4. RunInv(p, "search", "ok", task[p], r, d, w)
    BY <1>1, <2>1, <2>2, <2>3, RunFacts
  <2>5. Shape(p, "search", "ok", r, w) /\ Progress("search", "ok", r)
    BY <2>4 DEF RunInv
  <2>6. "search" \in Filled /\ "vector" \in Filled /\ "vector" \in Stages /\ "vector" # "done"
    BY DEF Begun, Stages, Filled, Embeds
  <2>7. PICK x \in Vector : /\ task[p].vectors = <<x>> /\ Recent(x, r, w)
                            /\ Good(x, r.set.queries[r.at + 1].text, ModelOf[p])
    BY <1>1, <2>1, <2>2, QueryAnswered
  <2>8. PICK n \in Nat : n = Len(d.rows)
    BY <2>3, RunFacts DEF Base
  <2>9. DOMAIN d.rows = 1..n
    BY <2>3, <2>8, RunFacts DEF Base
  <2>10. PICK list : list = Best(x, d.rows, 1..n)
    OBVIOUS
  <2>11. run' = [run EXCEPT ![p].listed = list] /\ Enter(p, "vector")
    <3>1. Listing(p, task[p].vectors[1]) = list
      <4>1. task[p].vectors[1] = x
        BY <2>7
      <4>. QED
        BY <2>3, <2>9, <2>10, <4>1 DEF Listing, Db
    <3>. QED
      BY <1>4, <3>1 DEF Search
  <2>12. PICK u : u = [r EXCEPT !.listed = list]
    OBVIOUS
  <2>13. run'[p] = u /\ DOMAIN run' = Procs /\ \A q \in Procs \ {p} : run'[q] = run[q]
    BY <2>1, <2>11, <2>12 DEF EvalInv
  <2>14. Only(p) /\ stage'[p] = "vector"
    BY <1>1, <1>2, <2>6, <2>11, <2>13, EnterFacts DEF Only, EvalInv
  <2>15. /\ u.set = r.set /\ u.keys = r.keys /\ u.vectors = r.vectors /\ u.at = r.at
         /\ u.round = r.round /\ u.lists = r.lists /\ u.since = r.since /\ u.listed = list
         /\ IsRun(u)
    <3>1. PICK o : o = [set |-> r.set, keys |-> r.keys, vectors |-> r.vectors, at |-> r.at,
                        round |-> r.round, listed |-> r.listed, lists |-> r.lists,
                        since |-> r.since, digest |-> r.digest, why |-> r.why]
      OBVIOUS
    <3>2. o = r
      BY <2>5, <3>1 DEF Shape, IsRun
    <3>3. u = [o EXCEPT !.listed = list]
      BY <2>12, <3>2
    <3>4. u = [set |-> r.set, keys |-> r.keys, vectors |-> r.vectors, at |-> r.at,
               round |-> r.round, listed |-> list, lists |-> r.lists,
               since |-> r.since, digest |-> r.digest, why |-> r.why]
      BY <3>1, <3>3
    <3>. QED
      BY <3>4 DEF IsRun
  <2>16. Progress("vector", "idle", u)
    BY <2>5, <2>6, <2>15 DEF Progress
  <2>17. Halfway(p, "vector", u, ModelOf[p], d, w)
    <3>1. Good(x, u.set.queries[u.at + 1].text, ModelOf[p]) /\ Recent(x, u, w)
      BY <2>7, <2>15 DEF Recent
    <3>2. ASSUME d.maker = p
          PROVE  /\ n \in 0..Len(d.rows) /\ DOMAIN u.keys \subseteq 1..n
                 /\ u.listed = Best(x, d.rows, 1..n)
      <4>1. Stored("search", r, d, w)
        BY <2>4, <3>2 DEF RunInv
      <4>. QED
        BY <2>8, <2>10, <2>15, <4>1 DEF Stored
    <3>3. d.maker = p =>
            \E l \in 0..Len(d.rows) : /\ DOMAIN u.keys \subseteq 1..l
                                      /\ u.listed = Best(x, d.rows, 1..l)
      BY <3>2
    <3>. QED
      BY <3>1, <3>3, Zenon DEF Halfway
  <2>18. u.at \in Nat /\ u.round \in 1..Rounds
    BY <2>5, <2>15 DEF Shape
  <2>19. PICK t : t = task'[p]
    OBVIOUS
  <2>20. RunInv(p, "vector", "idle", t, u, d, w)
    BY <2>4, <2>6, <2>15, <2>16, <2>17, <2>18, GoesOn
  <2>. QED
    BY <1>1, <1>2, <2>2, <2>3, <2>13, <2>14, <2>19, <2>20, OneRunAlone
<1>. QED
  BY <1>3, <1>4


\* A list of lists and one after it.
LEMMA OneListMore ==
  ASSUME NEW lists, NEW h \in Nat, lists = [i \in 1..h |-> lists[i]], NEW x,
         NEW more, more = Append(lists, x)
  PROVE  /\ Len(more) = h + 1 /\ more = [i \in 1..(h + 1) |-> more[i]] /\ more[h + 1] = x
         /\ \A i \in 1..h : more[i] = lists[i]
<1>1. PICK S : S = {lists[i] : i \in 1..h} \cup {x}
  OBVIOUS
<1>2. x \in S /\ \A i \in 1..h : lists[i] \in S
  BY <1>1
<1>3. lists \in [1..h -> S]
  BY <1>2
<1>4. lists \in Seq(S) /\ Len(lists) = h
  BY <1>3
<1>5. more \in Seq(S) /\ Len(more) = h + 1
  BY <1>2, <1>4
<1>6. more[h + 1] = x
  BY <1>2, <1>4
<1>7. \A i \in 1..h : more[i] = lists[i]
  BY <1>2, <1>4
<1>8. more = [i \in 1..(h + 1) |-> more[i]]
  BY <1>5
<1>. QED
  BY <1>5, <1>6, <1>7, <1>8

\* The search of a run that meets no foreign id lists the best of its own.
LEMMA OwnBest ==
  ASSUME NEW p \in Procs, NEW r, r = run[p], NEW q \in Vector, NEW rows \in Seq(Vector),
         DOMAIN r.keys \subseteq 1..Len(rows), ~Foreign(p, Best(q, rows, DOMAIN rows))
  PROVE  KeysOf(p, Best(q, rows, DOMAIN rows)) = KeyList(r.keys, Best(q, rows, DOMAIN r.keys))
<1>1. PICK T : T = DOMAIN rows
  OBVIOUS
<1>2. T = 1..Len(rows)
  BY <1>1
<1>3. PICK two : two = Best(q, rows, T)
  OBVIOUS
<1>4. ~Foreign(p, two)
  BY <1>1, <1>3
<1>5. \A i \in DOMAIN two : two[i] \in DOMAIN r.keys
  <2>1. ToSet(two) \subseteq DOMAIN r.keys
    BY <1>4 DEF Foreign
  <2>. QED
    BY <2>1 DEF ToSet
<1>6. two = Best(q, rows, DOMAIN r.keys)
  <2>1. PICK S : S = DOMAIN r.keys
    OBVIOUS
  <2>2. S \in SUBSET T /\ T \in SUBSET (1..Len(rows))
    BY <1>2, <2>1
  <2>3. \A i \in DOMAIN Best(q, rows, T) : Best(q, rows, T)[i] \in S
    BY <1>3, <1>5, <2>1
  <2>4. Best(q, rows, T) = Best(q, rows, S)
    BY <2>2, <2>3, BestOfMore
  <2>. QED
    BY <1>3, <2>1, <2>4
<1>7. KeysOf(p, two) = KeyList(r.keys, two)
  <2>1. \A i \in DOMAIN two : KeyAt(r.keys, two[i]) = r.keys[two[i]]
    BY <1>5 DEF KeyAt
  <2>2. KeysOf(p, two) = [i \in DOMAIN two |-> KeyAt(r.keys, two[i])]
    BY DEF KeysOf
  <2>3. KeyList(r.keys, two) = [i \in DOMAIN two |-> r.keys[two[i]]]
    BY DEF KeyList
  <2>. QED
    BY <2>1, <2>2, <2>3
<1>. QED
  BY <1>1, <1>3, <1>6, <1>7

\* The lists of a run after a round, and the run, at the stage z.
NextLists(r, new) == IF r.round = 1 THEN Append(r.lists, new) ELSE r.lists

NextRound(r, new, u, z) ==
  LET last == r.round = Rounds
  IN  /\ IsRun(u) /\ u.set = r.set /\ u.keys = r.keys /\ u.vectors = r.vectors
      /\ u.since = r.since /\ u.lists = NextLists(r, new)
      /\ u.round = IF last THEN 1 ELSE r.round + 1
      /\ u.at = IF last THEN r.at + 1 ELSE r.at
      /\ z = IF last /\ r.at + 1 = Len(r.set.queries) THEN "report" ELSE "search"

\* The new list is that of its own rows.
ListOf(p, r, d, new) ==
  d.maker = p => new = KeyList(r.keys, Best(r.vectors[r.at + 1], d.rows, DOMAIN r.keys))

\* The end of a round.
LEMMA RoundFits ==
  ASSUME NEW p \in Procs, NEW t, NEW r, NEW d, NEW w \in Nat,
         RunInv(p, "vector", "idle", t, r, d, w), NEW k, NEW new, ListOf(p, r, d, new), IsList(new),
         NEW z, NEW u, NextRound(r, new, u, z)
  PROVE  RunInv(p, z, "idle", k, u, d, w)
<1>1. /\ Shape(p, "vector", "idle", r, w) /\ Progress("vector", "idle", r) /\ Keyed("vector", r)
      /\ Asked("vector", r, ModelOf[p], w) /\ (d.maker = p => Stored("vector", r, d, w))
  BY DEF RunInv
<1>2. /\ "vector" \in Filled /\ "vector" \in Begun /\ "search" \in Filled /\ "report" \in Filled
      /\ "search" \in Begun /\ "report" \in Begun /\ "search" \in Stages /\ "report" \in Stages
  BY DEF Begun, Stages, Filled, Embeds
<1>2a. PICK a, round : /\ round = IF r.round = Rounds THEN 1 ELSE r.round + 1
                       /\ a = IF r.round = Rounds THEN r.at + 1 ELSE r.at
  OBVIOUS
<1>2b. z = IF r.round = Rounds /\ r.at + 1 = Len(r.set.queries) THEN "report" ELSE "search"
  BY Zenon DEF NextRound
<1>3. z \in {"search", "report"} /\ z \in Filled /\ z \in Begun /\ z \in Stages
  BY <1>2, <1>2b
<1>4. PICK set \in SetsOf[p] : set = r.set
  BY <1>1, <1>2 DEF Shape
<1>5. PICK m \in Nat : m = Len(set.queries)
  BY Counts
<1>6. PICK n \in Nat : n = r.at /\ n < m /\ Len(r.vectors) = m
  BY <1>1, <1>4, <1>5 DEF Progress, Shape
<1>7. PICK h \in Nat : /\ h = Len(r.lists) /\ h = IF r.round = 1 THEN n ELSE n + 1
                       /\ r.lists = [i \in 1..h |-> r.lists[i]]
  BY <1>1, <1>6 DEF Progress
<1>8. PICK lists : lists = NextLists(r, new)
  OBVIOUS
<1>9. /\ Len(lists) = n + 1 /\ lists = [i \in 1..(n + 1) |-> lists[i]]
      /\ \A i \in 1..h : lists[i] = r.lists[i]
      /\ h # n + 1 => h = n /\ lists[n + 1] = new
  <2>1. CASE r.round = 1
    <3>1. lists = Append(r.lists, new)
      BY <1>8, <2>1 DEF NextLists
    <3>2. /\ Len(lists) = h + 1 /\ lists = [i \in 1..(h + 1) |-> lists[i]] /\ lists[h + 1] = new
          /\ \A i \in 1..h : lists[i] = r.lists[i]
      BY <1>7, <3>1, OneListMore
    <3>3. h = n
      BY <1>7, <2>1
    <3>. QED
      BY <3>2, <3>3
  <2>2. CASE r.round # 1
    <3>1. lists = r.lists
      BY <1>8, <2>2 DEF NextLists
    <3>2. h = n + 1
      BY <1>7, <2>2
    <3>. QED
      BY <1>7, <3>1, <3>2
  <2>. QED
    BY <2>1, <2>2
<1>10. /\ u.set = r.set /\ u.keys = r.keys /\ u.vectors = r.vectors /\ u.at = a
       /\ u.round = round /\ u.lists = lists /\ u.since = r.since /\ IsRun(u)
  BY <1>8, <1>2a, Zenon DEF NextRound
<1>11. a \in Nat /\ round \in 1..Rounds
  <2>1. r.round \in 1..Rounds /\ Rounds \in Nat \ {0}
    BY <1>1, EvaluationAssumption DEF Shape
  <2>2. a \in Nat
    BY <1>6, <1>2a
  <2>. QED
    BY <1>2a, <2>1, <2>2
<1>12. Shape(p, z, "idle", u, w)
  <2>1. z \notin {"start", "failed"}
    BY <1>3
  <2>. QED
    BY <1>1, <1>2, <1>3, <1>10, <1>11, <2>1 DEF Shape
<1>13. Progress(z, "idle", u)
  <2>1. z = "report" => a = m /\ n + 1 = m
    BY <1>4, <1>5, <1>6, <1>2a, <1>2b
  <2>2. z = "search" => a < m
    BY <1>4, <1>5, <1>6, <1>2a, <1>2b
  <2>3. n + 1 = IF round = 1 THEN a ELSE a + 1
    <3>1. r.round \in 1..Rounds /\ Rounds \in Nat \ {0}
      BY <1>1, EvaluationAssumption DEF Shape
    <3>2. n \in Nat /\ n = r.at
      BY <1>6
    <3>. QED
      BY <1>2a, <3>1, <3>2
  <2>4. ASSUME NEW i \in 1..(n + 1) PROVE IsList(lists[i])
    <3>1. CASE i \in 1..h
      BY <1>1, <1>7, <1>9, <3>1 DEF Progress
    <3>2. CASE i \notin 1..h
      BY <1>6, <1>7, <1>9, <3>2
    <3>. QED
      BY <3>1, <3>2
  <2>. QED
    <3>1. PICK has \in Nat : has = n + 1 /\ has = Len(u.lists)
      BY <1>9, <1>10
    <3>2. u.lists = [i \in 1..has |-> u.lists[i]]
      BY <1>9, <1>10, <3>1
    <3>3. \A i \in 1..has : IsList(u.lists[i])
      BY <1>10, <2>4, <3>1
    <3>4. z = "report" => u.at = m
      BY <1>10, <2>1
    <3>5. z = "search" => u.at < m /\ has = IF u.round = 1 THEN u.at ELSE u.at + 1
      BY <1>10, <2>2, <2>3, <3>1
    <3>6. z = "report" => has = m
      BY <2>1, <3>1
    <3>7. Len(u.vectors) = m /\ Len(u.set.queries) = m
      BY <1>4, <1>5, <1>6, <1>10
    <3>. QED
      BY <1>3, <3>1, <3>2, <3>3, <3>4, <3>5, <3>6, <3>7 DEF Progress
<1>14. Keyed(z, u)
  BY <1>1, <1>2, <1>3, <1>10 DEF Keyed
<1>15. ~Dated(z, u)
  BY <1>3 DEF Dated
<1>16. \A y : Recent(y, r, w) = Recent(y, u, w)
  BY <1>10 DEF Recent
<1>17. Asked(z, u, ModelOf[p], w)
  BY <1>1, <1>10, <1>15, <1>16 DEF Asked
<1>18. ASSUME d.maker = p PROVE Stored(z, u, d, w)
  <2>1. Stored("vector", r, d, w)
    BY <1>1, <1>18
  <2>2. ASSUME NEW i \in 1..(n + 1)
        PROVE  lists[i] = KeyList(r.keys, Best(r.vectors[i], d.rows, DOMAIN r.keys))
    <3>1. CASE i \in 1..h
      BY <1>7, <1>9, <2>1, <3>1 DEF Stored
    <3>2. CASE i \notin 1..h
      <4>1. i = n + 1 /\ h # n + 1
        BY <1>7, <3>2
      <4>. QED
        BY <1>6, <1>9, <1>18, <4>1 DEF ListOf
    <3>. QED
      BY <3>1, <3>2
  <2>3. \A i \in 1..Len(u.lists) :
          u.lists[i] = KeyList(u.keys, Best(u.vectors[i], d.rows, DOMAIN u.keys))
    BY <1>9, <1>10, <2>2
  <2>. QED
    BY <1>10, <1>15, <1>16, <2>1, <2>3 DEF Stored
<1>19. InCall(z, "idle", k, u, w) /\ Halfway(p, z, u, ModelOf[p], d, w)
  BY <1>3 DEF InCall, Halfway
<1>. QED
  BY <1>12, <1>13, <1>14, <1>17, <1>18, <1>19 DEF RunInv

\* The lane with the vector of before.
LEMMA SearchVectorStep ==
  ASSUME EvalInv, Inv', NEW p \in Procs, SearchVector(p)
  PROVE  EvalInv'
<1>1. /\ stage[p] = "vector" /\ pc[p] = "idle" /\ pc' = pc /\ task' = task /\ weights' = weights
      /\ db' = db
  BY Idle DEF SearchVector, vars, Embeds
<1>2. ASSUME NEW why, Quit(p, why) PROVE EvalInv'
  <2>1. /\ pc'[p] = "idle" /\ weights' = weights
        /\ \A q \in Procs \ {p} : pc'[q] = pc[q] /\ task'[q] = task[q]
    BY <1>1
  <2>. QED
    BY <1>1, <1>2, <2>1, QuitStep
<1>3. PICK r : r = run[p]
  OBVIOUS
<1>4. PICK w \in Nat : w = weights[ModelOf[p]]
  BY RunFacts
<1>5. PICK d : d = db[DbOf[p]] /\ Base(d)
  BY RunFacts
<1>6. RunInv(p, "vector", "idle", task[p], r, d, w)
  BY <1>1, <1>3, <1>4, <1>5, RunFacts
<1>7. PICK one, two : one = r.listed /\ two = Best(r.vectors[r.at + 1], d.rows, DOMAIN d.rows)
  OBVIOUS
<1>8. two = Listing(p, r.vectors[r.at + 1])
  BY <1>5, <1>7 DEF Listing, Db
<1>9. \/ \E why : Quit(p, why)
      \/ ~Foreign(p, two) /\ KeysOf(p, one) = KeysOf(p, two) /\ RoundDone(p, one)
  BY <1>3, <1>7, <1>8, Zenon DEF SearchVector, LanesDiffer
<1>10. CASE ~Foreign(p, two) /\ KeysOf(p, one) = KeysOf(p, two) /\ RoundDone(p, one)
  <2>1. PICK new : new = KeysOf(p, one)
    OBVIOUS
  <2>2. /\ Shape(p, "vector", "idle", r, w) /\ Progress("vector", "idle", r)
        /\ Asked("vector", r, ModelOf[p], w) /\ (d.maker = p => Stored("vector", r, d, w))
    BY <1>6 DEF RunInv
  <2>2a. PICK q \in Vector : q = r.vectors[r.at + 1] /\ d.rows \in Seq(Vector)
    <3>1. "vector" \in Begun
      BY DEF Begun, Stages, Embeds
    <3>2. PICK set \in SetsOf[p] : set = r.set
      BY <2>2, <3>1 DEF Shape
    <3>3. PICK m \in Nat : m = Len(set.queries)
      BY Counts
    <3>4. r.at \in Nat /\ Len(r.vectors) = m /\ r.at < m /\ r.vectors \in Seq(Vector)
      BY <2>2, <3>2, <3>3 DEF Progress, Shape, Asked
    <3>. QED
      BY <1>5, <3>4 DEF Base
  <2>2b. IsList(new)
    <3>1. PICK T \in SUBSET (1..Len(d.rows)) : T = DOMAIN d.rows
      BY <2>2a
    <3>2. PICK n \in Nat : two = [i \in 1..n |-> two[i]]
      <4>1. two = Best(q, d.rows, T)
        BY <1>7, <2>2a, <3>1
      <4>2. \E n \in Nat : Best(q, d.rows, T) = [i \in 1..n |-> Best(q, d.rows, T)[i]]
        BY <2>2a, BestAt
      <4>. QED
        BY <4>1, <4>2
    <3>3. DOMAIN two = 1..n
      BY <3>2
    <3>4. new = [i \in 1..n |-> KeyAt(run[p].keys, two[i])]
      BY <1>10, <2>1, <3>3 DEF KeysOf
    <3>5. new = [i \in 1..n |-> new[i]]
      BY <3>4
    <3>. QED
      BY <3>5 DEF IsList
  <2>3. ASSUME d.maker = p
        PROVE  new = KeyList(r.keys, Best(r.vectors[r.at + 1], d.rows, DOMAIN r.keys))
    <3>1. DOMAIN r.keys \subseteq 1..Len(d.rows)
      BY <2>2, <2>3 DEF Stored
    <3>2. d.rows \in Seq(Vector)
      BY <1>5 DEF Base
    <3>8. ~Foreign(p, Best(q, d.rows, DOMAIN d.rows))
      BY <1>7, <1>10, <2>2a
    <3>9. KeysOf(p, Best(q, d.rows, DOMAIN d.rows)) = KeyList(r.keys, Best(q, d.rows, DOMAIN r.keys))
      BY <1>3, <2>2a, <3>1, <3>2, <3>8, OwnBest
    <3>. QED
      BY <1>7, <1>10, <2>1, <2>2a, <3>9
  <2>4. PICK round : round = IF r.round = Rounds THEN 1 ELSE r.round + 1
    OBVIOUS
  <2>5. PICK a, lists : /\ a = IF r.round = Rounds THEN r.at + 1 ELSE r.at
                        /\ lists = NextLists(r, new)
    OBVIOUS
  <2>6. PICK z : z = IF r.round = Rounds /\ r.at + 1 = Len(r.set.queries) THEN "report" ELSE "search"
    OBVIOUS
  <2>7. PICK u : u = [r EXCEPT !.listed = <<>>, !.lists = lists, !.round = round, !.at = a]
    OBVIOUS
  <2>8. PICK t : t = task'[p]
    OBVIOUS
  <2>9. RunInv(p, z, "idle", t, u, d, w)
    <3>1. PICK o : o = [set |-> r.set, keys |-> r.keys, vectors |-> r.vectors, at |-> r.at,
                        round |-> r.round, listed |-> r.listed, lists |-> r.lists,
                        since |-> r.since, digest |-> r.digest, why |-> r.why]
      OBVIOUS
    <3>2. o = r
      BY <2>2, <3>1 DEF Shape, IsRun
    <3>3. u = [o EXCEPT !.listed = <<>>, !.lists = lists, !.round = round, !.at = a]
      BY <2>7, <3>2
    <3>4. u = [set |-> r.set, keys |-> r.keys, vectors |-> r.vectors, at |-> a,
               round |-> round, listed |-> <<>>, lists |-> lists,
               since |-> r.since, digest |-> r.digest, why |-> r.why]
      BY <3>1, <3>3
    <3>5. /\ u.set = r.set /\ u.keys = r.keys /\ u.vectors = r.vectors /\ u.at = a
          /\ u.round = round /\ u.lists = lists /\ u.since = r.since
      BY <3>4
    <3>6. IsRun(u)
      BY <3>4 DEF IsRun
    <3>7. NextRound(r, new, u, z)
      BY <2>4, <2>5, <2>6, <3>5, <3>6, Zenon DEF NextRound
    <3>8. ListOf(p, r, d, new)
      BY <2>3, Zenon DEF ListOf
    <3>. QED
      BY <1>6, <2>2b, <3>7, <3>8, RoundFits
  <2>10. run' = [run EXCEPT ![p].listed = <<>>, ![p].lists = lists,
                            ![p].round = round, ![p].at = a]
    BY <1>3, <1>10, <2>1, <2>4, <2>5 DEF RoundDone, NextLists
  <2>11. run'[p] = u /\ DOMAIN run' = Procs /\ \A o \in Procs \ {p} : run'[o] = run[o]
    BY <1>3, <2>7, <2>10 DEF EvalInv
  <2>12. Enter(p, z) /\ z \in Stages
    BY <1>3, <1>10, <2>6 DEF RoundDone, Stages, Embeds
  <2>13. Only(p) /\ stage'[p] = z
    BY <1>1, <2>11, <2>12, EnterFacts DEF Only, EvalInv
  <2>. QED
    BY <1>1, <1>4, <1>5, <2>8, <2>9, <2>11, <2>13, OneRunAlone
<1>. QED
  BY <1>2, <1>9, <1>10


\* The report is written, with the digest there is or with none.
LEMMA WriteReportStep ==
  ASSUME EvalInv, Inv', NEW p \in Procs, WriteReport(p)
  PROVE  EvalInv'
<1>1. /\ stage[p] = "report" /\ pc[p] = "idle" /\ pc' = pc /\ task' = task /\ weights' = weights
      /\ db' = db
  BY Idle DEF WriteReport, vars, Embeds
<1>2. CASE Db(p).schema # "migrated"
  <2>1. Quit(p, "error")
    BY <1>2 DEF WriteReport
  <2>2. /\ pc'[p] = "idle" /\ weights' = weights
        /\ \A q \in Procs \ {p} : pc'[q] = pc[q] /\ task'[q] = task[q]
    BY <1>1
  <2>. QED
    BY <1>1, <2>1, <2>2, QuitStep
<1>3. CASE Db(p).schema = "migrated"
  <2>1. PICK r : r = run[p]
    OBVIOUS
  <2>2. PICK w \in Nat : w = weights[ModelOf[p]] /\ w \in 0..MaxPulls
    BY RunFacts
  <2>3. PICK d : d = db[DbOf[p]]
    OBVIOUS
  <2>4. RunInv(p, "report", "idle", task[p], r, d, w)
    BY <1>1, <2>1, <2>2, <2>3, RunFacts
  <2>5. /\ Shape(p, "report", "idle", r, w) /\ Progress("report", "idle", r)
        /\ Keyed("report", r) /\ Asked("report", r, ModelOf[p], w)
        /\ (d.maker = p => Stored("report", r, d, w))
    BY <2>4 DEF RunInv
  <2>6. /\ "report" \in Begun /\ "report" \in Filled /\ "done" \in Stages /\ "done" \in Begun
        /\ "done" \in Filled
    BY DEF Begun, Stages, Filled, Embeds
  <2>7. PICK g \in {w, NoDigest} : run' = [run EXCEPT ![p].digest = g]
    BY <1>3, <2>2 DEF WriteReport
  <2>8. PICK u : u = [r EXCEPT !.digest = g]
    OBVIOUS
  <2>9. run'[p] = u /\ DOMAIN run' = Procs /\ \A q \in Procs \ {p} : run'[q] = run[q]
    BY <2>1, <2>7, <2>8 DEF EvalInv
  <2>10. Enter(p, "done")
    BY <1>3 DEF WriteReport
  <2>11. Only(p) /\ stage'[p] = "done"
    BY <1>1, <2>6, <2>9, <2>10, EnterFacts DEF Only, EvalInv
  <2>12. /\ u.set = r.set /\ u.keys = r.keys /\ u.vectors = r.vectors /\ u.at = r.at
         /\ u.round = r.round /\ u.lists = r.lists /\ u.since = r.since /\ u.digest = g
         /\ IsRun(u)
    <3>1. PICK o : o = [set |-> r.set, keys |-> r.keys, vectors |-> r.vectors, at |-> r.at,
                        round |-> r.round, listed |-> r.listed, lists |-> r.lists,
                        since |-> r.since, digest |-> r.digest, why |-> r.why]
      OBVIOUS
    <3>2. o = r
      BY <2>5, <3>1 DEF Shape, IsRun
    <3>3. u = [o EXCEPT !.digest = g]
      BY <2>8, <3>2
    <3>4. u = [set |-> r.set, keys |-> r.keys, vectors |-> r.vectors, at |-> r.at,
               round |-> r.round, listed |-> r.listed, lists |-> r.lists,
               since |-> r.since, digest |-> g, why |-> r.why]
      BY <3>1, <3>3
    <3>. QED
      BY <3>4 DEF IsRun
  <2>13. r.since \in Nat /\ r.since <= w
    BY <2>5 DEF Shape
  <2>14. Dated("done", u) => r.since = w
    <3>1. NoDigest # r.since
      <4>1. MaxPulls \in Nat
        BY EmbeddingAssumption
      <4>2. r.since \in 0..MaxPulls
        BY <2>2, <2>13, <4>1
      <4>3. NoDigest \notin 0..MaxPulls
        BY EvaluationAssumption
      <4>. QED
        BY <4>2, <4>3
    <3>. QED
      BY <2>7, <2>12, <3>1 DEF Dated
  <2>15. \A y : Recent(y, r, w) = Recent(y, u, w)
    BY <2>12 DEF Recent
  <2>16. \A y : Dated("done", u) /\ Recent(y, r, w) => y.weights = r.since
    BY <2>13, <2>14 DEF Recent
  <2>17. Shape(p, "done", "idle", u, w)
    BY <2>5, <2>6, <2>12 DEF Shape
  <2>18. Progress("done", "idle", u)
    BY <2>5, <2>6, <2>12 DEF Progress
  <2>19. Keyed("done", u)
    BY <2>5, <2>6, <2>12 DEF Keyed
  <2>20. Asked("done", u, ModelOf[p], w)
    BY <2>5, <2>12, <2>15, <2>16 DEF Asked
  <2>21. ASSUME d.maker = p PROVE Stored("done", u, d, w)
    <3>1. Stored("report", r, d, w)
      BY <2>5, <2>21
    <3>2. \A id \in DOMAIN u.keys :
            /\ id \in 1..Len(d.rows)
            /\ \E e \in Entries(u.set) : e.key = u.keys[id] /\ e.text = d.rows[id].text
            /\ ~u.set.cached => Recent(d.rows[id], u, w)
      BY <2>12, <2>15, <3>1 DEF Stored
    <3>3. \A id \in DOMAIN u.keys :
            ~u.set.cached /\ Dated("done", u) => d.rows[id].weights = u.since
      BY <2>12, <2>15, <2>16, <3>2
    <3>4. \A n \in 1..Len(u.lists) :
            u.lists[n] = KeyList(u.keys, Best(u.vectors[n], d.rows, DOMAIN u.keys))
      BY <2>12, <3>1 DEF Stored
    <3>. QED
      BY <3>2, <3>3, <3>4 DEF Stored
  <2>22. PICK t : t = task'[p]
    OBVIOUS
  <2>23. RunInv(p, "done", "idle", t, u, d, w)
    BY <2>17, <2>18, <2>19, <2>20, <2>21 DEF RunInv, InCall, Halfway
  <2>. QED
    BY <1>1, <2>2, <2>3, <2>9, <2>11, <2>22, <2>23, OneRunAlone
<1>. QED
  BY <1>2, <1>3

\* A batch is put.
LEMMA PutSteps ==
  ASSUME EvalInv, Inv', NEW p \in Procs, PutCorpus(p) \/ PutDistractors(p)
  PROVE  EvalInv'
<1>1. CASE PutCorpus(p)
  <2>1. PICK items : items = Items("corpus", run[p])
    OBVIOUS
  <2>2. stage[p] = "corpus" /\ pc[p] = "ok" /\ Return(p) /\ PutBatch(p, items)
    BY <1>1, <2>1 DEF PutCorpus, Answers, Items
  <2>. QED
    BY <2>1, <2>2, PutStep
<1>2. CASE PutDistractors(p)
  <2>1. PICK items : items = Items("distractors", run[p])
    OBVIOUS
  <2>2. items = NextDistractors(p)
    BY <2>1 DEF Items, NextOf, NextDistractors
  <2>3. stage[p] = "distractors" /\ pc[p] = "ok" /\ Return(p) /\ PutBatch(p, items)
    BY <1>2, <2>2 DEF PutDistractors, Answers
  <2>. QED
    BY <2>1, <2>3, PutStep
<1>. QED
  BY <1>1, <1>2


-----------------------------------------------------------------------------
(* The invariant.                                                           *)

LEMMA EvalInvInit ==
  ASSUME EvalInit
  PROVE  EvalInv
<1>1. Inv
  BY InitInv DEF EvalInit
<1>2. <<>> \in Seq(Vector) /\ Len(<<>>) = 0
  BY Counts
<1>3. PICK none : /\ none = [d \in Databases |->
                                [schema |-> "absent", rows |-> <<>>, maker |-> Nobody]]
                  /\ db = none
  BY DEF EvalInit
<1>4. /\ DOMAIN db = Databases
      /\ \A d \in Databases : db[d] = [schema |-> "absent", rows |-> <<>>, maker |-> Nobody]
  BY <1>3
<1>5. ASSUME NEW d \in Databases PROVE Base(db[d])
  <2>1. PICK new : new = [schema |-> "absent", rows |-> <<>>, maker |-> Nobody]
    OBVIOUS
  <2>2. new = db[d]
    BY <1>4, <2>1
  <2>3. Base(new)
    BY <1>2, <2>1 DEF Base
  <2>. QED
    BY <2>2, <2>3
<1>6. stage \in [Procs -> Stages] /\ DOMAIN run = Procs
  BY DEF EvalInit, Stages
<1>7. ASSUME NEW p \in Procs
      PROVE  RunOf(p)
  <2>1. PICK r : r = Over("")
    OBVIOUS
  <2>2. run[p] = r /\ stage[p] = "start" /\ pc[p] = "idle"
    BY <2>1, OverIsNoRun DEF EvalInit, Init
  <2>3. ModelOf[p] \in Models
    BY DEF Models
  <2>4. weights[ModelOf[p]] \in Nat
    BY <1>1, <2>3, EmbeddingAssumption DEF Inv, WorldInv
  <2>5. PICK w \in Nat : w = weights[ModelOf[p]]
    BY <2>4
  <2>6. PICK s \in {"start", "failed"} : s = "start"
    OBVIOUS
  <2>7. RunInv(p, s, "idle", task[p], r, db[DbOf[p]], w)
    BY <2>1, NoRunFits
  <2>. QED
    BY <2>2, <2>5, <2>6, <2>7 DEF RunOf
<1>. QED
  BY <1>1, <1>4, <1>5, <1>6, <1>7 DEF EvalInv

LEMMA EvalInvNext ==
  ASSUME EvalInv, [EvalNext]_evalVars
  PROVE  EvalInv'
<1>1. Inv'
  BY EvaluationSteps, NextInv DEF EvalInv
<1>2. CASE UNCHANGED evalVars
  <2>1. UNCHANGED vars /\ UNCHANGED evaluation
    BY <1>2 DEF evalVars
  <2>. QED
    BY <1>1, <2>1 DEF EvalInv, RunOf, vars, evaluation
<1>3. ASSUME NEW p \in Procs, LoadInput(p) \/ Advance(p) \/ Die(p)
      PROVE  EvalInv'
  <2>1. CASE LoadInput(p)
    BY <1>1, <2>1, LoadInputStep
  <2>2. CASE Recreate(p)
    BY <1>1, <2>2, RecreateStep
  <2>3. CASE MigrateDb(p)
    BY <1>1, <2>3, MigrateDbStep
  <2>4. CASE AskEmbedder(p)
    BY <1>1, <2>4, AskEmbedderStep
  <2>5. CASE EmbedderFails(p) \/ GiveUp(p) \/ Die(p)
    BY <1>1, <2>5, EndSteps
  <2>6. CASE Step(p) /\ UNCHANGED evaluation
    BY <1>1, <2>6, EmbedderStep
  <2>7. CASE PutCorpus(p) \/ PutDistractors(p)
    BY <1>1, <2>7, PutSteps
  <2>8. CASE KeepVector(p)
    BY <1>1, <2>8, KeepVectorStep
  <2>9. CASE WarmUp(p)
    BY <1>1, <2>9, WarmUpStep
  <2>10. CASE Search(p)
    BY <1>1, <2>10, SearchStep
  <2>11. CASE SearchVector(p)
    BY <1>1, <2>11, SearchVectorStep
  <2>12. CASE WriteReport(p)
    BY <1>1, <2>12, WriteReportStep
  <2>. QED
    BY <1>3, <2>1, <2>2, <2>3, <2>4, <2>5, <2>6, <2>7, <2>8, <2>9, <2>10, <2>11, <2>12, Zenon
       DEF Advance
<1>4. ASSUME NEW m \in Models, Pull(m), UNCHANGED evaluation
      PROVE  EvalInv'
  BY <1>1, <1>4, PullStep
<1>. QED
  BY <1>2, <1>3, <1>4, Zenon DEF EvalNext

LEMMA EvalAlways == EvalSpec => []EvalInv
<1>. QED
  BY EvalInvInit, EvalInvNext, PTL DEF EvalSpec


-----------------------------------------------------------------------------
(* What follows.                                                            *)

\* For any processes, databases and files: an evaluation uses the embedder in no
\* other way than Embedding says (EmbedTexts, the requests of internal/eval).
THEOREM EvaluationEmbeds == EvalSpec => Spec
<1>1. EvalInit => Init
  BY DEF EvalInit
<1>2. EvalInv /\ [EvalNext]_evalVars => [Next]_vars
  BY EvaluationSteps
<1>. QED
  BY <1>1, <1>2, EvalAlways, PTL DEF EvalSpec, Spec

\* For any processes, databases and files: the answers of the embedder are in the
\* order of the texts in every evaluation, too (client.go Embed, run.go ingest).
THEOREM EvaluationAnswersInOrder == EvalSpec => []AnswersInOrder
  BY EvaluationEmbeds, AnswersAlwaysInOrder, PTL

\* For any processes, databases and files: ids have keys, and a measurement has a
\* vector for every query it has got to (run.go Measure, plan).
THEOREM EvaluationTypeCorrect == EvalSpec => []EvalTypeOK
<1>1. ASSUME EvalInv, TypeOK PROVE EvalTypeOK
  <2>1. \A d \in Databases :
          /\ db[d].schema \in {"absent", "empty", "migrated"}
          /\ db[d].rows \in Seq(Vector) /\ db[d].maker \in Procs \cup {Nobody}
    BY <1>1 DEF EvalInv, Base
  <2>2. ASSUME NEW p \in Procs, NEW r, r = run[p]
        PROVE  /\ DOMAIN r.keys \subseteq Nat /\ r.vectors \in Seq(Vector)
               /\ r.round \in 1..Rounds /\ r.since \in 0..MaxPulls
               /\ stage[p] \in {"warmup", "search", "vector", "report"} =>
                    Len(r.vectors) = Len(r.set.queries) /\ r.at <= Len(r.set.queries)
    <3>1. PICK w \in 0..MaxPulls : w = weights[ModelOf[p]]
      BY <1>1, RunFacts
    <3>2. PICK s : s = stage[p]
      OBVIOUS
    <3>3. /\ Shape(p, s, pc[p], r, w) /\ Progress(s, pc[p], r) /\ Keyed(s, r)
          /\ Asked(s, r, ModelOf[p], w)
      BY <1>1, <2>2, <3>1, <3>2, RunFacts DEF RunInv
    <3>4. r.since \in 0..MaxPulls
      BY <3>1, <3>3, EmbeddingAssumption DEF Shape
    <3>5. ASSUME s \in {"warmup", "search", "vector", "report"}
          PROVE  Len(r.vectors) = Len(r.set.queries) /\ r.at <= Len(r.set.queries)
      <4>1. s \in Begun
        BY <3>5 DEF Begun, Stages, Embeds
      <4>2. PICK set \in SetsOf[p] : set = r.set
        BY <3>3, <4>1 DEF Shape
      <4>3. PICK m \in Nat : m = Len(set.queries)
        BY Counts
      <4>4. r.at \in Nat
        BY <3>3 DEF Shape
      <4>. QED
        BY <3>3, <3>5, <4>2, <4>3, <4>4 DEF Progress
    <3>6. DOMAIN r.keys \subseteq Nat /\ r.vectors \in Seq(Vector) /\ r.round \in 1..Rounds
      BY <3>3 DEF Shape, Keyed, Asked
    <3>. QED
      BY <3>2, <3>4, <3>5, <3>6
  <2>3. stage \in [Procs -> Stages]
    BY <1>1 DEF EvalInv
  <2>. QED
    BY <1>1, <2>1, <2>2, <2>3 DEF EvalTypeOK
<1>2. EvalSpec => []TypeOK
  BY EvaluationEmbeds, TypeCorrect, PTL
<1>. QED
  BY <1>1, <1>2, EvalAlways, PTL

\* For any processes, databases, files and changes of weights: the digest in a report
\* is that of its query vectors, and without a cache of its rows, when it is that of
\* the start (cmd/eval environment).
THEOREM DigestsAreOfWeights == EvalSpec => []DigestIsOfWeights
<1>1. ASSUME EvalInv PROVE DigestIsOfWeights
  <2>1. ASSUME NEW p \in Procs, NEW r, r = run[p], NEW d, d = db[DbOf[p]],
               stage[p] = "done", r.digest = r.since
        PROVE  /\ \A n \in DOMAIN r.vectors : r.vectors[n].weights = r.digest
               /\ ~r.set.cached /\ d.maker = p =>
                    \A id \in DOMAIN r.keys : d.rows[id].weights = r.digest
    <3>1. PICK w : w = weights[ModelOf[p]]
      OBVIOUS
    <3>2. RunInv(p, "done", pc[p], task[p], r, d, w)
      BY <1>1, <2>1, <3>1, RunFacts
    <3>3. Asked("done", r, ModelOf[p], w) /\ (d.maker = p => Stored("done", r, d, w))
      BY <3>2 DEF RunInv
    <3>4. Dated("done", r)
      BY <2>1 DEF Dated
    <3>5. DOMAIN r.vectors = 1..Len(r.vectors)
      BY <3>3 DEF Asked
    <3>6. \A n \in DOMAIN r.vectors : r.vectors[n].weights = r.digest
      BY <2>1, <3>3, <3>4, <3>5 DEF Asked
    <3>7. ~r.set.cached /\ d.maker = p =>
            \A id \in DOMAIN r.keys : d.rows[id].weights = r.digest
      BY <2>1, <3>3, <3>4 DEF Stored
    <3>. QED
      BY <3>6, <3>7
  <2>. QED
    BY <2>1 DEF DigestIsOfWeights, Own, Db
<1>. QED
  BY <1>1, EvalAlways, PTL

\* The least member of a non-empty set of naturals is a member of it, and the least.
LEMMA MinOfNaturals ==
  ASSUME NEW S, S \subseteq Nat, S # {}
  PROVE  Min(S) \in S /\ \A y \in S : Min(S) <= y
<1>1. PICK x \in S : \A y \in S : ~(<<y, x>> \in OpToRel(<, Nat))
  BY NatLessThanWellFounded, WFMin, Zenon
<1>2. ASSUME NEW y \in S PROVE x =< y
  <2>1. x \in Nat /\ y \in Nat
    OBVIOUS
  <2>2. ~(y < x)
    <3>1. (y < x) => <<y, x>> \in OpToRel(<, Nat)
      BY <2>1 DEF OpToRel
    <3>. QED
      BY <1>1, <3>1
  <2>. QED
    BY <2>1, <2>2
<1>. QED
  BY <1>2 DEF Min

\* A key that is listed has a rank.
LEMMA ListedIsRanked ==
  ASSUME NEW list, DOMAIN list \subseteq Nat, NEW i \in DOMAIN list
  PROVE  RankOf(list, list[i]) # Unranked
<1>1. PICK at : at = {j \in DOMAIN list : list[j] = list[i]}
  OBVIOUS
<1>2. at \subseteq Nat /\ at # {} 
  BY <1>1
<1>3. Min(at) \in Nat
  BY <1>2, MinOfNaturals
<1>4. RankOf(list, list[i]) = Min(at)
  BY <1>1, <1>2 DEF RankOf
<1>. QED
  BY <1>3, <1>4, MetricsAssumption

\* A short list is of all there are.
LEMMA ShortListsAll ==
  ASSUME NEW q \in Vector, NEW rows \in Seq(Vector), NEW S \in SUBSET (1..Len(rows)), NEW a \in S,
         Len(Best(q, rows, S)) # Limit
  PROVE  \E i \in DOMAIN Best(q, rows, S) : Best(q, rows, S)[i] = a
<1>1. PICK best : best = Best(q, rows, S)
  OBVIOUS
<1>2. PICK n \in Nat :
        /\ n = Smaller(Limit, Cardinality(S)) /\ n <= Cardinality(S) /\ n <= Limit
        /\ n < Limit => n = Cardinality(S)
        /\ best = [i \in 1..n |-> best[i]]
        /\ \A i \in 1..n : best[i] \in S
        /\ \A i \in 1..n : \A b \in S : Cardinality(Ahead(q, rows, S, b)) = i - 1 => best[i] = b
  BY <1>1, BestAt
<1>3. Len(best) = n /\ DOMAIN best = 1..n
  <2>1. best \in [1..n -> S]
    BY <1>2
  <2>2. best \in Seq(S)
    BY <2>1
  <2>. QED
    BY <2>1, <2>2
<1>4. Limit \in Nat
  BY EvaluationAssumption
<1>5. n = Cardinality(S)
  BY <1>1, <1>2, <1>3, <1>4
<1>6. PICK c \in Nat : c = Cardinality(Ahead(q, rows, S, a)) /\ c < n
  BY <1>5, PlacesDiffer
<1>7. c + 1 \in 1..n /\ (c + 1) - 1 = c
  BY <1>6
<1>8. best[c + 1] = a
  BY <1>2, <1>6, <1>7
<1>. QED
  BY <1>1, <1>3, <1>7, <1>8

\* A key is of one entry of the files.
LEMMA OneEntry ==
  ASSUME NEW p \in Procs, NEW set \in SetsOf[p], ValidSet(set), PassageKeys(set) \cap Reserved = {},
         NEW a \in Entries(set), NEW b \in Entries(set), a.key = b.key
  PROVE  a = b
<1>1. PICK P : P = set.passages
  OBVIOUS
<1>2. PICK D : D = set.distractors
  OBVIOUS
<1>3. \A i \in DOMAIN D : D[i].key \in Reserved
  BY <1>2, EvaluationAssumption
<1>4. \A i, j \in DOMAIN P : P[i].key = P[j].key => i = j
  BY <1>1 DEF ValidSet, ValidPassages, AllDistinct
<1>5. \A i, j \in DOMAIN D : D[i].key = D[j].key => i = j
  BY <1>2 DEF ValidSet, ValidDistractors, AllDistinct
<1>6. \A i \in DOMAIN P : P[i].key \notin Reserved
  BY <1>1 DEF PassageKeys
<1>7. \A e \in Entries(set) : (\E i \in DOMAIN P : e = P[i]) \/ (\E i \in DOMAIN D : e = D[i])
  BY <1>1, <1>2 DEF Entries, ToSet
<1>. QED
  BY <1>3, <1>4, <1>5, <1>6, <1>7


\* The lists of a run are of its rows in the database.
Truthful(p, r, d) ==
  /\ \A id \in DOMAIN r.keys : TextOf(p, r.keys[id]) = {d.rows[id].text}
  /\ \A n \in DOMAIN r.set.queries :
       LET best == Best(r.vectors[n], d.rows, DOMAIN r.keys)
       IN  /\ r.lists[n] = [i \in DOMAIN best |-> r.keys[best[i]]]
           /\ \A i \in DOMAIN QueryReport(r.set.queries[n], r.lists[n]).ranks :
                QueryReport(r.set.queries[n], r.lists[n]).ranks[i].rank = Unranked
                  => Len(best) = Limit

\* For any processes, databases and files: a report on a database that nobody has
\* recreated meanwhile is about this run's rows (run.go rankedEntries, ingest;
\* ADR 0013: the mapping from ids to keys).
THEOREM ReportsAreTrue == EvalSpec => []ReportIsTrue
<1>1. ASSUME EvalInv, NEW p \in Procs, NEW r, r = run[p], NEW d, d = db[DbOf[p]],
             stage[p] = "done", d.maker = p
      PROVE  Truthful(p, r, d)
  <2>1. PICK w : w = weights[ModelOf[p]]
    OBVIOUS
  <2>2. RunInv(p, "done", pc[p], task[p], r, d, w) /\ d.rows \in Seq(Vector)
    BY <1>1, <2>1, RunFacts DEF Base
  <2>3. /\ Shape(p, "done", pc[p], r, w) /\ Progress("done", pc[p], r) /\ Keyed("done", r)
        /\ Asked("done", r, ModelOf[p], w) /\ Stored("done", r, d, w)
    BY <1>1, <2>2 DEF RunInv
  <2>4. "done" \in Begun /\ "done" \in Filled
    BY DEF Begun, Stages, Filled, Embeds
  <2>5. PICK set \in SetsOf[p] : set = r.set /\ ValidSet(set)
    BY <2>3, <2>4 DEF Shape
  <2>6. PassageKeys(set) \cap Reserved = {}
    BY <2>3, <2>4, <2>5 DEF Keyed
  <2>7. PICK m \in Nat : m = Len(set.queries)
    BY Counts
  <2>8. Len(r.vectors) = m /\ Len(r.lists) = m /\ r.vectors \in Seq(Vector)
    BY <2>3, <2>5, <2>7 DEF Progress, Asked
  <2>9. ASSUME NEW id \in DOMAIN r.keys
        PROVE  TextOf(p, r.keys[id]) = {d.rows[id].text}
    <3>1. PICK e \in Entries(set) : e.key = r.keys[id] /\ e.text = d.rows[id].text
      BY <2>3, <2>5 DEF Stored
    <3>2. \A a \in Entries(set) : a.key = r.keys[id] => a = e
      BY <2>5, <2>6, <3>1, OneEntry
    <3>3. TextOf(p, r.keys[id]) = {a.text : a \in {a \in Entries(set) : a.key = r.keys[id]}}
      BY <1>1, <2>5 DEF TextOf, Entries
    <3>. QED
      BY <3>1, <3>2, <3>3
  <2>10. ASSUME NEW n \in DOMAIN set.queries, NEW best, best = Best(r.vectors[n], d.rows, DOMAIN r.keys)
         PROVE  /\ r.lists[n] = [i \in DOMAIN best |-> r.keys[best[i]]]
                /\ \A i \in DOMAIN QueryReport(set.queries[n], r.lists[n]).ranks :
                     QueryReport(set.queries[n], r.lists[n]).ranks[i].rank = Unranked
                       => Len(best) = Limit
    <3>1. n \in 1..m
      BY <2>7, SetFacts
    <3>2. PICK q \in Vector : q = r.vectors[n]
      BY <2>8, <3>1
    <3>3. PICK list : list = [i \in DOMAIN best |-> r.keys[best[i]]]
      OBVIOUS
    <3>4. r.lists[n] = list
      BY <2>3, <2>8, <2>10, <3>1, <3>3 DEF Stored, KeyList
    <3>5. PICK query : query = set.queries[n]
      OBVIOUS
    <3>6. ASSUME NEW i \in DOMAIN query.relevant, Len(best) # Limit
          PROVE  RankOf(list, query.relevant[i]) # Unranked
      <4>1. PICK key : key = query.relevant[i]
        OBVIOUS
      <4>2. key \in PassageKeys(set)
        <5>1. ValidQuery(set, query)
          BY <2>5, <3>5 DEF ValidSet
        <5>. QED
          BY <4>1, <5>1 DEF ValidQuery, ToSet
      <4>3. PICK id \in DOMAIN r.keys : r.keys[id] = key
        BY <2>3, <2>4, <2>5, <4>2 DEF Keyed, PassageKeys
      <4>4. DOMAIN r.keys \subseteq 1..Len(d.rows)
        BY <2>3 DEF Stored
      <4>5. PICK j \in DOMAIN best : best[j] = id
        BY <2>2, <2>10, <3>2, <3>6, <4>4, ShortListsAll
      <4>6. DOMAIN list = DOMAIN best /\ list[j] = key
        BY <3>3, <4>3, <4>5
      <4>7. DOMAIN best \subseteq Nat
        BY <2>10 DEF Best
      <4>. QED
        BY <4>1, <4>6, <4>7, ListedIsRanked
    <3>7. \A i \in DOMAIN QueryReport(query, list).ranks :
            /\ i \in DOMAIN query.relevant
            /\ QueryReport(query, list).ranks[i].rank = RankOf(list, query.relevant[i])
      BY DEF QueryReport
    <3>. QED
      BY <3>3, <3>4, <3>5, <3>6, <3>7
  <2>. QED
    BY <2>5, <2>9, <2>10, Zenon DEF Truthful
<1>2. ASSUME EvalInv PROVE ReportIsTrue
  <2>1. \A p \in Procs : stage[p] = "done" /\ Db(p).maker = p => Truthful(p, run[p], Db(p))
    BY <1>1, <1>2 DEF Db
  <2>. QED
    BY <2>1, Zenon DEF ReportIsTrue, Own, Truthful
<1>. QED
  BY <1>2, EvalAlways, PTL


\* What an evaluation says at its end that no other run of it would say.
LEMMA QuitSays ==
  ASSUME EvalInv, NEW p \in Procs, NEW why, Quit(p, why)
  PROVE  run'[p].why = why
<1>1. run'[p] = Over(why)
  BY QuitFacts
<1>. QED
  BY <1>1 DEF Over

\* A run fails by a step of its own that quits.
LEMMA FailsByQuit ==
  ASSUME EvalInv, [EvalNext]_evalVars, NEW p \in Procs, stage[p] # "failed", stage'[p] = "failed"
  PROVE  \/ \E why \in {"input", "error"} : Quit(p, why)
         \/ PutCorpus(p) \/ PutDistractors(p) \/ SearchVector(p)
<1>1. ASSUME NEW q \in Procs, NEW s, Enter(q, s)
      PROVE  stage'[p] = IF q = p THEN s ELSE stage[p]
  BY <1>1 DEF Enter, EvalInv
<1>2. ASSUME NEW q \in Procs, NEW s, Enter(q, s) PROVE q = p /\ s = "failed"
  BY <1>1, <1>2
<1>3. stage' # stage
  OBVIOUS
<1>4. PICK q \in Procs : LoadInput(q) \/ Advance(q) \/ Die(q)
  BY <1>3 DEF EvalNext, evalVars, evaluation
<1>5. \A why : Quit(q, why) => q = p /\ Quit(p, why)
  BY <1>2 DEF Quit
<1>6. CASE LoadInput(q)
  <2>1. (\E s : s = "create" /\ Enter(q, s)) \/ (\E why : why = "input" /\ Quit(q, why))
    BY <1>6 DEF LoadInput
  <2>. QED
    BY <1>2, <1>5, <2>1
<1>7. CASE Recreate(q)
  <2>1. (\E s : s = "migrate" /\ Enter(q, s)) \/ (\E why : why = "error" /\ Quit(q, why))
    BY <1>7 DEF Recreate
  <2>. QED
    BY <1>2, <1>5, <2>1
<1>8. CASE MigrateDb(q)
  <2>1. (\E s : s = "corpus" /\ Enter(q, s)) \/ (\E why : why = "error" /\ Quit(q, why))
    BY <1>8 DEF MigrateDb
  <2>. QED
    BY <1>2, <1>5, <2>1
<1>9. CASE AskEmbedder(q)
  <2>1. (\E why : why = "input" /\ Quit(q, why)) \/ UNCHANGED evaluation
    BY <1>9 DEF AskEmbedder
  <2>. QED
    BY <1>3, <1>5, <2>1 DEF evaluation
<1>10. CASE EmbedderFails(q) \/ GiveUp(q)
  <2>1. \E why : why = "error" /\ Quit(q, why)
    BY <1>10 DEF EmbedderFails, GiveUp
  <2>. QED
    BY <1>5, <2>1
<1>11. CASE Step(q) /\ UNCHANGED evaluation
  BY <1>3, <1>11 DEF evaluation
<1>12. CASE PutCorpus(q) \/ PutDistractors(q)
  <2>1. q = p
    <3>1. \E s : Enter(q, s)
      BY <1>12, Zenon DEF PutCorpus, PutDistractors, PutBatch, Quit
    <3>. QED
      BY <1>2, <3>1
  <2>. QED
    BY <1>12, <2>1
<1>13. CASE KeepVector(q)
  <2>1. Enter(q, NextQuery(q, "warmup").stage) /\ stage[q] = "queries"
    BY <1>13 DEF KeepVector, Answers
  <2>2. NextQuery(q, "warmup").stage = "failed"
    BY <1>2, <2>1
  <2>. QED
    BY <2>1, <2>2 DEF NextQuery
<1>14. CASE WarmUp(q)
  <2>1. \/ \E why : why = "error" /\ Quit(q, why)
        \/ Enter(q, NextQuery(q, "search").stage) /\ stage[q] = "warmup"
    BY <1>14 DEF WarmUp, Answers
  <2>2. CASE Enter(q, NextQuery(q, "search").stage) /\ stage[q] = "warmup"
    <3>1. NextQuery(q, "search").stage = "failed"
      BY <1>2, <2>2
    <3>. QED
      BY <2>2, <3>1 DEF NextQuery
  <2>. QED
    BY <1>5, <2>1, <2>2
<1>15. CASE Search(q)
  <2>1. (\E s : s = "vector" /\ Enter(q, s)) \/ (\E why : why = "error" /\ Quit(q, why))
    BY <1>15 DEF Search
  <2>. QED
    BY <1>2, <1>5, <2>1
<1>16. CASE SearchVector(q)
  <2>1. q = p
    <3>1. \E s : Enter(q, s)
      BY <1>16, Zenon DEF SearchVector, LanesDiffer, RoundDone, Quit
    <3>. QED
      BY <1>2, <3>1
  <2>. QED
    BY <1>16, <2>1
<1>17. CASE WriteReport(q)
  <2>1. (\E s : s = "done" /\ Enter(q, s)) \/ (\E why : why = "error" /\ Quit(q, why))
    BY <1>17 DEF WriteReport
  <2>. QED
    BY <1>2, <1>5, <2>1
<1>18. CASE Die(q)
  <2>1. \E s : s = "start" /\ Enter(q, s)
    BY <1>18 DEF Die
  <2>. QED
    BY <1>2, <2>1
<1>. QED
  BY <1>4, <1>6, <1>7, <1>8, <1>9, <1>10, <1>11, <1>12, <1>13, <1>14, <1>15, <1>16, <1>17, <1>18,
     Zenon DEF Advance

\* An id comes twice only where somebody else has recreated the database.
LEMMA TwiceForCause ==
  ASSUME EvalInv, NEW p \in Procs, NEW s \in {"corpus", "distractors"}, s = stage[p],
         NEW items, items = Items(s, run[p]), PutBatch(p, items), Db(p).maker = p
  PROVE  \/ Quit(p, "error") \/ \E z \in {"distractors", "queries"} : Enter(p, z)
<1>1. PICK r : r = run[p]
  OBVIOUS
<1>2. PICK d : d = Db(p) /\ d = db[DbOf[p]]
  BY DEF Db
<1>3. Base(d) /\ Stored(s, r, d, weights[ModelOf[p]])
  BY <1>1, <1>2, RunFacts DEF RunInv
<1>4. PICK l \in Nat : l = Len(d.rows)
  BY <1>3 DEF Base
<1>5. PICK n \in Nat : DOMAIN items = 1..n
  BY <1>1, ItemFacts
<1>6. {IdOf(p, i) : i \in DOMAIN items} \cap DOMAIN run[p].keys = {}
  <2>1. \A i \in DOMAIN items : IdOf(p, i) = l + i
    BY <1>2, <1>4 DEF IdOf
  <2>2. \A id \in DOMAIN r.keys : id \in 1..l
    BY <1>3, <1>4 DEF Stored
  <2>. QED
    BY <1>1, <1>4, <1>5, <2>1, <2>2
<1>7. Quit(p, "error") \/ \E at : Enter(p, AfterIngest(p, at))
  BY <1>6, Zenon DEF PutBatch
<1>8. \A at : AfterIngest(p, at) \in {"distractors", "queries"}
  BY DEF AfterIngest
<1>. QED
  BY <1>7, <1>8, Zenon

\* The database is that of the run alone.
Alone(p, r, d) == d.maker = p /\ Len(d.rows) = Cardinality(DOMAIN r.keys)

\* A run that is alone has the ids of all the rows.
LEMMA AllAreOwn ==
  ASSUME NEW p, NEW s, NEW r, NEW d, NEW w, Base(d), Stored(s, r, d, w), Alone(p, r, d)
  PROVE  DOMAIN r.keys = 1..Len(d.rows)
<1>1. PICK S : S = DOMAIN r.keys
  OBVIOUS
<1>2. PICK l \in Nat : l = Len(d.rows)
  BY DEF Base
<1>3. S \in SUBSET (1..l)
  BY <1>1, <1>2 DEF Stored
<1>4. IsFiniteSet(1..l) /\ Cardinality(1..l) = l
  BY FS_Interval
<1>5. Cardinality(S) = Cardinality(1..l)
  BY <1>1, <1>2, <1>4 DEF Alone
<1>6. S = 1..l
  BY <1>3, <1>4, <1>5, FS_Subset
<1>. QED
  BY <1>1, <1>2, <1>6

\* What a search lists are ids of those it has searched.
LEMMA BestAreOf ==
  ASSUME NEW q \in Vector, NEW rows \in Seq(Vector), NEW S \in SUBSET (1..Len(rows))
  PROVE  ToSet(Best(q, rows, S)) \subseteq S
<1>1. PICK best : best = Best(q, rows, S)
  OBVIOUS
<1>2. PICK n \in Nat : best = [i \in 1..n |-> best[i]] /\ \A i \in 1..n : best[i] \in S
  BY <1>1, BestAt
<1>3. DOMAIN best = 1..n
  BY <1>2
<1>. QED
  BY <1>1, <1>2, <1>3 DEF ToSet

\* Of a run that is alone both lanes list ids it knows, and the same ones while there
\* are no other weights.
LEMMA LanesForCause ==
  ASSUME EvalInv, NEW p \in Procs, stage[p] = "vector", NEW r, r = run[p],
         NEW d, d = db[DbOf[p]], Alone(p, r, d), NEW two,
         two = Best(r.vectors[r.at + 1], d.rows, DOMAIN d.rows)
  PROVE  /\ ~Foreign(p, r.listed) /\ ~Foreign(p, two)
         /\ weights[ModelOf[p]] = r.since => r.listed = two
<1>1. PICK w \in Nat : w = weights[ModelOf[p]]
  BY RunFacts
<1>2. Base(d) /\ RunInv(p, "vector", pc[p], task[p], r, d, w)
  BY <1>1, RunFacts
<1>3. /\ Shape(p, "vector", pc[p], r, w) /\ Progress("vector", pc[p], r)
      /\ Asked("vector", r, ModelOf[p], w) /\ Stored("vector", r, d, w)
      /\ Halfway(p, "vector", r, ModelOf[p], d, w)
  BY <1>2 DEF RunInv, Alone
<1>4. PICK l \in Nat : l = Len(d.rows) /\ d.rows \in Seq(Vector) /\ DOMAIN d.rows = 1..l
  BY <1>2 DEF Base
<1>5. DOMAIN r.keys = 1..l
  BY <1>2, <1>3, <1>4, AllAreOwn
<1>6. PICK v \in Vector, n \in 0..l :
        /\ Good(v, r.set.queries[r.at + 1].text, ModelOf[p]) /\ Recent(v, r, w)
        /\ DOMAIN r.keys \subseteq 1..n /\ r.listed = Best(v, d.rows, 1..n)
  <2>1. d.maker = p
    BY DEF Alone
  <2>. QED
    BY <1>3, <1>4, <2>1 DEF Halfway
<1>7. n = l
  <2>1. CASE l = 0
    BY <1>6, <2>1
  <2>2. CASE l # 0
    <3>1. l \in 1..l
      BY <2>2
    <3>2. l \in 1..n
      BY <1>5, <1>6, <3>1
    <3>. QED
      BY <1>6, <3>2
  <2>. QED
    BY <2>1, <2>2
<1>8. "vector" \in Begun
  BY DEF Begun, Stages, Embeds
<1>9. PICK set \in SetsOf[p] : set = r.set
  BY <1>3, <1>8 DEF Shape
<1>10. PICK m \in Nat : m = Len(set.queries)
  BY Counts
<1>11. PICK k \in Nat : k = r.at + 1 /\ k \in 1..m /\ Len(r.vectors) = m /\ r.vectors \in Seq(Vector)
  <2>1. r.at \in Nat /\ Len(r.vectors) = m /\ r.at < m /\ r.vectors \in Seq(Vector)
    BY <1>3, <1>9, <1>10 DEF Progress, Shape, Asked
  <2>2. r.at + 1 \in Nat /\ r.at + 1 \in 1..m
    BY <2>1
  <2>. QED
    BY <2>1, <2>2
<1>12. PICK q \in Vector : q = r.vectors[k]
  BY <1>11
<1>13. Good(q, set.queries[k].text, ModelOf[p]) /\ Recent(q, r, w)
  BY <1>3, <1>9, <1>11, <1>12 DEF Asked
<1>14. ToSet(r.listed) \subseteq 1..l /\ ToSet(two) \subseteq 1..l
  <2>1. 1..l \in SUBSET (1..Len(d.rows))
    BY <1>4
  <2>2. ToSet(Best(v, d.rows, 1..l)) \subseteq 1..l
    BY <1>4, <2>1, BestAreOf
  <2>3. ToSet(Best(q, d.rows, 1..l)) \subseteq 1..l
    BY <1>4, <2>1, BestAreOf
  <2>. QED
    BY <1>4, <1>6, <1>7, <1>11, <1>12, <2>2, <2>3
<1>15. ~Foreign(p, r.listed) /\ ~Foreign(p, two)
  BY <1>5, <1>14 DEF Foreign
<1>16. ASSUME w = r.since PROVE r.listed = two
  <2>1. v.weights = w /\ q.weights = w
    BY <1>6, <1>13, <1>16 DEF Recent
  <2>2. v = q
    BY <1>6, <1>9, <1>11, <1>13, <2>1 DEF Good, Vector
  <2>. QED
    BY <1>4, <1>6, <1>7, <1>11, <1>12, <2>2
<1>. QED
  BY <1>1, <1>15, <1>16


\* For any processes, databases, files and changes of weights: an evaluation that does
\* not believe its lists has been disturbed, or there are other weights than when it
\* began (run.go measureQuery, rankedEntries, ingest).
THEOREM FailuresHaveCauses == EvalSpec => FailsForCause
<1>1. ASSUME EvalInv, [EvalNext]_evalVars, NEW p \in Procs, stage[p] # "failed",
             stage'[p] = "failed", NEW r, r = run[p], NEW d, d = db[DbOf[p]], NEW why,
             why = run'[p].why
      PROVE  /\ why \in {"foreign", "twice"} => ~Alone(p, r, d)
             /\ why = "diverged" => ~Alone(p, r, d) \/ weights[ModelOf[p]] # r.since
  <2>1. ASSUME NEW z \in Stages \ {"failed"}, Enter(p, z) PROVE FALSE
    <3>1. stage'[p] = z
      BY <1>1, <2>1, EnterFacts
    <3>. QED
      BY <1>1, <3>1
  <2>2. ASSUME NEW x, Quit(p, x) PROVE why = x
    BY <1>1, <2>2, QuitSays
  <2>3. CASE \E x \in {"input", "error"} : Quit(p, x)
    <3>1. why \in {"input", "error"}
      BY <2>2, <2>3
    <3>. QED
      BY <3>1
  <2>4. ASSUME NEW s \in {"corpus", "distractors"}, s = stage[p], NEW items, items = Items(s, run[p]),
               PutBatch(p, items)
        PROVE  why \in {"error", "twice"} /\ (Alone(p, r, d) => why = "error")
    <3>1. \/ Quit(p, "error") \/ Quit(p, "twice") \/ \E at : Enter(p, AfterIngest(p, at))
      BY <2>4, Zenon DEF PutBatch
    <3>2. \A at : AfterIngest(p, at) \in Stages \ {"failed"}
      BY DEF AfterIngest, Stages, Embeds
    <3>3. Quit(p, "error") \/ Quit(p, "twice")
      BY <2>1, <3>1, <3>2
    <3>4. why \in {"error", "twice"}
      BY <2>2, <3>3
    <3>5. ASSUME Alone(p, r, d) PROVE why = "error"
      <4>1. Db(p).maker = p
        BY <1>1, <3>5 DEF Alone, Db
      <4>2. Quit(p, "error") \/ \E z \in {"distractors", "queries"} : Enter(p, z)
        BY <1>1, <2>4, <4>1, TwiceForCause
      <4>3. "distractors" \in Stages \ {"failed"} /\ "queries" \in Stages \ {"failed"}
        BY DEF Stages, Embeds
      <4>4. Quit(p, "error")
        BY <2>1, <4>2, <4>3
      <4>. QED
        BY <2>2, <4>4
    <3>. QED
      BY <3>4, <3>5
  <2>5. CASE PutCorpus(p)
    <3>1. PICK items : items = Items("corpus", run[p])
      OBVIOUS
    <3>2. stage[p] = "corpus" /\ PutBatch(p, items)
      BY <2>5, <3>1 DEF PutCorpus, Answers, Items
    <3>. QED
      BY <2>4, <3>1, <3>2
  <2>6. CASE PutDistractors(p)
    <3>1. PICK items : items = Items("distractors", run[p])
      OBVIOUS
    <3>2. items = NextDistractors(p)
      BY <3>1 DEF Items, NextOf, NextDistractors
    <3>3. stage[p] = "distractors" /\ PutBatch(p, items)
      BY <2>6, <3>2 DEF PutDistractors, Answers
    <3>. QED
      BY <2>4, <3>1, <3>3
  <2>7. CASE SearchVector(p)
    <3>1. stage[p] = "vector"
      BY <2>7 DEF SearchVector
    <3>2. PICK two : two = Best(r.vectors[r.at + 1], d.rows, DOMAIN d.rows)
      OBVIOUS
    <3>3. two = Listing(p, run[p].vectors[run[p].at + 1])
      BY <1>1, <3>2 DEF Listing, Db
    <3>4. \/ Quit(p, "error")
          \/ (Foreign(p, r.listed) \/ Foreign(p, two)) /\ Quit(p, "foreign")
          \/ KeysOf(p, r.listed) # KeysOf(p, two) /\ Quit(p, "diverged")
          \/ RoundDone(p, r.listed)
      BY <1>1, <2>7, <3>3, Zenon DEF SearchVector, LanesDiffer
    <3>5. ~RoundDone(p, r.listed)
      <4>1. RoundDone(p, r.listed) => \E z \in {"report", "search"} : Enter(p, z)
        BY DEF RoundDone
      <4>2. "report" \in Stages \ {"failed"} /\ "search" \in Stages \ {"failed"}
        BY DEF Stages, Embeds
      <4>. QED
        BY <2>1, <4>1, <4>2
    <3>6. ASSUME Alone(p, r, d)
          PROVE  /\ ~Foreign(p, r.listed) /\ ~Foreign(p, two)
                 /\ weights[ModelOf[p]] = r.since => r.listed = two
      BY <1>1, <3>1, <3>2, <3>6, LanesForCause
    <3>7. CASE Quit(p, "error")
      <4>1. why = "error"
        BY <2>2, <3>7
      <4>. QED
        BY <4>1
    <3>8. CASE (Foreign(p, r.listed) \/ Foreign(p, two)) /\ Quit(p, "foreign")
      <4>1. why = "foreign"
        BY <2>2, <3>8
      <4>2. ~Alone(p, r, d)
        BY <3>6, <3>8
      <4>. QED
        BY <4>1, <4>2
    <3>9. CASE KeysOf(p, r.listed) # KeysOf(p, two) /\ Quit(p, "diverged")
      <4>1. why = "diverged"
        BY <2>2, <3>9
      <4>2. ~(r.listed = two)
        BY <3>9
      <4>3. ~Alone(p, r, d) \/ weights[ModelOf[p]] # r.since
        BY <3>6, <4>2
      <4>. QED
        BY <4>1, <4>3
    <3>. QED
      BY <3>4, <3>5, <3>7, <3>8, <3>9
  <2>. QED
    BY <1>1, <2>3, <2>5, <2>6, <2>7, FailsByQuit, Zenon
<1>2. ASSUME EvalInv, [EvalNext]_evalVars
      PROVE  \A p \in Procs :
               stage[p] # "failed" /\ stage'[p] = "failed" =>
                 LET disturbed == Db(p).maker # p \/ Len(Db(p).rows) # Cardinality(Own(p))
                     why == run'[p].why
                 IN  /\ why \in {"foreign", "twice"} => disturbed
                     /\ why = "diverged" => disturbed \/ weights[ModelOf[p]] # run[p].since
  BY <1>1, <1>2, Zenon DEF Alone, Db, Own
<1>. QED
  BY <1>2, EvalAlways, PTL DEF EvalSpec, FailsForCause


-----------------------------------------------------------------------------
(* The numbers of one list.                                                 *)

\* The relevant keys that are among the first k of the list, by their position.
HitsAt(ranked, relevant, k) ==
  {i \in DOMAIN relevant : relevant[i] \in ToSet(SubSeq(ranked, 1, Min({k, Len(ranked)})))}

\* A rank is the first place of a key.
LEMMA RankIsFirst ==
  ASSUME NEW S, NEW ranked \in Seq(S), NEW key
  PROVE  /\ RankOf(ranked, key) # Unranked =>
              /\ RankOf(ranked, key) \in DOMAIN ranked /\ RankOf(ranked, key) \in Nat
              /\ ranked[RankOf(ranked, key)] = key
         /\ \A j \in DOMAIN ranked : ranked[j] = key =>
              RankOf(ranked, key) # Unranked /\ RankOf(ranked, key) <= j
<1>1. PICK at : at = {j \in DOMAIN ranked : ranked[j] = key}
  OBVIOUS
<1>2. at \subseteq Nat /\ at \subseteq DOMAIN ranked
  BY <1>1
<1>3. RankOf(ranked, key) = IF at = {} THEN Unranked ELSE Min(at)
  BY <1>1 DEF RankOf
<1>4. CASE at = {}
  BY <1>1, <1>3, <1>4
<1>5. CASE at # {}
  <2>1. PICK n : n = RankOf(ranked, key)
    OBVIOUS
  <2>2. n \in at /\ \A j \in at : n <= j
    BY <1>2, <1>3, <1>5, <2>1, MinOfNaturals
  <2>3. n # Unranked
    BY <1>2, <2>2, MetricsAssumption
  <2>. QED
    BY <1>1, <1>2, <2>1, <2>2, <2>3
<1>. QED
  BY <1>4, <1>5

\* What is among the first k.
LEMMA TopOf ==
  ASSUME NEW S, NEW ranked \in Seq(S), NEW k \in Nat, NEW key
  PROVE  key \in ToSet(SubSeq(ranked, 1, Min({k, Len(ranked)})))
           <=> \E j \in DOMAIN ranked : j <= k /\ ranked[j] = key
<1>1. PICK l \in Nat : l = Len(ranked) /\ DOMAIN ranked = 1..l
  OBVIOUS
<1>2. PICK m \in Nat : m = Min({k, l}) /\ m <= k /\ m <= l /\ (m = k \/ m = l)
  <2>1. {k, l} \subseteq Nat /\ {k, l} # {}
    OBVIOUS
  <2>2. Min({k, l}) \in {k, l} /\ \A y \in {k, l} : Min({k, l}) <= y
    BY <2>1, MinOfNaturals
  <2>. QED
    BY <2>2
<1>3. PICK top : top = SubSeq(ranked, 1, m)
  OBVIOUS
<1>4. DOMAIN top = 1..m /\ \A j \in 1..m : top[j] = ranked[j]
  <2>1. \A i \in 1..m : ranked[i] \in S
    BY <1>1, <1>2
  <2>2. 1 \in Int /\ m \in Int
    OBVIOUS
  <2>3. /\ top \in Seq(S) /\ Len(top) = (IF 1 <= m THEN m - 1 + 1 ELSE 0)
        /\ \A i \in 1..(m - 1 + 1) : top[i] = ranked[1 + i - 1]
    <3>1. /\ SubSeq(ranked, 1, m) \in Seq(S)
          /\ Len(SubSeq(ranked, 1, m)) = (IF 1 <= m THEN m - 1 + 1 ELSE 0)
          /\ \A i \in 1..(m - 1 + 1) : SubSeq(ranked, 1, m)[i] = ranked[1 + i - 1]
      BY <2>1, <2>2, SubSeqProperties
    <3>. QED
      BY <1>3, <3>1, Zenon
  <2>4. Len(top) = m
    BY <2>3
  <2>5. \A i \in 1..m : i \in 1..(m - 1 + 1) /\ 1 + i - 1 = i
    OBVIOUS
  <2>. QED
    BY <2>3, <2>4, <2>5
<1>5. ToSet(top) = {top[j] : j \in 1..m}
  BY <1>4 DEF ToSet
<1>6. key \in ToSet(top) <=> \E j \in 1..m : ranked[j] = key
  BY <1>4, <1>5
<1>7. \A j : j \in 1..m <=> (j \in 1..l /\ j <= k)
  BY <1>2
<1>. QED
  BY <1>1, <1>2, <1>3, <1>6, <1>7

\* A key is hit where its rank is.
LEMMA HitByRank ==
  ASSUME NEW S, NEW ranked \in Seq(S), NEW relevant, NEW k \in Nat, NEW i \in DOMAIN relevant
  PROVE  i \in HitsAt(ranked, relevant, k)
           <=> /\ RankOf(ranked, relevant[i]) # Unranked
               /\ RankOf(ranked, relevant[i]) <= k
<1>1. PICK key : key = relevant[i]
  OBVIOUS
<1>2. i \in HitsAt(ranked, relevant, k) <=> \E j \in DOMAIN ranked : j <= k /\ ranked[j] = key
  BY <1>1, TopOf DEF HitsAt
<1>3. PICK n : n = RankOf(ranked, key)
  OBVIOUS
<1>4. /\ n # Unranked => n \in DOMAIN ranked /\ n \in Nat /\ ranked[n] = key
      /\ \A j \in DOMAIN ranked : ranked[j] = key => n # Unranked /\ n <= j
  BY <1>3, RankIsFirst
<1>5. ASSUME NEW j \in DOMAIN ranked, j <= k, ranked[j] = key PROVE n # Unranked /\ n <= k
  <2>1. n # Unranked /\ n <= j /\ n \in Nat /\ j \in Nat
    BY <1>4, <1>5
  <2>. QED
    BY <1>5, <2>1
<1>. QED
  BY <1>1, <1>2, <1>3, <1>4, <1>5

\* The ranks there are.
RanksOf(ranked, relevant) == {RankOf(ranked, relevant[i]) : i \in DOMAIN relevant} \ {Unranked}

\* As many keys are hit as there are ranks that far.
LEMMA HitsCount ==
  ASSUME NEW S, NEW ranked \in Seq(S), NEW T, NEW relevant \in Seq(T), AllDistinct(relevant),
         NEW k \in Nat
  PROVE  /\ IsFiniteSet(HitsAt(ranked, relevant, k))
         /\ Cardinality(HitsAt(ranked, relevant, k)) =
              Cardinality({n \in RanksOf(ranked, relevant) : n <= k})
<1>1. PICK H : H = HitsAt(ranked, relevant, k)
  OBVIOUS
<1>2. PICK R : R = {n \in RanksOf(ranked, relevant) : n <= k}
  OBVIOUS
<1>3. IsFiniteSet(H)
  <2>1. PICK l \in Nat : l = Len(relevant) /\ DOMAIN relevant = 1..l
    OBVIOUS
  <2>2. H \in SUBSET (1..l)
    BY <1>1, <2>1 DEF HitsAt
  <2>3. IsFiniteSet(1..l)
    BY FS_Interval
  <2>. QED
    BY <2>2, <2>3, FS_Subset
<1>4. PICK f : f = [i \in H |-> RankOf(ranked, relevant[i])]
  OBVIOUS
<1>5. ASSUME NEW i \in DOMAIN relevant
      PROVE  i \in H <=> RankOf(ranked, relevant[i]) # Unranked /\ RankOf(ranked, relevant[i]) <= k
  BY <1>1, HitByRank
<1>6. H \subseteq DOMAIN relevant
  BY <1>1 DEF HitsAt
<1>7. \A i \in H : f[i] \in R
  BY <1>2, <1>4, <1>5, <1>6 DEF RanksOf
<1>8. \A n \in R : \E i \in H : f[i] = n
  BY <1>2, <1>4, <1>5, <1>6 DEF RanksOf
<1>9. ASSUME NEW i \in H, NEW j \in H, f[i] = f[j] PROVE i = j
  <2>1. PICK n : n = RankOf(ranked, relevant[i]) /\ n = RankOf(ranked, relevant[j])
    BY <1>4, <1>9
  <2>2. n # Unranked
    BY <1>5, <1>6, <2>1
  <2>3. ranked[n] = relevant[i]
    BY <2>1, <2>2, RankIsFirst
  <2>4. ranked[n] = relevant[j]
    BY <2>1, <2>2, RankIsFirst
  <2>. QED
    BY <1>6, <2>3, <2>4 DEF AllDistinct
<1>10. f \in [H -> R]
  BY <1>4, <1>7
<1>11. f \in Bijection(H, R)
  BY <1>8, <1>9, <1>10 DEF Bijection, Injection, Surjection, IsInjective
<1>12. ExistsBijection(H, R)
  BY <1>11 DEF ExistsBijection
<1>13. Cardinality(R) = Cardinality(H)
  BY <1>3, <1>12, FS_Bijection
<1>. QED
  BY <1>1, <1>2, <1>3, <1>13

LEMMA FirstIsLeastRank ==
  ASSUME NEW S, NEW ranked \in Seq(S), NEW relevant
  PROVE  LET places == RanksOf(ranked, relevant)
             first == FirstRelevantRank(ranked, relevant)
         IN  /\ places = {} => first = Unranked
             /\ places # {} => first # Unranked /\ first = Min(places)
<1>1. PICK places : places = RanksOf(ranked, relevant)
  OBVIOUS
<1>2. PICK at : at = {i \in DOMAIN ranked : ranked[i] \in ToSet(relevant)}
  OBVIOUS
<1>3. FirstRelevantRank(ranked, relevant) = IF at = {} THEN Unranked ELSE Min(at)
  BY <1>2 DEF FirstRelevantRank
<1>4. at \subseteq Nat
  BY <1>2
<1>5. ASSUME NEW n \in places PROVE n \in at
  <2>1. PICK i \in DOMAIN relevant : n = RankOf(ranked, relevant[i]) /\ n # Unranked
    BY <1>1 DEF RanksOf
  <2>2. PICK key : key = relevant[i]
    OBVIOUS
  <2>3. n \in DOMAIN ranked /\ ranked[n] = key
    BY <2>1, <2>2, RankIsFirst
  <2>. QED
    BY <1>2, <2>1, <2>2, <2>3 DEF ToSet
<1>6. ASSUME NEW j \in at PROVE \E n \in places : n <= j
  <2>1. PICK i \in DOMAIN relevant : relevant[i] = ranked[j] /\ j \in DOMAIN ranked
    BY <1>2 DEF ToSet
  <2>2. PICK n : n = RankOf(ranked, relevant[i])
    OBVIOUS
  <2>3. PICK key : key = relevant[i] /\ n = RankOf(ranked, key) /\ ranked[j] = key
    BY <2>1, <2>2
  <2>4. n # Unranked /\ n <= j
    BY <2>1, <2>3, RankIsFirst
  <2>. QED
    BY <1>1, <2>2, <2>4 DEF RanksOf
<1>7. CASE places = {}
  <2>1. at = {}
    BY <1>6, <1>7
  <2>. QED
    BY <1>1, <1>3, <1>7, <2>1
<1>8. CASE places # {}
  <2>1. at # {} /\ places \subseteq Nat
    BY <1>4, <1>5, <1>8
  <2>2. PICK a : a = Min(at) /\ a \in at /\ a \in Nat /\ \A y \in at : a <= y
    BY <1>4, <2>1, MinOfNaturals
  <2>3. PICK b : b = Min(places) /\ b \in places /\ b \in Nat /\ \A y \in places : b <= y
    BY <1>8, <2>1, MinOfNaturals
  <2>4. a <= b
    BY <1>5, <2>2, <2>3
  <2>5. PICK n \in places : n <= a
    BY <1>6, <2>2
  <2>6. b <= a
    BY <2>1, <2>2, <2>3, <2>5
  <2>7. a = b
    BY <2>2, <2>3, <2>4, <2>6
  <2>8. a # Unranked
    BY <2>2, MetricsAssumption
  <2>. QED
    BY <1>1, <1>3, <1>8, <2>1, <2>2, <2>3, <2>7, <2>8
<1>. QED
  BY <1>7, <1>8


\* For all lists and all relevant keys that differ: recall at k counts the ranks up to
\* k, never falls with k and is all there is when every relevant key is that far; the
\* reciprocal rank is that of the least rank (metrics.go RecallAt, RankOf,
\* ReciprocalRank; run.go newQueryReport).
THEOREM EveryListAgrees ==
  ASSUME NEW S, NEW ranked \in Seq(S), NEW T, NEW query, query.relevant \in Seq(T),
         query.relevant # <<>>, AllDistinct(query.relevant)
  PROVE  ListAgrees(query, ranked)
<1>1. PICK relevant \in Seq(T) : relevant = query.relevant /\ relevant # <<>> /\ AllDistinct(relevant)
  OBVIOUS
<1>2. PICK l \in Nat : l = Len(relevant) /\ DOMAIN relevant = 1..l
  OBVIOUS
<1>3. PICK report : report = QueryReport(query, ranked)
  OBVIOUS
<1>4. PICK places : places = {r.rank : r \in ToSet(report.ranks)} \ {Unranked}
  OBVIOUS
<1>5. places = RanksOf(ranked, relevant)
  <2>1. PICK ranks : ranks = [i \in DOMAIN relevant |->
                                [key |-> relevant[i], rank |-> RankOf(ranked, relevant[i])]]
    OBVIOUS
  <2>2. report.ranks = ranks
    BY <1>1, <1>3, <2>1 DEF QueryReport
  <2>3. ToSet(ranks) = {ranks[i] : i \in DOMAIN relevant}
    BY <2>1 DEF ToSet
  <2>4. \A i \in DOMAIN relevant : ranks[i].rank = RankOf(ranked, relevant[i])
    BY <2>1
  <2>. QED
    BY <1>4, <2>2, <2>3, <2>4 DEF RanksOf
<1>6. \A k \in KValues : k \in Nat \ {0}
  BY MetricsAssumption
<1>7. ASSUME NEW k \in KValues
      PROVE  report.recall[k] = <<Cardinality(HitsAt(ranked, relevant, k)), l>>
  <2>1. report.recall[k] = RecallAt(ranked, relevant, k)
    BY <1>1, <1>3 DEF QueryReport
  <2>2. ~(relevant = <<>> \/ k < 1)
    BY <1>1, <1>6
  <2>3. RecallAt(ranked, relevant, k) = <<Cardinality(HitsAt(ranked, relevant, k)), l>>
    BY <1>2, <2>2, Zenon DEF RecallAt, Quantify, HitsAt
  <2>. QED
    BY <2>1, <2>3
<1>8. ASSUME NEW k \in KValues
      PROVE  /\ IsFiniteSet(HitsAt(ranked, relevant, k))
             /\ Cardinality(HitsAt(ranked, relevant, k)) = Cardinality({n \in places : n <= k})
  BY <1>1, <1>5, <1>6, HitsCount
<1>9. ASSUME NEW k \in KValues, NEW j \in KValues, j <= k
      PROVE  report.recall[j][1] <= report.recall[k][1]
  <2>1. PICK H : H = HitsAt(ranked, relevant, k)
    OBVIOUS
  <2>2. PICK G : G = HitsAt(ranked, relevant, j)
    OBVIOUS
  <2>3. G \in SUBSET H
    <3>1. ASSUME NEW i \in G PROVE i \in H
      <4>1. i \in DOMAIN relevant
        BY <2>2 DEF HitsAt
      <4>2. PICK n : n = RankOf(ranked, relevant[i])
        OBVIOUS
      <4>3. n # Unranked /\ n <= j
        BY <1>6, <2>2, <4>1, <4>2, HitByRank
      <4>4. n \in Nat
        BY <4>2, <4>3, RankIsFirst
      <4>5. n <= k
        BY <1>6, <1>9, <4>3, <4>4
      <4>. QED
        BY <1>6, <2>1, <4>1, <4>2, <4>3, <4>5, HitByRank
    <3>. QED
      BY <3>1
  <2>4. IsFiniteSet(H)
    BY <1>8, <2>1
  <2>5. Cardinality(G) <= Cardinality(H)
    BY <2>3, <2>4, FS_Subset
  <2>6. report.recall[j] = <<Cardinality(G), l>> /\ report.recall[k] = <<Cardinality(H), l>>
    BY <1>7, <2>1, <2>2
  <2>. QED
    BY <2>5, <2>6
<1>10. ASSUME NEW k \in KValues, NEW top, top = SubSeq(ranked, 1, Min({k, Len(ranked)}))
       PROVE  report.recall[k][1] = report.recall[k][2] <=> ToSet(relevant) \subseteq ToSet(top)
  <2>1. PICK H : H = HitsAt(ranked, relevant, k)
    OBVIOUS
  <2>2. H = {i \in 1..l : relevant[i] \in ToSet(top)}
    BY <1>2, <1>10, <2>1 DEF HitsAt
  <2>3. IsFiniteSet(1..l) /\ Cardinality(1..l) = l
    BY FS_Interval
  <2>4. H \in SUBSET (1..l)
    BY <2>2
  <2>5. Cardinality(H) = l <=> H = 1..l
    BY <2>3, <2>4, FS_Subset
  <2>6. H = 1..l <=> ToSet(relevant) \subseteq ToSet(top)
    <3>1. ToSet(relevant) = {relevant[i] : i \in 1..l}
      BY <1>2 DEF ToSet
    <3>. QED
      BY <2>2, <3>1
  <2>7. report.recall[k] = <<Cardinality(H), l>>
    BY <1>7, <2>1
  <2>8. report.recall[k][1] = Cardinality(H) /\ report.recall[k][2] = l
    BY <2>7
  <2>. QED
    BY <2>5, <2>6, <2>8
<1>11. PICK first : first = FirstRelevantRank(ranked, relevant)
  OBVIOUS
<1>12. /\ places = {} => first = Unranked
       /\ places # {} => first # Unranked /\ first = Min(places)
  BY <1>5, <1>11, FirstIsLeastRank
<1>13. report.reciprocal = IF first = Unranked THEN <<0, 1>> ELSE <<1, first>>
  <2>1. report.reciprocal = ReciprocalRank(ranked, relevant)
    BY <1>1, <1>3 DEF QueryReport
  <2>. QED
    BY <1>11, <2>1 DEF ReciprocalRank
<1>14. places = {} <=> report.reciprocal = <<0, 1>>
  <2>1. <<0, 1>> # <<1, first>>
    OBVIOUS
  <2>. QED
    BY <1>12, <1>13, <2>1
<1>15. places # {} => report.reciprocal = <<1, Min(places)>>
  BY <1>12, <1>13
<1>16. ASSUME NEW k \in KValues
       PROVE  LET value == report.recall[k]
              IN  /\ value = <<Cardinality({n \in places : n <= k}), Len(query.relevant)>>
                  /\ \A j \in KValues : j <= k => report.recall[j][1] <= value[1]
                  /\ (value[1] = value[2]) <=>
                       ToSet(query.relevant) \subseteq ToSet(SubSeq(ranked, 1, Min({k, Len(ranked)})))
  BY <1>1, <1>2, <1>7, <1>8, <1>9, <1>10, Zenon
<1>. QED
  BY <1>3, <1>4, <1>14, <1>15, <1>16, Zenon DEF ListAgrees

-----------------------------------------------------------------------------
(* Induction.  The theorems of the library take an operator; here what is   *)
(* proved by induction is a set, and the least that is not in it is looked  *)
(* at.                                                                      *)

LEMMA NaturalsBySteps ==
  ASSUME NEW T, 0 \in T, \A n \in Nat : n \in T => n + 1 \in T
  PROVE  Nat \subseteq T
<1>1. PICK B : B = Nat \ T
  OBVIOUS
<1>2. ASSUME B # {} PROVE FALSE
  <2>1. PICK b : b = Min(B) /\ b \in B /\ \A y \in B : b <= y
    BY <1>1, <1>2, MinOfNaturals
  <2>2. b \in Nat /\ b \notin T /\ b # 0
    BY <1>1, <2>1
  <2>3. b - 1 \in Nat /\ (b - 1) + 1 = b /\ ~(b <= b - 1)
    BY <2>2
  <2>4. b - 1 \in T
    BY <1>1, <2>1, <2>3
  <2>. QED
    BY <2>2, <2>3, <2>4
<1>. QED
  BY <1>1, <1>2

\* What holds of the empty set, and of a subset as soon as it holds of the subset
\* without any of its members, holds of every subset of a finite set.
LEMMA SubsetsBySteps ==
  ASSUME NEW S, IsFiniteSet(S), NEW T, {} \in T,
         \A s \in SUBSET S : s # {} /\ (\A x \in s : s \ {x} \in T) => s \in T
  PROVE  SUBSET S \subseteq T
<1>1. PICK N : N = {n \in Nat : \A s \in SUBSET S : Cardinality(s) = n => s \in T}
  OBVIOUS
<1>2. ASSUME NEW s \in SUBSET S PROVE IsFiniteSet(s) /\ Cardinality(s) \in Nat
  BY FS_Subset, FS_CardinalityType
<1>3. 0 \in N
  <2>1. ASSUME NEW s \in SUBSET S, Cardinality(s) = 0 PROVE s \in T
    <3>1. s = {}
      BY <1>2, <2>1, FS_EmptySet
    <3>. QED
      BY <3>1
  <2>. QED
    BY <1>1, <2>1
<1>4. ASSUME NEW n \in Nat, n \in N PROVE n + 1 \in N
  <2>1. ASSUME NEW s \in SUBSET S, Cardinality(s) = n + 1 PROVE s \in T
    <3>1. s # {}
      <4>1. Cardinality({}) = 0
        BY FS_EmptySet
      <4>. QED
        BY <2>1, <4>1
    <3>2. ASSUME NEW x \in s PROVE s \ {x} \in T
      <4>1. Cardinality(s \ {x}) = Cardinality(s) - 1
        BY <1>2, FS_RemoveElement
      <4>2. Cardinality(s \ {x}) = n /\ s \ {x} \in SUBSET S
        BY <2>1, <4>1
      <4>. QED
        BY <1>1, <1>4, <4>2
    <3>. QED
      BY <3>1, <3>2
  <2>. QED
    BY <1>1, <2>1
<1>5. Nat \subseteq N
  BY <1>3, <1>4, NaturalsBySteps
<1>6. ASSUME NEW s \in SUBSET S PROVE s \in T
  BY <1>1, <1>2, <1>5
<1>. QED
  BY <1>6

-----------------------------------------------------------------------------
(* Folds over finite sets.                                                  *)

\* The member that a fold takes.
Taken(s) == CHOOSE x \in s : TRUE

LEMMA TakenIsIn == \A s : s # {} => Taken(s) \in s
  BY DEF Taken

\* h folds the subsets of S, where that is in V.
IsFold(h, S, V, base, step) ==
  /\ h[{}] = base
  /\ \A s \in SUBSET S : s # {} /\ h[s \ {Taken(s)}] \in V
       => h[s] = step[<<Taken(s), h[s \ {Taken(s)}]>>]

\* It makes no difference which of two members is taken first.
Commutes(S, V, step) ==
  \A x, y \in S : \A a \in V : step[<<x, step[<<y, a>>]>>] = step[<<y, step[<<x, a>>]>>]

\* Any member may be taken.
FoldsFromAny(h, S, V, step) ==
  \A s \in SUBSET S : h[s] \in V /\ \A x \in s : h[s] = step[<<x, h[s \ {x}]>>]

\* There is a function that folds the subsets of a finite set.
LEMMA FoldExists ==
  ASSUME NEW S, IsFiniteSet(S), NEW V, NEW base \in V, NEW step \in [S \X V -> V]
  PROVE  \E h \in [SUBSET S -> V] : IsFold(h, S, V, base, step)
<1>. DEFINE upTo(n) == {s \in SUBSET S : Cardinality(s) <= n}
            folds(h, n) == \A s \in upTo(n) :
              h[s] = IF s = {} THEN base ELSE step[<<Taken(s), h[s \ {Taken(s)}]>>]
<1>1. PICK N : N = {n \in Nat : \E h \in [upTo(n) -> V] : folds(h, n)}
  OBVIOUS
<1>2. ASSUME NEW s \in SUBSET S PROVE IsFiniteSet(s) /\ Cardinality(s) \in Nat
  BY FS_Subset, FS_CardinalityType
<1>3. 0 \in N
  <2>1. PICK h : h = [s \in upTo(0) |-> base]
    OBVIOUS
  <2>2. \A s \in upTo(0) : s = {}
    BY <1>2, FS_EmptySet
  <2>3. h \in [upTo(0) -> V]
    BY <2>1
  <2>4. \A s \in upTo(0) : h[s] = base
    BY <2>1
  <2>. QED
    BY <1>1, <2>2, <2>3, <2>4
<1>4. ASSUME NEW n \in Nat, n \in N PROVE n + 1 \in N
  <2>1. PICK h \in [upTo(n) -> V] : folds(h, n)
    BY <1>1, <1>4
  <2>2. PICK g : g = [s \in upTo(n + 1) |->
                        IF s = {} THEN base ELSE step[<<Taken(s), h[s \ {Taken(s)}]>>]]
    OBVIOUS
  <2>3. ASSUME NEW s \in upTo(n + 1), s # {}
        PROVE  Taken(s) \in S /\ s \ {Taken(s)} \in upTo(n)
    <3>1. Taken(s) \in s
      BY <2>3, TakenIsIn
    <3>2. Cardinality(s \ {Taken(s)}) = Cardinality(s) - 1
      BY <1>2, <3>1, FS_RemoveElement
    <3>. QED
      BY <1>2, <3>1, <3>2
  <2>4. upTo(n) \subseteq upTo(n + 1)
    BY <1>2
  <2>5. \A s \in upTo(n) : g[s] = h[s]
    BY <2>1, <2>2, <2>4
  <2>6. ASSUME NEW s \in upTo(n + 1)
        PROVE  /\ g[s] \in V
               /\ g[s] = IF s = {} THEN base ELSE step[<<Taken(s), g[s \ {Taken(s)}]>>]
    <3>1. CASE s = {}
      BY <2>2, <3>1
    <3>2. CASE s # {}
      <4>1. PICK r \in upTo(n) : r = s \ {Taken(s)} /\ Taken(s) \in S
        BY <2>3, <3>2
      <4>2. h[r] \in V /\ g[r] = h[r]
        BY <2>1, <2>5
      <4>3. g[s] = step[<<Taken(s), h[r]>>]
        BY <2>2, <3>2, <4>1
      <4>. QED
        BY <3>2, <4>1, <4>2, <4>3
    <3>. QED
      BY <3>1, <3>2
  <2>7. g \in [upTo(n + 1) -> V]
    BY <2>2, <2>6
  <2>8. folds(g, n + 1)
    BY <2>6
  <2>9. \E f \in [upTo(n + 1) -> V] : folds(f, n + 1)
    BY <2>7, <2>8, Zenon
  <2>. QED
    <3>. HIDE DEF upTo, folds
    <3>. QED
      BY <1>1, <2>9
<1>5. PICK n \in Nat : n = Cardinality(S)
  BY <1>2
<1>6. n \in N
  BY <1>3, <1>4, NaturalsBySteps
<1>7. upTo(n) = SUBSET S
  <2>1. \A s \in SUBSET S : Cardinality(s) <= Cardinality(S)
    BY FS_Subset
  <2>. QED
    BY <1>5, <2>1
<1>8. PICK h \in [upTo(n) -> V] : folds(h, n)
  BY <1>1, <1>6
<1>. QED
  BY <1>7, <1>8 DEF IsFold

\* When it makes no difference which of two members is taken first, the fold of a
\* subset can be had by taking any of them.
LEMMA AnyFirst ==
  ASSUME NEW S, IsFiniteSet(S), NEW V, NEW base \in V, NEW step \in [S \X V -> V],
         Commutes(S, V, step), NEW h, IsFold(h, S, V, base, step)
  PROVE  FoldsFromAny(h, S, V, step)
<1>1. PICK T : T = {s \in SUBSET S : /\ h[s] \in V
                                     /\ \A x \in s : h[s \ {x}] \in V /\ h[s] = step[<<x, h[s \ {x}]>>]}
  OBVIOUS
<1>2. {} \in T
  BY <1>1 DEF IsFold
<1>3. ASSUME NEW u \in T, NEW y \in u
      PROVE  h[u \ {y}] \in V /\ h[u] = step[<<y, h[u \ {y}]>>]
  BY <1>1
<1>4. ASSUME NEW s \in SUBSET S, s # {}, \A x \in s : s \ {x} \in T PROVE s \in T
  <2>1. PICK t \in s : t = Taken(s)
    BY <1>4, TakenIsIn
  <2>2. \A x \in s : h[s \ {x}] \in V
    BY <1>1, <1>4
  <2>3. h[s] = step[<<t, h[s \ {t}]>>]
    BY <1>4, <2>1, <2>2 DEF IsFold
  <2>4. h[s] \in V
    BY <2>2, <2>3
  <2>5. ASSUME NEW x \in s, x # t PROVE h[s] = step[<<x, h[s \ {x}]>>]
    <3>1. PICK r : r = (s \ {t}) \ {x} /\ r = (s \ {x}) \ {t}
      OBVIOUS
    <3>2. PICK a \in T : a = s \ {t} /\ x \in a /\ a \ {x} = r
      BY <1>4, <2>5, <3>1
    <3>3. PICK b \in T : b = s \ {x} /\ t \in b /\ b \ {t} = r
      BY <1>4, <2>5, <3>1
    <3>4. h[s \ {t}] = step[<<x, h[r]>>] /\ h[r] \in V
      BY <1>3, <3>2
    <3>5. h[s \ {x}] = step[<<t, h[r]>>]
      BY <1>3, <3>3
    <3>6. x \in S /\ t \in S
      BY <2>5
    <3>7. step[<<t, step[<<x, h[r]>>]>>] = step[<<x, step[<<t, h[r]>>]>>]
      BY <3>4, <3>6 DEF Commutes
    <3>. QED
      BY <2>3, <3>4, <3>5, <3>7
  <2>6. \A x \in s : h[s] = step[<<x, h[s \ {x}]>>]
    BY <2>3, <2>5
  <2>. QED
    BY <1>1, <2>2, <2>4, <2>6
<1>5. SUBSET S \subseteq T
  BY <1>2, <1>4, SubsetsBySteps, Zenon
<1>. QED
  BY <1>1, <1>3, <1>5 DEF FoldsFromAny

\* A pair <<hits, total>>; what is divided at the end is not asked here.
Fraction == Nat \X Nat

\* A sum of fractions does not depend on the order.
LEMMA PlusFacts ==
  /\ \A a, b \in Fraction : Plus(a, b) \in Fraction
  /\ \A a, b, c \in Fraction : Plus(a, Plus(b, c)) = Plus(b, Plus(a, c))
<1>1. ASSUME NEW a1 \in Nat, NEW a2 \in Nat, NEW b1 \in Nat, NEW b2 \in Nat
      PROVE  /\ Plus(<<a1, a2>>, <<b1, b2>>) = <<a1 * b2 + b1 * a2, a2 * b2>>
             /\ a1 * b2 + b1 * a2 \in Nat /\ a2 * b2 \in Nat
  BY DEF Plus
<1>2. ASSUME NEW a1 \in Nat, NEW a2 \in Nat, NEW b1 \in Nat, NEW b2 \in Nat,
             NEW c1 \in Nat, NEW c2 \in Nat
      PROVE  Plus(<<a1, a2>>, Plus(<<b1, b2>>, <<c1, c2>>))
               = Plus(<<b1, b2>>, Plus(<<a1, a2>>, <<c1, c2>>))
  <2>1. PICK u \in Nat, v \in Nat : u = b1 * c2 + c1 * b2 /\ v = b2 * c2
    BY <1>1
  <2>2. PICK x \in Nat, y \in Nat : x = a1 * c2 + c1 * a2 /\ y = a2 * c2
    BY <1>1
  <2>3. Plus(<<b1, b2>>, <<c1, c2>>) = <<u, v>> /\ Plus(<<a1, a2>>, <<c1, c2>>) = <<x, y>>
    BY <2>1, <2>2 DEF Plus
  <2>4. Plus(<<a1, a2>>, <<u, v>>) = <<a1 * v + u * a2, a2 * v>>
    BY <1>1
  <2>5. Plus(<<b1, b2>>, <<x, y>>) = <<b1 * y + x * b2, b2 * y>>
    BY <1>1
  <2>6. a2 * v = b2 * y
    BY <2>1, <2>2
  <2>7. a1 * v + u * a2 = b1 * y + x * b2
    BY <2>1, <2>2
  <2>. QED
    BY <2>3, <2>4, <2>5, <2>6, <2>7
<1>3. ASSUME NEW a \in Fraction PROVE \E a1, a2 \in Nat : a = <<a1, a2>>
  BY DEF Fraction
<1>4. ASSUME NEW a \in Fraction, NEW b \in Fraction PROVE Plus(a, b) \in Fraction
  BY <1>1, <1>3 DEF Fraction
<1>5. ASSUME NEW a \in Fraction, NEW b \in Fraction, NEW c \in Fraction
      PROVE  Plus(a, Plus(b, c)) = Plus(b, Plus(a, c))
  BY <1>2, <1>3
<1>. QED
  BY <1>4, <1>5

SumOf(f) == FoldFunction(Plus, <<0, 1>>, f)

\* h sums up fractions, from any of them.
Adds(h, S, f) ==
  /\ h[{}] = <<0, 1>>
  /\ \A s \in SUBSET S : h[s] \in Fraction /\ \A x \in s : h[s] = Plus(f[x], h[s \ {x}])

LEMMA FractionsFold ==
  ASSUME NEW S, IsFiniteSet(S), NEW f \in [S -> Fraction]
  PROVE  \E h : h[S] = SumOf(f) /\ Adds(h, S, f)
<1>. DEFINE folded(g) == [s \in SUBSET S |->
              IF s = {} THEN <<0, 1>> ELSE Plus(f[Taken(s)], g[s \ {Taken(s)}])]
<1>1. PICK zero \in Fraction : zero = <<0, 1>>
  BY DEF Fraction
<1>2. PICK step \in [S \X Fraction -> Fraction] :
        step = [p \in S \X Fraction |-> Plus(f[p[1]], p[2])]
  BY PlusFacts
<1>3. ASSUME NEW x \in S, NEW a \in Fraction PROVE step[<<x, a>>] = Plus(f[x], a)
  BY <1>2
<1>4. PICK h0 \in [SUBSET S -> Fraction] : IsFold(h0, S, Fraction, zero, step)
  BY FoldExists
<1>5. h0 = folded(h0)
  <2>1. ASSUME NEW s \in SUBSET S, s # {}
        PROVE  h0[s] = Plus(f[Taken(s)], h0[s \ {Taken(s)}])
    <3>1. Taken(s) \in S /\ h0[s \ {Taken(s)}] \in Fraction
      BY <2>1, TakenIsIn
    <3>2. h0[s] = step[<<Taken(s), h0[s \ {Taken(s)}]>>]
      BY <1>4, <2>1, <3>1 DEF IsFold
    <3>. QED
      BY <1>3, <3>1, <3>2
  <2>2. h0[{}] = <<0, 1>>
    BY <1>1, <1>4 DEF IsFold
  <2>. QED
    BY <1>4, <2>1, <2>2
<1>6. PICK h : h = CHOOSE g : g = folded(g)
  OBVIOUS
<1>7. h = folded(h)
  BY <1>5, <1>6
<1>8. SumOf(f) = h[S]
  BY <1>6 DEF SumOf, FoldFunction, FoldFunctionOnSet, MapThenFoldSet, Taken
<1>9. h[{}] = zero /\ \A s \in SUBSET S : s # {} => h[s] = Plus(f[Taken(s)], h[s \ {Taken(s)}])
  BY <1>1, <1>7
<1>10. IsFold(h, S, Fraction, zero, step)
  <2>1. ASSUME NEW s \in SUBSET S, s # {}, h[s \ {Taken(s)}] \in Fraction
        PROVE  h[s] = step[<<Taken(s), h[s \ {Taken(s)}]>>]
    <3>1. Taken(s) \in S
      BY <2>1, TakenIsIn
    <3>. QED
      BY <1>3, <1>9, <2>1, <3>1
  <2>. QED
    BY <1>9, <2>1 DEF IsFold
<1>11. ASSUME NEW x \in S, NEW y \in S, NEW a \in Fraction
       PROVE  step[<<x, step[<<y, a>>]>>] = step[<<y, step[<<x, a>>]>>]
  <2>1. step[<<y, a>>] = Plus(f[y], a) /\ step[<<x, a>>] = Plus(f[x], a)
    BY <1>3
  <2>2. Plus(f[y], a) \in Fraction /\ Plus(f[x], a) \in Fraction
    BY PlusFacts
  <2>3. step[<<x, Plus(f[y], a)>>] = Plus(f[x], Plus(f[y], a))
    BY <1>3, <2>2
  <2>4. step[<<y, Plus(f[x], a)>>] = Plus(f[y], Plus(f[x], a))
    BY <1>3, <2>2
  <2>5. f[x] \in Fraction /\ f[y] \in Fraction
    OBVIOUS
  <2>. QED
    BY <2>1, <2>3, <2>4, <2>5, PlusFacts
<1>12. Commutes(S, Fraction, step)
  BY <1>11 DEF Commutes
<1>13. FoldsFromAny(h, S, Fraction, step)
  BY <1>10, <1>12, AnyFirst
<1>14. ASSUME NEW s \in SUBSET S
       PROVE  h[s] \in Fraction /\ \A x \in s : h[s] = Plus(f[x], h[s \ {x}])
  <2>1. ASSUME NEW x \in s PROVE h[s] = Plus(f[x], h[s \ {x}])
    <3>1. PICK r \in SUBSET S : r = s \ {x}
      OBVIOUS
    <3>2. h[r] \in Fraction /\ x \in S /\ h[s] = step[<<x, h[r]>>]
      BY <1>13, <3>1 DEF FoldsFromAny
    <3>. QED
      BY <1>3, <3>1, <3>2
  <2>. QED
    BY <1>13, <2>1 DEF FoldsFromAny
<1>. QED
  <2>1. h[{}] = <<0, 1>>
    BY <1>1, <1>9
  <2>2. \A s \in SUBSET S : h[s] \in Fraction /\ \A x \in s : h[s] = Plus(f[x], h[s \ {x}])
    BY <1>14
  <2>3. Adds(h, S, f)
    BY <2>1, <2>2, Zenon DEF Adds
  <2>. QED
    BY <1>8, <2>3

\* A component of pairs, summed up.
TotalOf(f, i, S) == MapThenSumSet(LAMBDA x : f[x][i], S)

\* h sums it up, from any of them.
Totals(h, S, f, i) ==
  /\ h[{}] = 0
  /\ \A s \in SUBSET S : h[s] \in Nat /\ \A x \in s : h[s] = f[x][i] + h[s \ {x}]

LEMMA NumbersFold ==
  ASSUME NEW S, IsFiniteSet(S), NEW f, NEW i, \A x \in S : f[x][i] \in Nat
  PROVE  \E h : h[S] = TotalOf(f, i, S) /\ Totals(h, S, f, i)
<1>. DEFINE folded(g) == [s \in SUBSET S |->
              IF s = {} THEN 0 ELSE f[Taken(s)][i] + g[s \ {Taken(s)}]]
<1>1. PICK zero \in Nat : zero = 0
  OBVIOUS
<1>2. PICK step \in [S \X Nat -> Nat] : step = [p \in S \X Nat |-> f[p[1]][i] + p[2]]
  <2>1. \A p \in S \X Nat : f[p[1]][i] + p[2] \in Nat
    OBVIOUS
  <2>. QED
    BY <2>1
<1>3. ASSUME NEW x \in S, NEW a \in Nat PROVE step[<<x, a>>] = f[x][i] + a
  BY <1>2
<1>4. PICK h0 \in [SUBSET S -> Nat] : IsFold(h0, S, Nat, zero, step)
  BY FoldExists
<1>5. h0 = folded(h0)
  <2>1. ASSUME NEW s \in SUBSET S, s # {}
        PROVE  h0[s] = f[Taken(s)][i] + h0[s \ {Taken(s)}]
    <3>1. Taken(s) \in S /\ h0[s \ {Taken(s)}] \in Nat
      BY <2>1, TakenIsIn
    <3>2. h0[s] = step[<<Taken(s), h0[s \ {Taken(s)}]>>]
      BY <1>4, <2>1, <3>1 DEF IsFold
    <3>. QED
      BY <1>3, <3>1, <3>2
  <2>2. h0[{}] = 0
    BY <1>1, <1>4 DEF IsFold
  <2>. QED
    BY <1>4, <2>1, <2>2
<1>6. PICK h : h = CHOOSE g : g = folded(g)
  OBVIOUS
<1>7. h = folded(h)
  BY <1>5, <1>6
<1>8. TotalOf(f, i, S) = h[S]
  BY <1>6 DEF TotalOf, MapThenSumSet, MapThenFoldSet, Taken
<1>9. h[{}] = zero /\ \A s \in SUBSET S : s # {} => h[s] = f[Taken(s)][i] + h[s \ {Taken(s)}]
  BY <1>1, <1>7
<1>10. IsFold(h, S, Nat, zero, step)
  <2>1. ASSUME NEW s \in SUBSET S, s # {}, h[s \ {Taken(s)}] \in Nat
        PROVE  h[s] = step[<<Taken(s), h[s \ {Taken(s)}]>>]
    <3>1. Taken(s) \in S
      BY <2>1, TakenIsIn
    <3>. QED
      BY <1>3, <1>9, <2>1, <3>1
  <2>. QED
    BY <1>9, <2>1 DEF IsFold
<1>11. ASSUME NEW x \in S, NEW y \in S, NEW a \in Nat
       PROVE  step[<<x, step[<<y, a>>]>>] = step[<<y, step[<<x, a>>]>>]
  <2>1. PICK b \in Nat, c \in Nat : b = f[x][i] /\ c = f[y][i]
    OBVIOUS
  <2>2. step[<<y, a>>] = c + a /\ step[<<x, a>>] = b + a
    BY <1>3, <2>1
  <2>3. step[<<x, c + a>>] = b + (c + a) /\ step[<<y, b + a>>] = c + (b + a)
    BY <1>3, <2>1
  <2>. QED
    BY <2>2, <2>3
<1>12. Commutes(S, Nat, step)
  BY <1>11 DEF Commutes
<1>13. FoldsFromAny(h, S, Nat, step)
  BY <1>10, <1>12, AnyFirst
<1>14. ASSUME NEW s \in SUBSET S
       PROVE  h[s] \in Nat /\ \A x \in s : h[s] = f[x][i] + h[s \ {x}]
  <2>1. ASSUME NEW x \in s PROVE h[s] = f[x][i] + h[s \ {x}]
    <3>1. PICK r \in SUBSET S : r = s \ {x}
      OBVIOUS
    <3>2. h[r] \in Nat /\ x \in S /\ h[s] = step[<<x, h[r]>>]
      BY <1>13, <3>1 DEF FoldsFromAny
    <3>. QED
      BY <1>3, <3>1, <3>2
  <2>. QED
    BY <1>13, <2>1 DEF FoldsFromAny
<1>. QED
  <2>1. h[{}] = 0
    BY <1>1, <1>9
  <2>2. \A s \in SUBSET S : h[s] \in Nat /\ \A x \in s : h[s] = f[x][i] + h[s \ {x}]
    BY <1>14
  <2>3. Totals(h, S, f, i)
    BY <2>1, <2>2, Zenon DEF Totals
  <2>. QED
    BY <1>8, <2>3

\* The sum of fractions is the same when they are numbered otherwise.
LEMMA SumsAlike ==
  ASSUME NEW S, NEW R, IsFiniteSet(S), IsFiniteSet(R),
         NEW f \in [S -> Fraction], NEW g \in [R -> Fraction],
         NEW m \in [S -> R], \A x, y \in S : m[x] = m[y] => x = y,
         \A z \in R : \E x \in S : m[x] = z, \A x \in S : f[x] = g[m[x]]
  PROVE  SumOf(f) = SumOf(g)
<1>1. PICK h : h[S] = SumOf(f) /\ Adds(h, S, f)
  BY FractionsFold
<1>2. PICK k : k[R] = SumOf(g) /\ Adds(k, R, g)
  BY FractionsFold
<1>3. PICK T : T = {s \in SUBSET S : h[s] = k[{m[x] : x \in s}]}
  OBVIOUS
<1>4. {} \in T
  <2>1. {m[x] : x \in {}} = {}
    OBVIOUS
  <2>. QED
    BY <1>1, <1>2, <1>3, <2>1 DEF Adds
<1>5. ASSUME NEW s \in SUBSET S, s # {}, \A x \in s : s \ {x} \in T PROVE s \in T
  <2>1. PICK x \in s : s \ {x} \in T
    BY <1>5
  <2>2. PICK M : M = {m[y] : y \in s}
    OBVIOUS
  <2>3. M \in SUBSET R
    <3>1. \A y \in s : m[y] \in R
      OBVIOUS
    <3>. QED
      BY <2>2, <3>1
  <2>4. {m[y] : y \in s \ {x}} = M \ {m[x]} /\ m[x] \in M
    BY <2>2
  <2>5. h[s \ {x}] = k[M \ {m[x]}]
    BY <1>3, <2>1, <2>4
  <2>6. h[s] = Plus(f[x], h[s \ {x}])
    BY <1>1 DEF Adds
  <2>7. k[M] = Plus(g[m[x]], k[M \ {m[x]}])
    BY <1>2, <2>3, <2>4 DEF Adds
  <2>8. f[x] = g[m[x]]
    OBVIOUS
  <2>9. h[s] = k[M]
    BY <2>5, <2>6, <2>7, <2>8
  <2>. QED
    BY <1>3, <2>2, <2>9
<1>6. SUBSET S \subseteq T
  BY <1>4, <1>5, SubsetsBySteps
<1>7. h[S] = k[{m[x] : x \in S}]
  BY <1>3, <1>6
<1>8. {m[x] : x \in S} = R
  OBVIOUS
<1>. QED
  BY <1>1, <1>2, <1>7, <1>8

\* The greatest member of a finite set of naturals is a member of it, and the greatest.
LEMMA MaxOfNaturals ==
  ASSUME NEW S, S \subseteq Nat, S # {}, IsFiniteSet(S)
  PROVE  Max(S) \in S /\ \A y \in S : y <= Max(S)
<1>1. PICK T : T = {s \in SUBSET S : s # {} => \E x \in s : \A y \in s : x >= y}
  OBVIOUS
<1>2. {} \in T
  BY <1>1
<1>3. ASSUME NEW s \in SUBSET S, s # {}, \A x \in s : s \ {x} \in T PROVE s \in T
  <2>1. PICK x \in s : s \ {x} \in T
    BY <1>3
  <2>2. CASE s \ {x} = {}
    <3>1. \A y \in s : y = x
      BY <2>2
    <3>2. x \in Nat
      OBVIOUS
    <3>3. \A y \in s : x >= y
      BY <3>1, <3>2
    <3>. QED
      BY <1>1, <3>3
  <2>3. CASE s \ {x} # {}
    <3>1. PICK z \in s \ {x} : \A y \in s \ {x} : z >= y
      BY <1>1, <2>1, <2>3
    <3>2. x \in Nat /\ z \in Nat /\ \A y \in s : y \in Nat
      OBVIOUS
    <3>3. (\A y \in s : x >= y) \/ (\A y \in s : z >= y)
      BY <3>1, <3>2
    <3>. QED
      BY <1>1, <3>3
  <2>. QED
    BY <2>2, <2>3
<1>4. SUBSET S \subseteq T
  BY <1>2, <1>3, SubsetsBySteps
<1>5. \E x \in S : \A y \in S : x >= y
  BY <1>1, <1>4
<1>6. Max(S) \in S /\ \A y \in S : Max(S) >= y
  BY <1>5 DEF Max
<1>. QED
  BY <1>6

-----------------------------------------------------------------------------
(* The summary of reports.                                                  *)

\* The image of a finite set.
LEMMA ImageFinite ==
  ASSUME NEW S, IsFiniteSet(S), NEW f
  PROVE  IsFiniteSet({f[x] : x \in S})
<1>1. PICK T : T = {f[x] : x \in S}
  OBVIOUS
<1>2. PICK g : g = [x \in S |-> f[x]]
  OBVIOUS
<1>3. g \in [S -> T] /\ \A t \in T : \E x \in S : g[x] = t
  BY <1>1, <1>2
<1>4. g \in Surjection(S, T)
  BY <1>3 DEF Surjection
<1>5. IsFiniteSet(T)
  BY <1>4, FS_Surjection
<1>. QED
  BY <1>1, <1>5

\* What is asked of queries and of the lists that answer them.
HasLists(queries, lists) ==
  /\ Len(queries) \in Nat /\ DOMAIN queries = 1..Len(queries)
  /\ \A i \in DOMAIN queries :
       /\ queries[i].relevant \in Seq(STRING) /\ queries[i].relevant # <<>>
       /\ queries[i].tags \in Seq(STRING)
       /\ \E S : lists[i] \in Seq(S)

ReportsOf(queries, lists) == [i \in DOMAIN queries |-> QueryReport(queries[i], lists[i])]

\* The hits of a query that far, and of how many.
HitsOf(queries, lists, i, k) == HitsAt(lists[i], queries[i].relevant, k)

\* What the report of a query says.
LEMMA OneReport ==
  ASSUME NEW queries, NEW lists, HasLists(queries, lists), NEW i \in DOMAIN queries,
         NEW report, report = ReportsOf(queries, lists)[i], NEW l, l = Len(queries[i].relevant)
  PROVE  /\ l \in Nat \ {0} /\ DOMAIN queries[i].relevant = 1..l
         /\ report.tags = queries[i].tags
         /\ DOMAIN report.ranks = 1..l
         /\ \A j \in 1..l : /\ report.ranks[j].key = queries[i].relevant[j]
                            /\ report.ranks[j].rank = RankOf(lists[i], queries[i].relevant[j])
<1>1. PICK relevant \in Seq(STRING) : relevant = queries[i].relevant /\ relevant # <<>>
  BY DEF HasLists
<1>2. l \in Nat \ {0} /\ DOMAIN relevant = 1..l
  BY <1>1
<1>3. report = QueryReport(queries[i], lists[i])
  BY DEF ReportsOf
<1>4. report.tags = queries[i].tags
  BY <1>3 DEF QueryReport
<1>5. report.ranks = [j \in 1..l |-> [key |-> relevant[j], rank |-> RankOf(lists[i], relevant[j])]]
  BY <1>1, <1>2, <1>3 DEF QueryReport
<1>6. \A j \in 1..l : /\ report.ranks[j].key = queries[i].relevant[j]
                      /\ report.ranks[j].rank = RankOf(lists[i], queries[i].relevant[j])
  BY <1>1, <1>5
<1>7. DOMAIN report.ranks = 1..l
  BY <1>5
<1>. QED
  BY <1>1, <1>2, <1>4, <1>6, <1>7

LEMMA OneRecall ==
  ASSUME NEW queries, NEW lists, HasLists(queries, lists), NEW i \in DOMAIN queries,
         NEW k \in KValues
  PROVE  LET H == HitsOf(queries, lists, i, k)
             l == Len(queries[i].relevant)
         IN  /\ ReportsOf(queries, lists)[i].recall[k] = <<Cardinality(H), l>>
             /\ H \in SUBSET (1..l) /\ IsFiniteSet(H) /\ Cardinality(H) \in Nat
<1>1. PICK relevant \in Seq(STRING) : relevant = queries[i].relevant /\ relevant # <<>>
  BY DEF HasLists
<1>2. PICK l \in Nat \ {0} : l = Len(queries[i].relevant) /\ DOMAIN relevant = 1..l
  BY <1>1
<1>3. PICK H : H = HitsOf(queries, lists, i, k)
  OBVIOUS
<1>4. PICK report : report = ReportsOf(queries, lists)[i] /\ report = QueryReport(queries[i], lists[i])
  BY DEF ReportsOf
<1>5. report.recall[k] = RecallAt(lists[i], relevant, k)
  BY <1>1, <1>4 DEF QueryReport
<1>6. ~(relevant = <<>> \/ k < 1)
  BY <1>1, MetricsAssumption
<1>7. RecallAt(lists[i], relevant, k) = <<Cardinality(HitsAt(lists[i], relevant, k)), Len(relevant)>>
  BY <1>6, Zenon DEF RecallAt, Quantify, HitsAt
<1>8. H = HitsAt(lists[i], relevant, k)
  BY <1>1, <1>3 DEF HitsOf
<1>9. H \in SUBSET (1..l)
  BY <1>2, <1>8 DEF HitsAt
<1>10. IsFiniteSet(1..l)
  BY <1>2, FS_Interval
<1>11. IsFiniteSet(H)
  BY <1>9, <1>10, FS_Subset
<1>12. Cardinality(H) \in Nat
  BY <1>11, FS_CardinalityType
<1>. QED
  BY <1>1, <1>2, <1>3, <1>4, <1>5, <1>7, <1>8, <1>9, <1>11, <1>12

\* The places of the relevant keys.
LEMMA GoldPlaces ==
  ASSUME NEW queries, NEW lists, HasLists(queries, lists), NEW reports,
         reports = ReportsOf(queries, lists)
  PROVE  /\ Golds(reports) = UNION {{i} \X (1..Len(queries[i].relevant)) : i \in DOMAIN queries}
         /\ IsFiniteSet(Golds(reports))
<1>1. DOMAIN reports = DOMAIN queries
  BY DEF ReportsOf
<1>2. PICK f : f = [i \in DOMAIN queries |-> {i} \X (1..Len(queries[i].relevant))]
  OBVIOUS
<1>3. ASSUME NEW i \in DOMAIN queries PROVE DOMAIN reports[i].ranks = 1..Len(queries[i].relevant)
  BY OneReport
<1>4. Golds(reports) = UNION {{i} \X DOMAIN reports[i].ranks : i \in DOMAIN reports}
  BY DEF Golds
<1>5. {{i} \X DOMAIN reports[i].ranks : i \in DOMAIN reports} = {f[i] : i \in DOMAIN queries}
  BY <1>1, <1>2, <1>3
<1>6. {{i} \X (1..Len(queries[i].relevant)) : i \in DOMAIN queries} = {f[i] : i \in DOMAIN queries}
  BY <1>2
<1>7. ASSUME NEW i \in DOMAIN queries PROVE IsFiniteSet(f[i])
  <2>1. PICK l \in Nat : l = Len(queries[i].relevant)
    BY OneReport
  <2>2. IsFiniteSet(1..l)
    BY FS_Interval
  <2>3. IsFiniteSet({i})
    BY FS_Singleton
  <2>4. IsFiniteSet({i} \X (1..l))
    BY <2>2, <2>3, FS_Product
  <2>. QED
    BY <1>2, <2>1, <2>4
<1>8. IsFiniteSet(DOMAIN queries)
  <2>1. PICK n \in Nat : DOMAIN queries = 1..n
    BY DEF HasLists
  <2>2. IsFiniteSet(1..n)
    BY FS_Interval
  <2>. QED
    BY <2>1, <2>2
<1>9. IsFiniteSet({f[i] : i \in DOMAIN queries})
  BY <1>8, ImageFinite
<1>10. IsFiniteSet(UNION {f[i] : i \in DOMAIN queries})
  BY <1>7, <1>9, FS_UNION
<1>. QED
  BY <1>4, <1>5, <1>6, <1>10

\* The golds that are hit.
HitsIn(reports, golds) == {g \in golds : WithinCutoff(GoldAt(reports, g).rank)}

LEMMA RatioIs ==
  ASSUME NEW reports, NEW golds
  PROVE  Ratio(reports, golds) = <<Cardinality(HitsIn(reports, golds)), Cardinality(golds)>>
  BY DEF Ratio, Quantify, HitsIn

LEMMA CountsAdd ==
  ASSUME NEW A, NEW B, IsFiniteSet(A), IsFiniteSet(B), A \cap B = {}
  PROVE  Cardinality(A \cup B) = Cardinality(A) + Cardinality(B)
<1>1. PICK a \in Nat, b \in Nat : a = Cardinality(A) /\ b = Cardinality(B)
  BY FS_CardinalityType
<1>2. Cardinality(A \cap B) = 0
  BY FS_EmptySet
<1>3. Cardinality(A \cup B) = Cardinality(A) + Cardinality(B) - Cardinality(A \cap B)
  BY FS_Union
<1>. QED
  BY <1>1, <1>2, <1>3

\* Of two sets that have nothing in common the numbers add up.
LEMMA RatiosAdd ==
  ASSUME NEW reports, NEW A, NEW B, IsFiniteSet(A), IsFiniteSet(B), A \cap B = {}
  PROVE  /\ Ratio(reports, A)[1] \in Nat /\ Ratio(reports, A)[2] \in Nat
         /\ Ratio(reports, A \cup B) =
              <<Ratio(reports, A)[1] + Ratio(reports, B)[1], Ratio(reports, A)[2] + Ratio(reports, B)[2]>>
<1>1. PICK G, H, U : G = HitsIn(reports, A) /\ H = HitsIn(reports, B) /\ U = HitsIn(reports, A \cup B)
  OBVIOUS
<1>2. G \in SUBSET A /\ H \in SUBSET B /\ U = G \cup H /\ G \cap H = {}
  BY <1>1 DEF HitsIn
<1>3. IsFiniteSet(G) /\ IsFiniteSet(H)
  BY <1>2, FS_Subset
<1>4. /\ Cardinality(A) \in Nat /\ Cardinality(B) \in Nat
      /\ Cardinality(G) \in Nat /\ Cardinality(H) \in Nat
  BY <1>3, FS_CardinalityType
<1>5. Cardinality(A \cup B) = Cardinality(A) + Cardinality(B)
  BY CountsAdd
<1>6. Cardinality(U) = Cardinality(G) + Cardinality(H)
  BY <1>2, <1>3, CountsAdd
<1>7. /\ Ratio(reports, A) = <<Cardinality(G), Cardinality(A)>>
      /\ Ratio(reports, B) = <<Cardinality(H), Cardinality(B)>>
      /\ Ratio(reports, A \cup B) = <<Cardinality(U), Cardinality(A \cup B)>>
  BY <1>1, RatioIs
<1>. QED
  BY <1>4, <1>5, <1>6, <1>7

\* Short and long share out the relevant keys.
LEMMA LengthsShareOut ==
  ASSUME NEW reports, IsFiniteSet(Golds(reports)), NEW runes
  PROVE  LET s == Summary(reports, runes)
         IN  s.micro = [i \in {1, 2} |-> s.lengths.short[i] + s.lengths.long[i]]
<1>1. PICK all : all = Golds(reports)
  OBVIOUS
<1>2. PICK long : long = GoldsOf(reports, {key \in DOMAIN runes : runes[key] > LongerThan})
  OBVIOUS
<1>3. long \in SUBSET all
  BY <1>1, <1>2 DEF GoldsOf
<1>4. PICK short : short = all \ long
  OBVIOUS
<1>5. IsFiniteSet(long) /\ IsFiniteSet(short) /\ short \cap long = {} /\ short \cup long = all
  BY <1>1, <1>3, <1>4, FS_Subset
<1>6. PICK x, y : x = Ratio(reports, short) /\ y = Ratio(reports, long)
  OBVIOUS
<1>7. Ratio(reports, all) = <<x[1] + y[1], x[2] + y[2]>>
  BY <1>5, <1>6, RatiosAdd
<1>8. PICK s : s = Summary(reports, runes)
  OBVIOUS
<1>9. s.micro = Ratio(reports, all) /\ s.lengths.short = x /\ s.lengths.long = y
  <2>1. s.micro = MicroRecall(reports) /\ s.lengths = GoldLengthRecall(reports, runes)
    BY <1>8 DEF Summary
  <2>. QED
    BY <1>1, <1>2, <1>4, <1>6, <2>1 DEF MicroRecall, GoldLengthRecall
<1>10. <<x[1] + y[1], x[2] + y[2]>> = [i \in {1, 2} |-> x[i] + y[i]]
  OBVIOUS
<1>. QED
  BY <1>7, <1>8, <1>9, <1>10

\* The keys that are followed by name share out what is followed.
LEMMA NamesShareOut ==
  ASSUME NEW reports, IsFiniteSet(Golds(reports)), NEW runes
  PROVE  LET s == Summary(reports, runes)
         IN  s.long.all = [i \in {1, 2} |-> TotalOf(s.long.keys, i, LongGoldKeys)]
<1>1. PICK L : L = LongGoldKeys /\ IsFiniteSet(L)
  BY MetricsAssumption
<1>2. PICK s : s = Summary(reports, runes)
  OBVIOUS
<1>3. PICK f : f = [key \in L |-> Ratio(reports, GoldsOf(reports, {key}))]
  OBVIOUS
<1>4. s.long.keys = f /\ s.long.all = Ratio(reports, GoldsOf(reports, L))
  <2>1. s.long = LongChunkRecall(reports)
    BY <1>2 DEF Summary
  <2>. QED
    BY <1>1, <1>3, <2>1 DEF LongChunkRecall
<1>5. ASSUME NEW keys PROVE IsFiniteSet(GoldsOf(reports, keys))
  <2>1. GoldsOf(reports, keys) \in SUBSET Golds(reports)
    BY DEF GoldsOf
  <2>. QED
    BY <2>1, FS_Subset
<1>6. ASSUME NEW A, NEW x, x \notin A
      PROVE  /\ GoldsOf(reports, {x}) \cap GoldsOf(reports, A) = {}
             /\ GoldsOf(reports, {x}) \cup GoldsOf(reports, A) = GoldsOf(reports, {x} \cup A)
  BY <1>6 DEF GoldsOf
<1>7. ASSUME NEW i \in {1, 2} PROVE Ratio(reports, GoldsOf(reports, L))[i] = TotalOf(f, i, L)
  <2>1. ASSUME NEW x \in L PROVE f[x][i] \in Nat
    <3>1. Ratio(reports, GoldsOf(reports, {x}))[i] \in Nat
      <4>1. PICK A : A = GoldsOf(reports, {x}) /\ IsFiniteSet(A)
        BY <1>5
      <4>2. IsFiniteSet({}) /\ A \cap {} = {}
        BY FS_EmptySet
      <4>3. Ratio(reports, A)[1] \in Nat /\ Ratio(reports, A)[2] \in Nat
        BY <4>1, <4>2, RatiosAdd
      <4>. QED
        BY <4>1, <4>3
    <3>. QED
      BY <1>3, <3>1
  <2>2. PICK h : h[L] = TotalOf(f, i, L) /\ Totals(h, L, f, i)
    BY <1>1, <2>1, NumbersFold
  <2>3. PICK T : T = {k \in SUBSET L : h[k] = Ratio(reports, GoldsOf(reports, k))[i]}
    OBVIOUS
  <2>4. {} \in T
    <3>1. GoldsOf(reports, {}) = {}
      BY DEF GoldsOf
    <3>2. HitsIn(reports, {}) = {}
      BY DEF HitsIn
    <3>3. Cardinality({}) = 0
      BY FS_EmptySet
    <3>4. Ratio(reports, {}) = <<0, 0>>
      BY <3>2, <3>3, RatioIs
    <3>5. <<0, 0>>[i] = 0
      OBVIOUS
    <3>. QED
      BY <2>2, <2>3, <3>1, <3>4, <3>5 DEF Totals
  <2>5. ASSUME NEW k \in SUBSET L, k # {}, \A x \in k : k \ {x} \in T PROVE k \in T
    <3>1. PICK x \in k : k \ {x} \in T
      BY <2>5
    <3>2. PICK A, B : A = GoldsOf(reports, {x}) /\ B = GoldsOf(reports, k \ {x})
      OBVIOUS
    <3>3. GoldsOf(reports, {x} \cup (k \ {x})) = A \cup B /\ A \cap B = {}
      BY <1>6, <3>2
    <3>4. {x} \cup (k \ {x}) = k
      OBVIOUS
    <3>5. IsFiniteSet(A) /\ IsFiniteSet(B)
      BY <1>5, <3>2
    <3>6. Ratio(reports, A \cup B) =
            <<Ratio(reports, A)[1] + Ratio(reports, B)[1], Ratio(reports, A)[2] + Ratio(reports, B)[2]>>
      BY <3>3, <3>5, RatiosAdd
    <3>7. Ratio(reports, A \cup B)[i] = Ratio(reports, A)[i] + Ratio(reports, B)[i]
      BY <3>6
    <3>8. h[k \ {x}] = Ratio(reports, B)[i]
      BY <2>3, <3>1, <3>2
    <3>9. h[k] = f[x][i] + h[k \ {x}]
      BY <2>2 DEF Totals
    <3>10. f[x] = Ratio(reports, A)
      BY <1>3, <3>2
    <3>11. h[k] = Ratio(reports, GoldsOf(reports, k))[i]
      BY <3>3, <3>4, <3>7, <3>8, <3>9, <3>10
    <3>. QED
      BY <2>3, <3>11
  <2>6. SUBSET L \subseteq T
    BY <1>1, <2>4, <2>5, SubsetsBySteps
  <2>. QED
    BY <2>2, <2>3, <2>6
<1>8. PICK r : r = Ratio(reports, GoldsOf(reports, L))
  OBVIOUS
<1>9. r = [i \in {1, 2} |-> TotalOf(f, i, L)]
  <2>1. \A i \in {1, 2} : r[i] = TotalOf(f, i, L)
    BY <1>7, <1>8
  <2>2. \E a, b : r = <<a, b>>
    BY <1>8, RatioIs
  <2>3. r = [i \in {1, 2} |-> r[i]]
    BY <2>2
  <2>. QED
    BY <2>1, <2>3
<1>10. s.long.all = [i \in {1, 2} |-> TotalOf(s.long.keys, i, LongGoldKeys)]
  BY <1>1, <1>4, <1>8, <1>9
<1>. QED
  BY <1>2, <1>10

LEMMA CutoffIs == Max(KValues) \in KValues /\ Max(KValues) \in Nat
<1>1. KValues \subseteq Nat /\ KValues # {} /\ IsFiniteSet(KValues)
  BY MetricsAssumption
<1>. QED
  BY <1>1, MaxOfNaturals

\* The hits of one query.
LEMMA HitsInOne ==
  ASSUME NEW queries, NEW lists, HasLists(queries, lists), NEW reports,
         reports = ReportsOf(queries, lists), NEW i \in DOMAIN queries
  PROVE  {g \in HitsIn(reports, Golds(reports)) : g[1] = i}
           = {i} \X HitsOf(queries, lists, i, Max(KValues))
<1>1. PICK k : k = Max(KValues) /\ k \in KValues /\ k \in Nat
  BY CutoffIs
<1>2. PICK H : H = HitsOf(queries, lists, i, k)
  OBVIOUS
<1>3. PICK l : l = Len(queries[i].relevant)
  OBVIOUS
<1>4. DOMAIN queries[i].relevant = 1..l /\ H \in SUBSET (1..l)
  <2>1. DOMAIN queries[i].relevant = 1..l
    BY <1>3, OneReport
  <2>2. H \in SUBSET (1..l)
    BY <1>1, <1>2, <1>3, OneRecall
  <2>. QED
    BY <2>1, <2>2
<1>5. ASSUME NEW j \in 1..l PROVE WithinCutoff(GoldAt(reports, <<i, j>>).rank) <=> j \in H
  <2>1. reports[i].ranks[j].rank = RankOf(lists[i], queries[i].relevant[j])
    BY <1>3, <1>5, OneReport
  <2>2. GoldAt(reports, <<i, j>>) = reports[i].ranks[j]
    BY DEF GoldAt
  <2>3. PICK S : lists[i] \in Seq(S)
    BY DEF HasLists
  <2>4. j \in H <=> /\ RankOf(lists[i], queries[i].relevant[j]) # Unranked
                    /\ RankOf(lists[i], queries[i].relevant[j]) <= k
    BY <1>1, <1>2, <1>4, <2>3, HitByRank DEF HitsOf
  <2>. QED
    BY <1>1, <2>1, <2>2, <2>4 DEF WithinCutoff
<1>6. ASSUME NEW g PROVE g \in Golds(reports) /\ g[1] = i <=> \E j \in 1..l : g = <<i, j>>
  <2>1. Golds(reports) = UNION {{q} \X (1..Len(queries[q].relevant)) : q \in DOMAIN queries}
    BY GoldPlaces
  <2>2. g \in Golds(reports) <=> \E q \in DOMAIN queries : g \in {q} \X (1..Len(queries[q].relevant))
    BY <2>1
  <2>3. ASSUME g \in Golds(reports), g[1] = i PROVE \E j \in 1..l : g = <<i, j>>
    <3>1. PICK q \in DOMAIN queries : g \in {q} \X (1..Len(queries[q].relevant))
      BY <2>2, <2>3
    <3>2. PICK j \in 1..Len(queries[q].relevant) : g = <<q, j>>
      BY <3>1
    <3>3. q = i
      BY <2>3, <3>2
    <3>. QED
      BY <1>3, <3>2, <3>3
  <2>4. ASSUME NEW j \in 1..l, g = <<i, j>> PROVE g \in Golds(reports) /\ g[1] = i
    <3>1. g \in {i} \X (1..Len(queries[i].relevant))
      BY <1>3, <2>4
    <3>. QED
      BY <2>2, <2>4, <3>1
  <2>. QED
    BY <2>3, <2>4
<1>7. ASSUME NEW g PROVE g \in HitsIn(reports, Golds(reports)) /\ g[1] = i <=> \E j \in H : g = <<i, j>>
  BY <1>4, <1>5, <1>6 DEF HitsIn
<1>8. {g \in HitsIn(reports, Golds(reports)) : g[1] = i} = {i} \X H
  BY <1>7
<1>. QED
  BY <1>1, <1>2, <1>8

LEMMA MeanIs ==
  ASSUME NEW S, IsFiniteSet(S), S # {}, NEW f \in [S -> Fraction]
  PROVE  Mean(f) = <<SumOf(f)[1], SumOf(f)[2] * Cardinality(S)>>
<1>1. DOMAIN f = S
  OBVIOUS
<1>. QED
  BY <1>1 DEF Mean, SumOf

\* x of l hits, and H of b.
LEMMA SharesAdd ==
  ASSUME NEW a \in Nat, NEW b \in Nat, NEW x \in Nat, NEW l \in Nat, NEW H \in Nat,
         a * l = H * b
  PROVE  (x * b + a * l) * l = (x + H) * (l * b)
<1>1. (x * b + a * l) * l = (x * b + H * b) * l
  OBVIOUS
<1>2. (x * b + H * b) * l = (x + H) * (l * b)
  OBVIOUS
<1>. QED
  BY <1>1, <1>2

\* As many relevant keys in each query.
Even(queries) ==
  \A i, j \in DOMAIN queries : Len(queries[i].relevant) = Len(queries[j].relevant)

LEMMA EvenRecall ==
  ASSUME NEW queries, NEW lists, HasLists(queries, lists), NEW reports,
         reports = ReportsOf(queries, lists), Even(queries)
  PROVE  Equal(MicroRecall(reports), MeanRecall(reports)[Max(KValues)])
<1>1. PICK k : k = Max(KValues) /\ k \in KValues /\ k \in Nat
  BY CutoffIs
<1>2. PICK n \in Nat : n = Len(queries) /\ DOMAIN queries = 1..n
  BY DEF HasLists
<1>3. PICK hits : hits = HitsIn(reports, Golds(reports))
  OBVIOUS
<1>4. IsFiniteSet(Golds(reports)) /\ IsFiniteSet(hits)
  <2>1. hits \in SUBSET Golds(reports) /\ IsFiniteSet(Golds(reports))
    BY <1>3, GoldPlaces DEF HitsIn
  <2>. QED
    BY <2>1, FS_Subset
<1>5. PICK values : values = [i \in DOMAIN reports |-> reports[i].recall[k]]
  OBVIOUS
<1>6. DOMAIN reports = 1..n
  BY <1>2 DEF ReportsOf
<1>7. MeanRecall(reports)[k] = Mean(values)
  BY <1>1, <1>5 DEF MeanRecall
<1>8. MicroRecall(reports) = <<Cardinality(hits), Cardinality(Golds(reports))>>
  BY <1>3, RatioIs DEF MicroRecall
<1>9. CASE n = 0
  <2>1. DOMAIN values = {}
    BY <1>5, <1>6, <1>9
  <2>2. Mean(values) = <<0, 1>>
    BY <2>1 DEF Mean
  <2>3. Golds(reports) = {}
    BY <1>2, <1>9, GoldPlaces
  <2>4. hits = {}
    BY <1>3, <2>3 DEF HitsIn
  <2>5. Cardinality(hits) = 0 /\ Cardinality(Golds(reports)) = 0
    BY <2>3, <2>4, FS_EmptySet
  <2>. QED
    BY <1>1, <1>7, <1>8, <2>2, <2>5 DEF Equal
<1>10. CASE n # 0
  <2>1. PICK l \in Nat : \A i \in 1..n : l = Len(queries[i].relevant)
    <3>1. 1 \in DOMAIN queries
      BY <1>2, <1>10
    <3>2. Len(queries[1].relevant) \in Nat
      BY <3>1, OneReport
    <3>. QED
      BY <1>2, <3>1, <3>2 DEF Even
  <2>2. PICK H : H = [i \in 1..n |-> HitsOf(queries, lists, i, k)]
    OBVIOUS
  <2>3. ASSUME NEW i \in 1..n
        PROVE  /\ H[i] \in SUBSET (1..l) /\ IsFiniteSet(H[i]) /\ Cardinality(H[i]) \in Nat
               /\ values[i] = <<Cardinality(H[i]), l>>
    <3>1. PICK B : B = HitsOf(queries, lists, i, k) /\ H[i] = B
      BY <2>2
    <3>2. i \in DOMAIN queries /\ l = Len(queries[i].relevant)
      BY <1>2, <2>1
    <3>3. PICK report : report = ReportsOf(queries, lists)[i] /\ report = reports[i]
      OBVIOUS
    <3>4. /\ report.recall[k] = <<Cardinality(B), l>>
          /\ B \in SUBSET (1..l) /\ IsFiniteSet(B) /\ Cardinality(B) \in Nat
      BY <1>1, <3>1, <3>2, <3>3, OneRecall
    <3>. QED
      BY <1>5, <1>6, <3>1, <3>3, <3>4
  <2>4. values \in [1..n -> Fraction]
    <3>1. ASSUME NEW i \in 1..n PROVE values[i] \in Fraction
      <4>1. PICK c \in Nat : c = Cardinality(H[i])
        BY <2>3
      <4>2. values[i] = <<c, l>>
        BY <2>3, <4>1
      <4>. QED
        BY <4>2 DEF Fraction
    <3>. QED
      BY <1>5, <1>6, <3>1
  <2>5. IsFiniteSet(1..n) /\ Cardinality(1..n) = n
    BY FS_Interval
  <2>6. PICK h : h[1..n] = SumOf(values) /\ Adds(h, 1..n, values)
    BY <2>4, <2>5, FractionsFold
  <2>7. PICK G : G = [s \in SUBSET (1..n) |-> {g \in hits : g[1] \in s}]
    OBVIOUS
  <2>8. ASSUME NEW s \in SUBSET (1..n)
        PROVE  IsFiniteSet(G[s]) /\ Cardinality(G[s]) \in Nat
    <3>1. G[s] \in SUBSET hits
      BY <2>7
    <3>2. IsFiniteSet(G[s])
      BY <1>4, <3>1, FS_Subset
    <3>. QED
      BY <3>2, FS_CardinalityType
  <2>9. PICK T : T = {s \in SUBSET (1..n) : h[s][1] * l = Cardinality(G[s]) * h[s][2]}
    OBVIOUS
  <2>10. {} \in T
    <3>1. h[{}] = <<0, 1>>
      BY <2>6 DEF Adds
    <3>2. G[{}] = {}
      BY <2>7
    <3>3. Cardinality(G[{}]) = 0
      BY <3>2, FS_EmptySet
    <3>4. h[{}][1] = 0 /\ h[{}][2] = 1
      BY <3>1
    <3>5. h[{}][1] * l = Cardinality(G[{}]) * h[{}][2]
      BY <3>3, <3>4
    <3>. QED
      BY <2>9, <3>5
  <2>11. ASSUME NEW s \in SUBSET (1..n), s # {}, \A i \in s : s \ {i} \in T PROVE s \in T
    <3>1. PICK i \in s : s \ {i} \in T /\ i \in 1..n
      BY <2>11
    <3>2. PICK r \in SUBSET (1..n) : r = s \ {i}
      OBVIOUS
    <3>3. G[s] = ({i} \X H[i]) \cup G[r] /\ ({i} \X H[i]) \cap G[r] = {}
      <4>1. {g \in hits : g[1] = i} = {i} \X H[i]
        BY <1>1, <1>2, <1>3, <2>2, <3>1, HitsInOne
      <4>2. G[s] = {g \in hits : g[1] = i} \cup G[r]
        BY <2>7, <3>1, <3>2
      <4>3. {g \in hits : g[1] = i} \cap G[r] = {}
        BY <2>7, <3>2
      <4>. QED
        BY <4>1, <4>2, <4>3
    <3>4. IsFiniteSet({i} \X H[i]) /\ Cardinality({i} \X H[i]) = Cardinality(H[i])
      <4>1. IsFiniteSet({i}) /\ Cardinality({i}) = 1
        BY FS_Singleton
      <4>2. PICK A, B : A = {i} /\ B = H[i]
        OBVIOUS
      <4>3. IsFiniteSet(A) /\ Cardinality(A) = 1 /\ IsFiniteSet(B) /\ Cardinality(B) \in Nat
        BY <2>3, <3>1, <4>1, <4>2
      <4>4. IsFiniteSet(A \X B) /\ Cardinality(A \X B) = Cardinality(A) * Cardinality(B)
        BY <4>3, FS_Product
      <4>5. Cardinality(A \X B) = Cardinality(B)
        BY <4>3, <4>4
      <4>. QED
        BY <4>2, <4>4, <4>5
    <3>5. PICK x \in Nat, c \in Nat : x = Cardinality(H[i]) /\ c = Cardinality(G[r])
      BY <2>3, <2>8
    <3>6. Cardinality(G[s]) = x + c
      BY <2>8, <3>3, <3>4, <3>5, CountsAdd
    <3>7. PICK a \in Nat, b \in Nat : h[r] = <<a, b>>
      BY <2>6 DEF Adds, Fraction
    <3>8. a * l = c * b
      <4>1. h[r][1] * l = Cardinality(G[r]) * h[r][2]
        BY <2>9, <3>1, <3>2
      <4>2. h[r][1] = a /\ h[r][2] = b
        BY <3>7
      <4>. QED
        BY <3>5, <4>1, <4>2
    <3>9. h[s] = Plus(values[i], h[r])
      BY <2>6, <3>2 DEF Adds
    <3>10. h[s] = <<x * b + a * l, l * b>>
      BY <2>3, <3>1, <3>5, <3>7, <3>9 DEF Plus
    <3>11. h[s][1] = x * b + a * l /\ h[s][2] = l * b
      BY <3>10
    <3>12. (x * b + a * l) * l = (x + c) * (l * b)
      BY <3>8, SharesAdd
    <3>13. h[s][1] * l = Cardinality(G[s]) * h[s][2]
      BY <3>6, <3>11, <3>12
    <3>. QED
      BY <2>9, <3>13
  <2>12. 1..n \in T
    <3>1. SUBSET (1..n) \subseteq T
      <4>1. PICK S : S = 1..n
        OBVIOUS
      <4>2. \A s \in SUBSET S : s # {} /\ (\A i \in s : s \ {i} \in T) => s \in T
        BY <2>11, <4>1
      <4>3. SUBSET S \subseteq T
        BY <2>5, <2>10, <4>1, <4>2, SubsetsBySteps
      <4>. QED
        BY <4>1, <4>3
    <3>. QED
      BY <3>1
  <2>13. G[1..n] = hits
    <3>1. ASSUME NEW g \in hits PROVE g[1] \in 1..n
      <4>1. Golds(reports) = UNION {{q} \X (1..Len(queries[q].relevant)) : q \in DOMAIN queries}
        BY GoldPlaces
      <4>2. g \in Golds(reports)
        BY <1>3 DEF HitsIn
      <4>3. PICK q \in DOMAIN queries : g \in {q} \X (1..Len(queries[q].relevant))
        BY <4>1, <4>2
      <4>. QED
        BY <1>2, <4>3
    <3>. QED
      BY <2>7, <3>1
  <2>14. PICK a \in Nat, b \in Nat : SumOf(values) = <<a, b>>
    <3>1. h[1..n] \in Fraction
      BY <2>6 DEF Adds
    <3>. QED
      BY <2>6, <3>1 DEF Fraction
  <2>15. PICK c \in Nat : c = Cardinality(hits)
    BY <1>4, FS_CardinalityType
  <2>16. a * l = c * b
    BY <2>6, <2>9, <2>12, <2>13, <2>14, <2>15
  <2>17. Cardinality(Golds(reports)) = n * l
    <3>1. {{i} \X (1..Len(queries[i].relevant)) : i \in DOMAIN queries} = {{i} \X (1..l) : i \in 1..n}
      BY <1>2, <2>1
    <3>2. Golds(reports) = UNION {{i} \X (1..l) : i \in 1..n}
      BY <3>1, GoldPlaces
    <3>3. UNION {{i} \X (1..l) : i \in 1..n} = (1..n) \X (1..l)
      OBVIOUS
    <3>4. IsFiniteSet(1..l) /\ Cardinality(1..l) = l
      BY FS_Interval
    <3>5. Cardinality((1..n) \X (1..l)) = Cardinality(1..n) * Cardinality(1..l)
      BY <2>5, <3>4, FS_Product
    <3>. QED
      BY <2>5, <3>2, <3>3, <3>4, <3>5
  <2>18. Mean(values) = <<a, b * n>>
    <3>1. 1..n # {}
      <4>1. 1 \in 1..n
        BY <1>10
      <4>. QED
        BY <4>1
    <3>2. Mean(values) = <<SumOf(values)[1], SumOf(values)[2] * Cardinality(1..n)>>
      BY <2>4, <2>5, <3>1, MeanIs
    <3>. QED
      BY <2>5, <2>14, <3>2
  <2>19. c * (b * n) = a * (n * l)
    <3>1. c * (b * n) = (c * b) * n
      OBVIOUS
    <3>2. a * (n * l) = (a * l) * n
      OBVIOUS
    <3>. QED
      BY <2>16, <3>1, <3>2
  <2>. QED
    BY <1>1, <1>7, <1>8, <2>15, <2>17, <2>18, <2>19 DEF Equal
<1>. QED
  BY <1>9, <1>10

\* The tag is one of query i, and once.
Once(queries, tag, i) ==
  \E j \in DOMAIN queries[i].tags :
    \A n \in DOMAIN queries[i].tags : queries[i].tags[n] = tag <=> n = j

\* Where a tag is named.
UsesOf(queries, tag) ==
  {e \in UNION {{i} \X DOMAIN queries[i].tags : i \in DOMAIN queries} :
     queries[e[1]].tags[e[2]] = tag}

LEMMA TagsAre ==
  ASSUME NEW queries, NEW lists, HasLists(queries, lists), NEW reports,
         reports = ReportsOf(queries, lists), NEW tag \in DOMAIN TagRecall(reports)
  PROVE  /\ UsesOf(queries, tag) # {}
         /\ TagRecall(reports)[tag].queries = Cardinality(UsesOf(queries, tag))
         /\ TagRecall(reports)[tag].recall = MeanRecall([e \in UsesOf(queries, tag) |-> reports[e[1]]])
<1>1. PICK entries : entries = UNION {{i} \X DOMAIN reports[i].tags : i \in DOMAIN reports}
  OBVIOUS
<1>2. PICK uses : uses = {e \in entries : reports[e[1]].tags[e[2]] = tag}
  OBVIOUS
<1>3. PICK all : all = TagRecall(reports)
  OBVIOUS
<1>4. all = [t \in {reports[e[1]].tags[e[2]] : e \in entries} |->
               [queries |-> Cardinality({e \in entries : reports[e[1]].tags[e[2]] = t}),
                recall |-> MeanRecall([d \in {e \in entries : reports[e[1]].tags[e[2]] = t} |->
                                         reports[d[1]]])]]
  BY <1>1, <1>3, Zenon DEF TagRecall
<1>5. tag \in {reports[e[1]].tags[e[2]] : e \in entries}
  BY <1>3, <1>4
<1>6. uses # {}
  BY <1>2, <1>5
<1>7. /\ all[tag].queries = Cardinality(uses)
      /\ all[tag].recall = MeanRecall([e \in uses |-> reports[e[1]]])
  BY <1>2, <1>4, <1>5
<1>8. uses = UsesOf(queries, tag)
  <2>1. DOMAIN reports = DOMAIN queries
    BY DEF ReportsOf
  <2>2. ASSUME NEW i \in DOMAIN queries PROVE reports[i].tags = queries[i].tags
    <3>1. reports[i] = QueryReport(queries[i], lists[i])
      BY DEF ReportsOf
    <3>. QED
      BY <3>1 DEF QueryReport
  <2>3. {{i} \X DOMAIN reports[i].tags : i \in DOMAIN reports}
          = {{i} \X DOMAIN queries[i].tags : i \in DOMAIN queries}
    BY <2>1, <2>2
  <2>4. entries = UNION {{i} \X DOMAIN queries[i].tags : i \in DOMAIN queries}
    BY <1>1, <2>3
  <2>5. \A e \in entries : e[1] \in DOMAIN queries
    BY <2>4
  <2>6. \A e \in entries : reports[e[1]].tags[e[2]] = queries[e[1]].tags[e[2]]
    BY <2>2, <2>5
  <2>. QED
    BY <1>2, <2>4, <2>6 DEF UsesOf
<1>. QED
  BY <1>3, <1>6, <1>7, <1>8

\* A tag that every query has once tells what no tag tells.
LEMMA TagsOfAll ==
  ASSUME NEW queries, NEW lists, HasLists(queries, lists), NEW reports,
         reports = ReportsOf(queries, lists), NEW tag \in DOMAIN TagRecall(reports),
         \A i \in DOMAIN queries : Once(queries, tag, i)
  PROVE  /\ TagRecall(reports)[tag].queries = Len(reports)
         /\ \A k \in KValues : Equal(TagRecall(reports)[tag].recall[k], MeanRecall(reports)[k])
<1>1. PICK n \in Nat : n = Len(queries) /\ DOMAIN queries = 1..n
  BY DEF HasLists
<1>2. PICK uses : uses = UsesOf(queries, tag)
  OBVIOUS
<1>3. ASSUME NEW e \in uses
      PROVE  \E i \in 1..n : \E j \in DOMAIN queries[i].tags : e = <<i, j>> /\ queries[i].tags[j] = tag
  <2>1. e \in UNION {{i} \X DOMAIN queries[i].tags : i \in DOMAIN queries}
    BY <1>2 DEF UsesOf
  <2>2. PICK i \in DOMAIN queries : e \in {i} \X DOMAIN queries[i].tags
    BY <2>1
  <2>3. PICK j \in DOMAIN queries[i].tags : e = <<i, j>>
    BY <2>2
  <2>4. queries[e[1]].tags[e[2]] = tag
    BY <1>2 DEF UsesOf
  <2>. QED
    BY <1>1, <2>3, <2>4
<1>4. PICK m : m = [e \in uses |-> e[1]]
  OBVIOUS
<1>5. m \in [uses -> 1..n]
  <2>1. ASSUME NEW e \in uses PROVE m[e] \in 1..n
    BY <1>3, <1>4
  <2>. QED
    BY <1>4, <2>1
<1>6. ASSUME NEW d \in uses, NEW e \in uses, m[d] = m[e] PROVE d = e
  <2>1. PICK i \in 1..n : \E a \in DOMAIN queries[i].tags : d = <<i, a>> /\ queries[i].tags[a] = tag
    BY <1>3
  <2>2. PICK q \in 1..n : \E b \in DOMAIN queries[q].tags : e = <<q, b>> /\ queries[q].tags[b] = tag
    BY <1>3
  <2>3. q = i
    BY <1>4, <1>6, <2>1, <2>2
  <2>4. PICK j \in DOMAIN queries[i].tags :
          \A c \in DOMAIN queries[i].tags : queries[i].tags[c] = tag <=> c = j
    BY <1>1 DEF Once
  <2>5. d = <<i, j>> /\ e = <<i, j>>
    BY <2>1, <2>2, <2>3, <2>4
  <2>. QED
    BY <2>5
<1>7. ASSUME NEW i \in 1..n PROVE \E e \in uses : m[e] = i
  <2>1. PICK j \in DOMAIN queries[i].tags :
          \A c \in DOMAIN queries[i].tags : queries[i].tags[c] = tag <=> c = j
    BY <1>1 DEF Once
  <2>2. queries[i].tags[j] = tag
    BY <2>1
  <2>3. PICK e : e = <<i, j>>
    OBVIOUS
  <2>4. e[1] = i /\ e[2] = j
    BY <2>3
  <2>5. e \in {i} \X DOMAIN queries[i].tags
    BY <2>3
  <2>6. e \in uses
    BY <1>1, <1>2, <2>2, <2>4, <2>5 DEF UsesOf
  <2>. QED
    BY <1>4, <2>4, <2>6
<1>8. IsFiniteSet(1..n) /\ Cardinality(1..n) = n
  BY FS_Interval
<1>9. IsFiniteSet(uses) /\ Cardinality(uses) = n
  <2>1. m \in Injection(uses, 1..n) /\ m \in Surjection(uses, 1..n)
    BY <1>5, <1>6, <1>7 DEF Injection, Surjection, IsInjective
  <2>. QED
    BY <1>8, <2>1, FS_Injection
<1>10. DOMAIN reports = 1..n /\ Len(reports) = n
  BY <1>1 DEF ReportsOf
<1>11. PICK group : group = [e \in uses |-> reports[e[1]]]
  OBVIOUS
<1>12. /\ TagRecall(reports)[tag].queries = n
       /\ TagRecall(reports)[tag].recall = MeanRecall(group) /\ uses # {}
  BY <1>2, <1>9, <1>11, TagsAre
<1>13. ASSUME NEW k \in KValues
       PROVE  Equal(MeanRecall(group)[k], MeanRecall(reports)[k])
  <2>1. PICK f : f = [e \in uses |-> group[e].recall[k]]
    OBVIOUS
  <2>2. PICK g : g = [i \in 1..n |-> reports[i].recall[k]]
    OBVIOUS
  <2>3. MeanRecall(group)[k] = Mean(f) /\ MeanRecall(reports)[k] = Mean(g)
    BY <1>10, <1>11, <2>1, <2>2 DEF MeanRecall
  <2>4. \A e \in uses : f[e] = g[m[e]]
    BY <1>4, <1>5, <1>11, <2>1, <2>2
  <2>5. g \in [1..n -> Fraction]
    <3>1. ASSUME NEW i \in 1..n PROVE g[i] \in Fraction
      <4>1. PICK l \in Nat : l = Len(queries[i].relevant)
        BY <1>1, OneReport
      <4>2. PICK H : H = HitsOf(queries, lists, i, k)
        OBVIOUS
      <4>3. reports[i].recall[k] = <<Cardinality(H), l>> /\ Cardinality(H) \in Nat
        BY <1>1, <4>1, <4>2, OneRecall
      <4>4. PICK c \in Nat : c = Cardinality(H)
        BY <4>3
      <4>5. g[i] = <<c, l>>
        BY <2>2, <4>3, <4>4
      <4>. QED
        BY <4>5 DEF Fraction
    <3>. QED
      BY <2>2, <3>1
  <2>6. f \in [uses -> Fraction]
    <3>1. \A e \in uses : f[e] \in Fraction
      BY <1>5, <2>4, <2>5
    <3>. QED
      BY <2>1, <3>1
  <2>7. SumOf(f) = SumOf(g)
    <3>1. PICK R : R = 1..n
      OBVIOUS
    <3>2. IsFiniteSet(uses) /\ IsFiniteSet(R)
      BY <1>8, <1>9, <3>1
    <3>3. f \in [uses -> Fraction] /\ g \in [R -> Fraction]
      BY <2>5, <2>6, <3>1
    <3>4. m \in [uses -> R]
      BY <1>5, <3>1
    <3>5. \A x, y \in uses : m[x] = m[y] => x = y
      BY <1>6
    <3>6. \A z \in R : \E x \in uses : m[x] = z
      BY <1>7, <3>1
    <3>. QED
      BY <2>4, <3>2, <3>3, <3>4, <3>5, <3>6, SumsAlike
  <2>8. 1..n # {}
    BY <1>5, <1>12
  <2>9. Mean(f) = <<SumOf(f)[1], SumOf(f)[2] * n>>
    BY <1>9, <1>12, <2>6, MeanIs
  <2>10. Mean(g) = <<SumOf(g)[1], SumOf(g)[2] * n>>
    BY <1>8, <2>5, <2>8, MeanIs
  <2>11. Mean(f) = Mean(g)
    BY <2>7, <2>9, <2>10
  <2>. QED
    BY <2>3, <2>11 DEF Equal
<1>. QED
  BY <1>10, <1>12, <1>13

\* For all queries and all lists that answer them: short and long share out the relevant
\* keys, the keys followed by name share out theirs, the mean of the recalls is the recall
\* of all when the queries have as many relevant keys each, and a tag that each of them
\* has once tells what no tag tells (run.go summarize, tagSummaries, groupByTag; micro.go).
THEOREM EverySummaryAgrees ==
  ASSUME NEW queries, NEW lists, NEW runes, HasLists(queries, lists)
  PROVE  SummaryAgrees(queries, lists, runes)
<1>. DEFINE reports == [i \in DOMAIN queries |-> QueryReport(queries[i], lists[i])]
            s == Summary(reports, runes)
<1>1. reports = ReportsOf(queries, lists)
  BY DEF ReportsOf
<1>2. /\ s.queries = Len(reports) /\ s.recall = MeanRecall(reports)
      /\ s.tags = TagRecall(reports) /\ s.micro = MicroRecall(reports)
  <2>. HIDE DEF reports
  <2>. QED
    BY DEF Summary
<1>3. IsFiniteSet(Golds(reports))
  BY <1>1, GoldPlaces, Zenon
<1>4. s.micro = [i \in {1, 2} |-> s.lengths.short[i] + s.lengths.long[i]]
  BY <1>3, LengthsShareOut, Zenon
<1>5. s.long.all = [i \in {1, 2} |-> TotalOf(s.long.keys, i, LongGoldKeys)]
  BY <1>3, NamesShareOut, Zenon
<1>6. ASSUME Even(queries) PROVE Equal(s.micro, s.recall[Max(KValues)])
  <2>. HIDE DEF reports, s
  <2>. QED
    BY <1>1, <1>2, <1>6, EvenRecall
<1>7. ASSUME NEW tag \in DOMAIN s.tags, \A i \in DOMAIN queries : Once(queries, tag, i)
      PROVE  /\ s.tags[tag].queries = s.queries
             /\ \A k \in KValues : Equal(s.tags[tag].recall[k], s.recall[k])
  <2>. HIDE DEF reports, s
  <2>. QED
    BY <1>1, <1>2, <1>7, TagsOfAll
<1>. QED
  BY <1>4, <1>5, <1>6, <1>7, Zenon DEF SummaryAgrees, TotalOf, Even, Once

-----------------------------------------------------------------------------
(* Samples.                                                                 *)

\* The rank of a percentile: at least p in a hundred, and no more than it takes.
LEMMA RankOfPercentile ==
  ASSUME NEW n \in Nat \ {0}, NEW p \in 0..100
  PROVE  /\ PercentileRank(p, n) \in 1..n
         /\ 100 * PercentileRank(p, n) >= p * n
         /\ PercentileRank(p, n) = 1 \/ 100 * (PercentileRank(p, n) - 1) < p * n
<1>1. PICK q \in Nat : q = p * n /\ q <= 100 * n
  <2>1. p * n \in Nat /\ p * n <= 100 * n
    OBVIOUS
  <2>. QED
    BY <2>1
<1>2. PICK c \in Nat : c = (q + 99) \div 100 /\ 100 * c >= q /\ 100 * (c - 1) < q
  <2>1. PICK c \in Nat : c = (q + 99) \div 100
    OBVIOUS
  <2>2. 100 * c <= q + 99 /\ q + 99 < 100 * c + 100
    BY <2>1
  <2>. QED
    BY <2>1, <2>2
<1>3. c <= n
  BY <1>1, <1>2
<1>4. Min({n, c}) = c
  <2>1. {n, c} \subseteq Nat /\ {n, c} # {}
    OBVIOUS
  <2>2. Min({n, c}) \in {n, c} /\ \A y \in {n, c} : Min({n, c}) <= y
    BY <2>1, MinOfNaturals
  <2>. QED
    BY <1>3, <2>2
<1>5. PICK r \in Nat : r = Max({1, c}) /\ r >= 1 /\ r >= c /\ (r = 1 \/ r = c)
  <2>1. \E x \in {1, c} : \A y \in {1, c} : x >= y
    OBVIOUS
  <2>2. Max({1, c}) \in {1, c} /\ \A y \in {1, c} : Max({1, c}) >= y
    BY <2>1 DEF Max
  <2>. QED
    BY <2>2
<1>6. PercentileRank(p, n) = r
  BY <1>1, <1>2, <1>4, <1>5 DEF PercentileRank
<1>. QED
  BY <1>1, <1>2, <1>3, <1>5, <1>6

\* The samples that go before one.
AheadOf(samples, i) ==
  {j \in DOMAIN samples : samples[j] < samples[i] \/ (samples[j] = samples[i] /\ j < i)}

\* Every place is taken by one sample.
LEMMA SortedPlaces ==
  ASSUME NEW samples \in Seq(Nat), NEW r \in 1..Len(samples)
  PROVE  \E i \in DOMAIN samples :
           /\ Cardinality(AheadOf(samples, i)) = r - 1
           /\ Sorted(samples)[r] = samples[i]
<1>1. PICK n \in Nat : n = Len(samples) /\ DOMAIN samples = 1..n
  OBVIOUS
<1>2. IsFiniteSet(1..n) /\ Cardinality(1..n) = n
  BY FS_Interval
<1>3. \A i \in 1..n : samples[i] \in Nat
  BY <1>1
<1>4. ASSUME NEW i \in 1..n, NEW A, A = AheadOf(samples, i)
      PROVE  IsFiniteSet(A) /\ Cardinality(A) \in Nat /\ Cardinality(A) < n
  <2>1. A \in SUBSET (1..n) /\ i \notin A
    BY <1>1, <1>3, <1>4 DEF AheadOf
  <2>2. IsFiniteSet(A) /\ Cardinality(A) <= n /\ (n = Cardinality(A) => 1..n = A)
    BY <1>2, <2>1, FS_Subset
  <2>3. Cardinality(A) \in Nat
    BY <2>2, FS_CardinalityType
  <2>. QED
    BY <2>1, <2>2, <2>3
<1>5. ASSUME NEW i \in 1..n, NEW j \in AheadOf(samples, i)
      PROVE  Cardinality(AheadOf(samples, j)) < Cardinality(AheadOf(samples, i))
  <2>1. j \in 1..n
    BY <1>1 DEF AheadOf
  <2>2. PICK A, B : A = AheadOf(samples, j) /\ B = AheadOf(samples, i)
    OBVIOUS
  <2>3. ASSUME NEW x \in A PROVE x \in B
    <3>1. x \in 1..n
      BY <1>1, <2>2 DEF AheadOf
    <3>2. PICK u \in Nat, v \in Nat, w \in Nat : u = samples[x] /\ v = samples[j] /\ w = samples[i]
      BY <1>3, <2>1, <3>1
    <3>3. (u < v \/ (u = v /\ x < j)) /\ (v < w \/ (v = w /\ j < i))
      BY <2>2, <2>3, <3>2 DEF AheadOf
    <3>4. u < w \/ (u = w /\ x < i)
      BY <2>1, <3>1, <3>3
    <3>. QED
      BY <1>1, <2>2, <3>1, <3>2, <3>4 DEF AheadOf
  <2>4. j \in B /\ j \notin A
    BY <1>3, <2>1, <2>2 DEF AheadOf
  <2>5. A \in SUBSET B /\ A # B
    BY <2>3, <2>4
  <2>6. IsFiniteSet(B) /\ Cardinality(B) \in Nat /\ Cardinality(A) \in Nat
    BY <1>4, <2>1, <2>2
  <2>7. Cardinality(A) <= Cardinality(B) /\ (Cardinality(B) = Cardinality(A) => B = A)
    BY <2>5, <2>6, FS_Subset
  <2>. QED
    BY <2>2, <2>5, <2>6, <2>7
<1>6. ASSUME NEW i \in 1..n, NEW j \in 1..n, i # j
      PROVE  Cardinality(AheadOf(samples, i)) # Cardinality(AheadOf(samples, j))
  <2>1. i \in AheadOf(samples, j) \/ j \in AheadOf(samples, i)
    <3>1. PICK u \in Nat, v \in Nat : u = samples[i] /\ v = samples[j]
      BY <1>3
    <3>2. (u < v \/ (u = v /\ i < j)) \/ (v < u \/ (v = u /\ j < i))
      BY <1>6
    <3>. QED
      BY <1>1, <3>1, <3>2 DEF AheadOf
  <2>2. Cardinality(AheadOf(samples, i)) \in Nat /\ Cardinality(AheadOf(samples, j)) \in Nat
    BY <1>4
  <2>. QED
    BY <1>5, <2>1, <2>2
<1>7. PICK f : f = [i \in 1..n |-> Cardinality(AheadOf(samples, i)) + 1]
  OBVIOUS
<1>8. f \in [1..n -> 1..n]
  <2>1. ASSUME NEW i \in 1..n PROVE f[i] \in 1..n
    BY <1>4, <1>7
  <2>. QED
    BY <1>7, <2>1
<1>9. ASSUME NEW i \in 1..n, NEW j \in 1..n, f[i] = f[j] PROVE i = j
  <2>1. Cardinality(AheadOf(samples, i)) \in Nat /\ Cardinality(AheadOf(samples, j)) \in Nat
    BY <1>4
  <2>2. Cardinality(AheadOf(samples, i)) = Cardinality(AheadOf(samples, j))
    BY <1>7, <1>9, <2>1
  <2>. QED
    BY <1>6, <2>2
<1>10. f \in Injection(1..n, 1..n)
  BY <1>8, <1>9 DEF Injection, IsInjective
<1>11. f \in Surjection(1..n, 1..n)
  BY <1>2, <1>10, FS_Injection
<1>12. PICK a \in 1..n : f[a] = r
  BY <1>1, <1>11 DEF Surjection
<1>13. Cardinality(AheadOf(samples, a)) = r - 1
  <2>1. Cardinality(AheadOf(samples, a)) \in Nat
    BY <1>4
  <2>. QED
    BY <1>7, <1>12, <2>1
<1>14. PICK i : i = CHOOSE x \in DOMAIN samples : Cardinality(AheadOf(samples, x)) = r - 1
  OBVIOUS
<1>15. i \in DOMAIN samples /\ Cardinality(AheadOf(samples, i)) = r - 1
  BY <1>1, <1>13, <1>14
<1>16. Sorted(samples)[r] = samples[i]
  <2>1. Sorted(samples) = [m \in DOMAIN samples |->
          samples[CHOOSE x \in DOMAIN samples : Cardinality(AheadOf(samples, x)) = m - 1]]
    BY Zenon DEF Sorted, AheadOf
  <2>2. r \in DOMAIN samples
    BY <1>1
  <2>. QED
    BY <1>14, <2>1, <2>2
<1>. QED
  BY <1>15, <1>16

\* The number of samples up to x.
UpTo(samples, x) == {i \in DOMAIN samples : samples[i] <= x}

LEMMA PercentileRight ==
  ASSUME NEW samples \in Seq(Nat), samples # <<>>, NEW p \in 0..100
  PROVE  /\ Percentile(samples, p) \in ToSet(samples)
         /\ 100 * Cardinality(UpTo(samples, Percentile(samples, p))) >= p * Len(samples)
         /\ \A y \in ToSet(samples) : 100 * Cardinality(UpTo(samples, y)) >= p * Len(samples)
              => Percentile(samples, p) <= y
         /\ \A y \in ToSet(samples) : Cardinality(UpTo(samples, y)) \in Nat
<1>1. PICK n \in Nat \ {0} : n = Len(samples) /\ DOMAIN samples = 1..n
  OBVIOUS
<1>2. \A i \in 1..n : samples[i] \in Nat
  BY <1>1
<1>3. ToSet(samples) = {samples[i] : i \in 1..n}
  BY <1>1 DEF ToSet
<1>4. PICK r \in 1..n : /\ r = PercentileRank(p, n) /\ 100 * r >= p * n
                        /\ r = 1 \/ 100 * (r - 1) < p * n
  BY RankOfPercentile
<1>5. PICK i \in 1..n : /\ Cardinality(AheadOf(samples, i)) = r - 1
                        /\ Sorted(samples)[r] = samples[i]
  BY <1>1, SortedPlaces
<1>6. PICK x \in Nat : x = samples[i] /\ x = Percentile(samples, p)
  BY <1>1, <1>2, <1>4, <1>5 DEF Percentile
<1>7. ASSUME NEW y PROVE IsFiniteSet(UpTo(samples, y)) /\ Cardinality(UpTo(samples, y)) \in Nat
  <2>1. UpTo(samples, y) \in SUBSET (1..n)
    BY <1>1 DEF UpTo
  <2>2. IsFiniteSet(1..n)
    BY FS_Interval
  <2>3. IsFiniteSet(UpTo(samples, y))
    BY <2>1, <2>2, FS_Subset
  <2>. QED
    BY <2>3, FS_CardinalityType
<1>8. PICK A : A = AheadOf(samples, i)
  OBVIOUS
<1>9. IsFiniteSet(A) /\ Cardinality(A) = r - 1 /\ i \notin A /\ A \in SUBSET UpTo(samples, x)
  <2>1. A \in SUBSET UpTo(samples, x) /\ i \notin A
    <3>1. ASSUME NEW j \in A PROVE j \in UpTo(samples, x) /\ j # i
      <4>1. j \in 1..n /\ (samples[j] < x \/ (samples[j] = x /\ j < i))
        BY <1>1, <1>6, <1>8 DEF AheadOf
      <4>2. PICK u \in Nat : u = samples[j]
        BY <1>2, <4>1
      <4>3. u <= x
        BY <4>1, <4>2
      <4>4. j # i
        <5>1. ASSUME j = i PROVE FALSE
          <6>1. u = x
            BY <1>6, <4>2, <5>1
          <6>2. ~(u < x) /\ ~(j < i)
            BY <5>1, <6>1
          <6>. QED
            BY <4>1, <4>2, <6>2
        <5>. QED
          BY <5>1
      <4>. QED
        BY <1>1, <4>1, <4>2, <4>3, <4>4 DEF UpTo
    <3>. QED
      BY <3>1
  <2>2. IsFiniteSet(A)
    BY <1>7, <2>1, FS_Subset
  <2>. QED
    BY <1>5, <1>8, <2>1, <2>2
<1>10. Cardinality(UpTo(samples, x)) >= r
  <2>1. PICK B : B = A \cup {i}
    OBVIOUS
  <2>2. Cardinality(B) = r
    <3>1. Cardinality(B) = IF i \in A THEN Cardinality(A) ELSE Cardinality(A) + 1
      BY <1>9, <2>1, FS_AddElement
    <3>. QED
      BY <1>9, <3>1
  <2>3. i \in UpTo(samples, x)
    <3>1. x <= x
      OBVIOUS
    <3>. QED
      BY <1>1, <1>6, <3>1 DEF UpTo
  <2>4. B \in SUBSET UpTo(samples, x)
    BY <1>9, <2>1, <2>3
  <2>. QED
    BY <1>7, <2>2, <2>4, FS_Subset
<1>11. 100 * Cardinality(UpTo(samples, x)) >= p * n
  <2>1. p * n \in Nat
    OBVIOUS
  <2>. QED
    BY <1>4, <1>7, <1>10, <2>1
<1>12. ASSUME NEW y \in ToSet(samples), 100 * Cardinality(UpTo(samples, y)) >= p * n
       PROVE  x <= y
  <2>1. PICK j \in 1..n : y = samples[j] /\ y \in Nat
    BY <1>2, <1>3
  <2>2. PICK c \in Nat : c = Cardinality(UpTo(samples, y))
    BY <1>7
  <2>3. ASSUME y < x PROVE FALSE
    <3>1. UpTo(samples, y) \in SUBSET A
      <4>1. ASSUME NEW a \in UpTo(samples, y) PROVE a \in A
        <5>1. a \in 1..n /\ samples[a] <= y
          BY <1>1 DEF UpTo
        <5>2. samples[a] \in Nat
          BY <1>2, <5>1
        <5>3. samples[a] < samples[i]
          BY <1>6, <2>1, <2>3, <5>1, <5>2
        <5>. QED
          BY <1>1, <1>8, <5>1, <5>3 DEF AheadOf
      <4>. QED
        BY <4>1
    <3>2. c <= r - 1
      BY <1>9, <2>2, <3>1, FS_Subset
    <3>3. c # 0
      <4>1. j \in UpTo(samples, y)
        BY <1>1, <2>1 DEF UpTo
      <4>2. IsFiniteSet(UpTo(samples, y))
        BY <1>7
      <4>. QED
        BY <2>2, <4>1, <4>2, FS_EmptySet
    <3>4. PICK w \in Nat : w = p * n
      OBVIOUS
    <3>5. 100 * c >= w /\ (r = 1 \/ 100 * (r - 1) < w)
      BY <1>4, <1>12, <2>2, <3>4
    <3>. QED
      BY <1>4, <3>2, <3>3, <3>5
  <2>. QED
    BY <2>1, <2>3
<1>13. x \in ToSet(samples)
  BY <1>3, <1>6
<1>. QED
  BY <1>1, <1>6, <1>7, <1>11, <1>12, <1>13

LEMMA EveryPercentileAgrees ==
  ASSUME NEW samples \in Seq(Nat), samples # <<>>, NEW p \in 0..100
  PROVE  PercentileAgrees(samples, p)
<1>1. PICK enough : enough = {y \in ToSet(samples) :
                                100 * Cardinality(UpTo(samples, y)) >= p * Len(samples)}
  OBVIOUS
<1>2. PICK x : x = Percentile(samples, p)
  OBVIOUS
<1>3. ToSet(samples) \subseteq Nat
  BY DEF ToSet
<1>4. x \in enough /\ \A y \in enough : x <= y
  BY <1>1, <1>2, PercentileRight
<1>5. x = Min(enough)
  <2>1. enough \subseteq Nat /\ enough # {}
    BY <1>1, <1>3, <1>4
  <2>2. PICK z \in Nat : z = Min(enough) /\ z \in enough /\ \A y \in enough : z <= y
    BY <2>1, MinOfNaturals
  <2>3. x <= z /\ z <= x /\ x \in Nat
    BY <1>4, <2>1, <2>2
  <2>. QED
    BY <2>2, <2>3
<1>6. enough = {y \in ToSet(samples) :
                  100 * Quantify(DOMAIN samples, LAMBDA i : samples[i] <= y) >= p * Len(samples)}
  BY <1>1, Zenon DEF UpTo, Quantify
<1>. QED
  BY <1>2, <1>5, <1>6, Zenon DEF PercentileAgrees

\* For all samples: the percentiles of a report are samples, each the least that so many do
\* not exceed, between the least and the greatest and in order (metrics.go Percentile,
\* percentileRank; run.go latencyStats).
THEOREM EveryLatencyAgrees ==
  ASSUME NEW samples \in Seq(Nat)
  PROVE  LatencyAgrees(samples)
<1>. SUFFICES ASSUME samples # <<>> PROVE LatencyAgrees(samples)
  BY DEF LatencyAgrees
<1>1. PICK n \in Nat \ {0} : n = Len(samples) /\ DOMAIN samples = 1..n
  OBVIOUS
<1>2. ToSet(samples) \subseteq Nat
  BY DEF ToSet
<1>3. \A p \in 0..100 : PercentileAgrees(samples, p)
  BY EveryPercentileAgrees
<1>4. PICK at : at = [p \in 0..100 |-> Percentile(samples, p)]
  OBVIOUS
<1>5. ASSUME NEW p \in 0..100
      PROVE  /\ at[p] \in ToSet(samples) /\ at[p] \in Nat
             /\ 100 * Cardinality(UpTo(samples, at[p])) >= p * n
             /\ \A y \in ToSet(samples) : 100 * Cardinality(UpTo(samples, y)) >= p * n => at[p] <= y
             /\ \A y \in ToSet(samples) : Cardinality(UpTo(samples, y)) \in Nat
  BY <1>1, <1>2, <1>4, PercentileRight
<1>. 0 \in 0..100 /\ 50 \in 0..100 /\ 95 \in 0..100 /\ 100 \in 0..100
  OBVIOUS
<1>6. ASSUME NEW p \in 0..100, NEW q \in 0..100, p <= q PROVE at[p] <= at[q]
  <2>1. PICK c \in Nat : c = Cardinality(UpTo(samples, at[q])) /\ 100 * c >= q * n
    BY <1>5
  <2>2. PICK a \in Nat, b \in Nat : a = p * n /\ b = q * n /\ a <= b
    BY <1>6
  <2>3. 100 * c >= a
    <3>1. 100 * c >= b
      BY <2>1, <2>2, Zenon
    <3>. QED
      BY <2>2, <3>1
  <2>4. at[q] \in ToSet(samples)
    BY <1>5
  <2>5. 100 * Cardinality(UpTo(samples, at[q])) >= p * n
    BY <2>1, <2>2, <2>3
  <2>. QED
    BY <1>5, <2>4, <2>5
<1>7. at[0] = Min(ToSet(samples))
  <2>1. ASSUME NEW y \in ToSet(samples) PROVE at[0] <= y
    <3>1. PICK c \in Nat : c = Cardinality(UpTo(samples, y))
      BY <1>5
    <3>2. 100 * c >= 0 * n
      OBVIOUS
    <3>3. 100 * Cardinality(UpTo(samples, y)) >= 0 * n
      BY <3>1, <3>2
    <3>. QED
      BY <1>5, <3>3
  <2>2. PICK z \in Nat : z = Min(ToSet(samples)) /\ z \in ToSet(samples) /\ \A y \in ToSet(samples) : z <= y
    <3>1. at[0] \in ToSet(samples)
      BY <1>5
    <3>2. ToSet(samples) # {}
      BY <3>1
    <3>. QED
      BY <1>2, <3>2, MinOfNaturals
  <2>3. PICK x \in Nat : x = at[0] /\ x \in ToSet(samples)
    BY <1>5
  <2>4. x <= z /\ z <= x
    BY <2>1, <2>2, <2>3
  <2>. QED
    BY <2>2, <2>3, <2>4
<1>8. at[100] = Max(ToSet(samples))
  <2>1. PICK x \in Nat : x = at[100] /\ x \in ToSet(samples)
    BY <1>5
  <2>2. ASSUME NEW y \in ToSet(samples) PROVE y <= x
    <3>1. PICK U : U = UpTo(samples, x)
      OBVIOUS
    <3>2. U \in SUBSET (1..n)
      BY <1>1, <3>1 DEF UpTo
    <3>3. IsFiniteSet(1..n) /\ Cardinality(1..n) = n
      BY FS_Interval
    <3>4. IsFiniteSet(U) /\ Cardinality(U) <= n /\ (n = Cardinality(U) => 1..n = U)
      BY <3>2, <3>3, FS_Subset
    <3>5. Cardinality(U) \in Nat
      BY <3>4, FS_CardinalityType
    <3>6. 100 * Cardinality(U) >= 100 * n
      BY <1>5, <2>1, <3>1
    <3>7. U = 1..n
      BY <3>4, <3>5, <3>6
    <3>8. PICK i \in 1..n : y = samples[i]
      BY <1>1 DEF ToSet
    <3>. QED
      BY <3>1, <3>7, <3>8 DEF UpTo
  <2>3. Max(ToSet(samples)) \in ToSet(samples) /\ \A y \in ToSet(samples) : Max(ToSet(samples)) >= y
    <3>1. \E z \in ToSet(samples) : \A y \in ToSet(samples) : z >= y
      BY <1>2, <2>1, <2>2
    <3>. QED
      BY <3>1 DEF Max
  <2>4. PICK z \in Nat : z = Max(ToSet(samples)) /\ z <= x /\ x <= z
    BY <1>2, <2>1, <2>2, <2>3
  <2>. QED
    BY <2>1, <2>4
<1>9. at[0] <= at[50] /\ at[50] <= at[95] /\ at[95] <= at[100]
  <2>1. 0 <= 50 /\ 50 <= 95 /\ 95 <= 100
    OBVIOUS
  <2>2. \A p, q \in 0..100 : p <= q => at[p] <= at[q]
    BY <1>6
  <2>3. at[0] <= at[50]
    BY <2>1, <2>2, Zenon
  <2>4. at[50] <= at[95]
    BY <2>1, <2>2, Zenon
  <2>5. at[95] <= at[100]
    BY <2>1, <2>2, Zenon
  <2>. QED
    BY <2>3, <2>4, <2>5, Zenon
<1>10. PICK stats : stats = LatencyStats(samples)
  OBVIOUS
<1>11. stats.min = at[0] /\ stats.p50 = at[50] /\ stats.p95 = at[95] /\ stats.max = at[100]
  BY <1>4, <1>10 DEF LatencyStats
<1>. QED
  BY <1>3, <1>7, <1>8, <1>9, <1>10, <1>11 DEF LatencyAgrees

-----------------------------------------------------------------------------
(* The numbers of the reports there are.                                    *)

\* A run that is done has a list for each of its queries.
LEMMA DoneAnswers ==
  ASSUME EvalInv, NEW p \in Procs, stage[p] = "done", NEW r, r = run[p]
  PROVE  /\ HasLists(r.set.queries, r.lists)
         /\ \A n \in DOMAIN r.set.queries : AllDistinct(r.set.queries[n].relevant)
<1>1. PICK w : w = weights[ModelOf[p]]
  OBVIOUS
<1>2. Shape(p, "done", pc[p], r, w) /\ Progress("done", pc[p], r)
  BY <1>1, RunFacts DEF RunInv
<1>3. "done" \in Begun
  BY DEF Begun, Stages, Embeds
<1>4. PICK set \in SetsOf[p] : set = r.set /\ ValidSet(set)
  BY <1>2, <1>3 DEF Shape
<1>5. PICK T : T = [text : Texts, relevant : Seq(STRING), tags : Seq(STRING)]
  OBVIOUS
<1>6. PICK queries \in Seq(T) : queries = set.queries
  BY <1>5, SetFacts
<1>7. Len(queries) \in Nat /\ DOMAIN queries = 1..Len(queries)
  OBVIOUS
<1>8. ASSUME NEW n \in DOMAIN queries
      PROVE  /\ queries[n].relevant \in Seq(STRING) /\ queries[n].relevant # <<>>
             /\ AllDistinct(queries[n].relevant) /\ queries[n].tags \in Seq(STRING)
             /\ \E S : r.lists[n] \in Seq(S)
  <2>1. queries[n] \in [text : Texts, relevant : Seq(STRING), tags : Seq(STRING)]
    <3>1. queries[n] \in T
      BY <1>7
    <3>. QED
      BY <1>5, <3>1
  <2>2. ValidQuery(set, queries[n])
    BY <1>4, <1>6 DEF ValidSet
  <2>3. PICK list : list = r.lists[n] /\ IsList(list)
    BY <1>2, <1>4, <1>6, <1>7 DEF Progress
  <2>4. PICK h \in Nat : list = [i \in 1..h |-> list[i]]
    BY <2>3 DEF IsList
  <2>5. PICK S : S = {list[i] : i \in 1..h}
    OBVIOUS
  <2>6. list \in [1..h -> S]
    BY <2>4, <2>5
  <2>7. list \in Seq(S)
    BY <2>6
  <2>. QED
    BY <2>1, <2>2, <2>3, <2>7 DEF ValidQuery
<1>. QED
  BY <1>4, <1>6, <1>7, <1>8 DEF HasLists

LEMMA DoneAgrees ==
  ASSUME EvalInv, NEW p \in Procs, stage[p] = "done"
  PROVE  /\ \A n \in DOMAIN run[p].set.queries : ListAgrees(run[p].set.queries[n], run[p].lists[n])
         /\ SummaryAgrees(run[p].set.queries, run[p].lists, GoldRunes(run[p].set))
<1>1. PICK queries, lists : queries = run[p].set.queries /\ lists = run[p].lists
  OBVIOUS
<1>2. HasLists(queries, lists) /\ \A n \in DOMAIN queries : AllDistinct(queries[n].relevant)
  BY <1>1, DoneAnswers
<1>3. ASSUME NEW n \in DOMAIN queries PROVE ListAgrees(queries[n], lists[n])
  <2>1. PICK query, list : query = queries[n] /\ list = lists[n]
    OBVIOUS
  <2>2. /\ query.relevant \in Seq(STRING) /\ query.relevant # <<>> /\ AllDistinct(query.relevant)
        /\ \E S : list \in Seq(S)
    BY <1>2, <2>1 DEF HasLists
  <2>3. ListAgrees(query, list)
    BY <2>2, EveryListAgrees
  <2>. QED
    BY <2>1, <2>3
<1>4. SummaryAgrees(queries, lists, GoldRunes(run[p].set))
  BY <1>2, EverySummaryAgrees
<1>. QED
  BY <1>1, <1>3, <1>4

\* For any processes, databases and files: the numbers of every report that is written
\* can be had from one another (report.go: the summary is recomputed from the raw data).
THEOREM ReportsAgree ==
  EvalSpec => [](\A p \in Procs : stage[p] = "done" =>
                   \A n \in DOMAIN run[p].set.queries :
                     ListAgrees(run[p].set.queries[n], run[p].lists[n]))
<1>1. ASSUME EvalInv
      PROVE  \A p \in Procs : stage[p] = "done" =>
               \A n \in DOMAIN run[p].set.queries :
                 ListAgrees(run[p].set.queries[n], run[p].lists[n])
  BY <1>1, DoneAgrees
<1>. QED
  BY <1>1, EvalAlways, PTL

\* For all inputs and samples: the numbers are what their reference definitions say.
LEMMA InputsAgree == NumbersAgree
<1>1. ASSUME NEW input \in Inputs
      PROVE  /\ \A i \in DOMAIN input.queries : ListAgrees(input.queries[i], input.lists[i])
             /\ SummaryAgrees(input.queries, input.lists, input.runes)
  <2>1. PICK queries, lists : queries = input.queries /\ lists = input.lists
    OBVIOUS
  <2>2. queries \in Seq(Query) /\ lists \in Seq(Seq(STRING)) /\ Len(lists) = Len(queries)
    BY <2>1, MetricsAssumption
  <2>3. Len(queries) \in Nat /\ DOMAIN queries = 1..Len(queries) /\ DOMAIN lists = 1..Len(lists)
    BY <2>2
  <2>4. ASSUME NEW i \in DOMAIN queries
        PROVE  /\ queries[i].relevant \in Seq(STRING) /\ queries[i].relevant # <<>>
               /\ AllDistinct(queries[i].relevant) /\ queries[i].tags \in Seq(STRING)
               /\ lists[i] \in Seq(STRING)
    <3>1. queries[i] \in Query
      BY <2>2, <2>3
    <3>2. queries[i].relevant \in Seq(STRING) /\ queries[i].tags \in Seq(STRING)
      BY <3>1 DEF Query
    <3>3. queries[i].relevant # <<>> /\ IsInjective(queries[i].relevant)
      BY <2>1, MetricsAssumption
    <3>4. PICK T : T = Seq(STRING)
      OBVIOUS
    <3>5. lists \in Seq(T) /\ i \in 1..Len(lists)
      BY <2>2, <2>3, <3>4
    <3>6. lists[i] \in T
      BY <3>5
    <3>. QED
      BY <3>2, <3>3, <3>4, <3>6 DEF IsInjective, AllDistinct
  <2>5. HasLists(queries, lists)
    BY <2>3, <2>4 DEF HasLists
  <2>6. SummaryAgrees(queries, lists, input.runes)
    BY <2>5, EverySummaryAgrees
  <2>7. ASSUME NEW i \in DOMAIN queries PROVE ListAgrees(queries[i], lists[i])
    <3>1. PICK query, list : query = queries[i] /\ list = lists[i]
      OBVIOUS
    <3>2. /\ query.relevant \in Seq(STRING) /\ query.relevant # <<>> /\ AllDistinct(query.relevant)
          /\ list \in Seq(STRING)
      BY <2>4, <3>1
    <3>3. ListAgrees(query, list)
      BY <3>2, EveryListAgrees
    <3>. QED
      BY <3>1, <3>3
  <2>. QED
    BY <2>1, <2>6, <2>7
<1>2. ASSUME NEW samples \in Samples PROVE LatencyAgrees(samples)
  <2>1. samples \in Seq(Nat)
    BY MetricsAssumption
  <2>. QED
    BY <2>1, EveryLatencyAgrees
<1>. QED
  BY <1>1, <1>2 DEF NumbersAgree

\* For any processes, databases and files, and for any inputs: the numbers of Metrics are
\* what their reference definitions say, of what is handed to them and of every report
\* that is written (metrics.go, micro.go, run.go summarize).
THEOREM MetricsAlwaysAgree == EvalSpec => []MetricsAgree
<1>1. ASSUME EvalInv PROVE MetricsAgree
  BY <1>1, InputsAgree, DoneAgrees, Zenon DEF MetricsAgree
<1>. QED
  BY <1>1, EvalAlways, PTL
=============================================================================
