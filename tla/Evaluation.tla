------------------------------ MODULE Evaluation ------------------------------
(***************************************************************************)
(* cmd/eval and the Runner of internal/eval: an evaluation reads its files,*)
(* recreates a database of its own, puts the corpus and then the           *)
(* distractors, embeds its queries and measures each of them a number of   *)
(* rounds on two lanes, of which one embeds the query anew.  Several       *)
(* evaluations run at once; they share Ollama, a cache of vectors, and,    *)
(* when started under the same -eval-db, the database.                     *)
(*                                                                         *)
(* The store is its rows and the order in which a search lists them; its   *)
(* transactions are in PgStore, its ranking in Ranking, the calls of its   *)
(* embedder in Embedding, whose steps are steps of this module.  Times are *)
(* left out, and what is computed from a list of keys is in Metrics.       *)
(***************************************************************************)
EXTENDS Embedding, Metrics, FiniteSets

CONSTANTS
  DbOf,             \* by process, its -eval-db
  SetsOf,           \* by process, what may be in its files, and whether it has -embed-cache
  Vocabulary,       \* the tags that are declared
  Reserved,         \* keys that begin with DistractorKeyPrefix
  IngestBatchSize,
  Limit,
  Rounds,
  Score(_, _),      \* of a query's vector and a row's
  RunesOf(_),       \* the length of a text
  Nobody,           \* made no database
  NoDigest          \* the digest is not in the list of models

Databases == {DbOf[p] : p \in Procs}

Entry   == [key : STRING, text : Texts]
EvalSet == [passages : Seq(Entry), distractors : Seq(Entry), cached : BOOLEAN,
            queries : Seq([text : Texts, relevant : Seq(STRING), tags : Seq(STRING)])]

TextsOf(items) == [i \in DOMAIN items |-> items[i].text]

\* The calls of an embedder that a set leads to are among Calls: its passages in
\* one, its distractors in batches, and each of its queries.
CallsAreThere(set) ==
  LET is(texts, kind) == [texts |-> texts, kind |-> kind, cached |-> set.cached] \in Calls
  IN  /\ set.passages # <<>> => is(TextsOf(set.passages), "document")
      /\ \A i, j \in DOMAIN set.distractors : i <= j /\ j - i < IngestBatchSize
           => is(TextsOf(SubSeq(set.distractors, i, j)), "document")
      /\ \A i \in DOMAIN set.queries : is(<<set.queries[i].text>>, "query")

\* Distractor.Key puts the prefix in front.
ASSUME EvaluationAssumption ==
  /\ IngestBatchSize \in Nat \ {0} /\ Limit \in Nat \ {0} /\ Rounds \in Nat \ {0}
  /\ Nobody \notin Procs /\ NoDigest \notin 0..MaxPulls
  /\ \A q, v \in Vector : Score(q, v) \in Int
  /\ \A p \in Procs : \A set \in SetsOf[p] :
       /\ set \in EvalSet /\ CallsAreThere(set)
       /\ \A i \in DOMAIN set.distractors : set.distractors[i].key \in Reserved

VARIABLES
  db,      \* by name, a database: schema, rows by id, who recreated it last
  stage,   \* by process, where its evaluation is
  run      \* by process, what it has so far

evaluation == <<db, stage, run>>
evalVars   == <<vars, evaluation>>

Embeds == {"corpus", "distractors", "queries", "warmup", "search"}
Stages == Embeds \cup {"start", "create", "migrate", "vector", "report", "done", "failed"}

EmptySet == [passages |-> <<>>, queries |-> <<>>, distractors |-> <<>>,
             cached |-> FALSE]

\* at counts the distractors that are in, or the queries dealt with in this
\* stage; listed is the answer of the first lane; since the weights at the start.
NoRun == [set |-> EmptySet, keys |-> <<>>, vectors |-> <<>>, at |-> 0, round |-> 1,
          listed |-> <<>>, lists |-> <<>>, since |-> 0, digest |-> NoDigest, why |-> ""]

EvalInit ==
  /\ Init
  /\ db = [d \in Databases |-> [schema |-> "absent", rows |-> <<>>, maker |-> Nobody]]
  /\ stage = [p \in Procs |-> "start"]
  /\ run = [p \in Procs |-> NoRun]

Enter(p, s) == stage' = [stage EXCEPT ![p] = s]

\* The error is all that is left of a run.
Quit(p, why) ==
  /\ Enter(p, "failed")
  /\ run' = [run EXCEPT ![p] = [NoRun EXCEPT !.why = why]]

Db(p)   == db[DbOf[p]]
Done(p) == stage[p] \in {"start", "done", "failed"}

-----------------------------------------------------------------------------
(* The files.                                                               *)

AllDistinct(s) == \A i, j \in DOMAIN s : s[i] = s[j] => i = j

PassageKeys(set) == {set.passages[i].key : i \in DOMAIN set.passages}

\* LoadPassages.
ValidPassages(set) == AllDistinct([i \in DOMAIN set.passages |-> set.passages[i].key])

\* Query.validate, danglingRelevant and unknownTags.
ValidQuery(set, q) ==
  /\ q.relevant # <<>> /\ AllDistinct(q.relevant) /\ q.tags # <<>>
  /\ ToSet(q.relevant) \subseteq PassageKeys(set)
  /\ ToSet(q.tags) \subseteq Vocabulary

\* LoadDistractors: the key is made of the document and the position in it.
ValidDistractors(set) ==
  AllDistinct([i \in DOMAIN set.distractors |-> set.distractors[i].key])

\* LoadDataset and LoadDistractorFile; no database is touched before.
ValidSet(set) ==
  /\ ValidPassages(set) /\ ValidDistractors(set)
  /\ \A i \in DOMAIN set.queries : ValidQuery(set, set.queries[i])

\* start and loadInput.
LoadInput(p) ==
  /\ stage[p] = "start"
  /\ \E set \in SetsOf[p] :
       IF ValidSet(set)
         THEN /\ Enter(p, "create")
              /\ run' = [run EXCEPT ![p] = [NoRun EXCEPT !.set = set,
                                                         !.since = weights[ModelOf[p]]]]
         ELSE Quit(p, "input")
  /\ UNCHANGED <<vars, db>>

-----------------------------------------------------------------------------
(* The database.                                                            *)

\* DROP DATABASE ... WITH (FORCE), which throws out whoever is connected, and
\* CREATE DATABASE, which may fail on its own.
Recreate(p) ==
  /\ stage[p] = "create"
  /\ \E schema \in {"absent", "empty"} :
       /\ db' = [db EXCEPT ![DbOf[p]] = [schema |-> schema, rows |-> <<>>, maker |-> p]]
       /\ IF schema = "empty" THEN Enter(p, "migrate") /\ UNCHANGED run
                              ELSE Quit(p, "error")
  /\ UNCHANGED vars

\* Open, New and Migrate on what has that name now.
MigrateDb(p) ==
  /\ stage[p] = "migrate"
  /\ IF Db(p).schema = "absent" THEN Quit(p, "error") /\ UNCHANGED db
     ELSE /\ db' = [db EXCEPT ![DbOf[p]].schema = "migrated"]
          /\ Enter(p, "corpus") /\ UNCHANGED run
  /\ UNCHANGED vars

-----------------------------------------------------------------------------
(* What is embedded, and for what.                                          *)

\* The distractors of the next batch.
NextDistractors(p) ==
  LET r == run[p]
  IN  SubSeq(r.set.distractors, r.at + 1,
             Smaller(r.at + IngestBatchSize, Len(r.set.distractors)))

\* Mutant: the stored vectors of the queries are embedded as documents.
QueryKind_AsDocument(p) == IF stage[p] = "queries" THEN "document" ELSE "query"

\* embedQuery and encodeQueryText.
QueryKind(p) == "query"

CallOf(p) ==
  LET call(texts, kind) == [texts |-> texts, kind |-> kind, cached |-> run[p].set.cached]
  IN  CASE stage[p] = "corpus"      -> call(TextsOf(run[p].set.passages), "document")
        [] stage[p] = "distractors" -> call(TextsOf(NextDistractors(p)), "document")
        [] OTHER -> call(<<run[p].set.queries[run[p].at + 1].text>>, QueryKind(p))

\* Measure, ingest and embedQueries refuse, the first two only now that the
\* database has been recreated: keyPrefixConflict, and nothing to begin with.
Refused(p) ==
  LET set == run[p].set
  IN  \/ stage[p] = "corpus"  /\ (set.passages = <<>> \/ PassageKeys(set) \cap Reserved # {})
      \/ stage[p] = "queries" /\ set.queries = <<>>

AskEmbedder(p) ==
  /\ stage[p] \in Embeds
  /\ IF Refused(p)
       THEN pc[p] = "idle" /\ Quit(p, "input") /\ UNCHANGED <<vars, db>>
       ELSE Embed(p, CallOf(p)) /\ UNCHANGED evaluation

EmbedderFails(p) ==
  /\ pc[p] = "failed"
  /\ Return(p)
  /\ Quit(p, "error")
  /\ UNCHANGED db

\* The embedder has answered.
Answers(p, s) == stage[p] = s /\ pc[p] = "ok" /\ Return(p)

-----------------------------------------------------------------------------
(* Ingest.                                                                  *)

AfterIngest(p, at) ==
  IF at < Len(run[p].set.distractors) THEN "distractors" ELSE "queries"

\* The sequence of a new database counts from one, and Put answers in order.
IdOf(p, i) == Len(Db(p).rows) + i

\* Put of a batch: the rows are in, and the keys go to their ids by position.  An
\* id that has a key already ends the run; the rows stay.
PutBatch(p, items) ==
  LET ids  == {IdOf(p, i) : i \in DOMAIN items}
      keys == run[p].keys
      at   == IF stage[p] = "corpus" THEN 0 ELSE run[p].at + Len(items)
  IN  IF Db(p).schema # "migrated" THEN Quit(p, "error") /\ UNCHANGED db
      ELSE /\ db' = [db EXCEPT ![DbOf[p]].rows = @ \o task[p].vectors]
           /\ IF ids \cap DOMAIN keys # {} THEN Quit(p, "twice")
              ELSE /\ run' = [run EXCEPT
                        ![p].keys = [id \in DOMAIN keys \cup ids |->
                           IF id \in ids
                             THEN items[CHOOSE i \in DOMAIN items : IdOf(p, i) = id].key
                             ELSE keys[id]],
                        ![p].at = IF AfterIngest(p, at) = "queries" THEN 0 ELSE at]
                   /\ Enter(p, AfterIngest(p, at))

PutCorpus(p)      == Answers(p, "corpus")      /\ PutBatch(p, run[p].set.passages)
PutDistractors(p) == Answers(p, "distractors") /\ PutBatch(p, NextDistractors(p))

-----------------------------------------------------------------------------
(* Measuring.                                                               *)

\* The query after this one, or the stage after this one.
NextQuery(p, then) ==
  LET last == run[p].at + 1 = Len(run[p].set.queries)
  IN  [at |-> IF last THEN 0 ELSE run[p].at + 1, stage |-> IF last THEN then ELSE stage[p]]

\* embedQueries.
KeepVector(p) ==
  /\ Answers(p, "queries")
  /\ run' = [run EXCEPT ![p].vectors = @ \o task[p].vectors,
                        ![p].at = NextQuery(p, "warmup").at]
  /\ Enter(p, NextQuery(p, "warmup").stage)
  /\ UNCHANGED db

\* One query on both lanes; what they list is not looked at.
WarmUp(p) ==
  /\ Answers(p, "warmup")
  /\ IF Db(p).schema # "migrated" THEN Quit(p, "error")
     ELSE /\ run' = [run EXCEPT ![p].at = NextQuery(p, "search").at]
          /\ Enter(p, NextQuery(p, "search").stage)
  /\ UNCHANGED db

\* ORDER BY score DESC, id.
Before(q, rows, i, j) ==
  \/ Score(q, rows[i]) > Score(q, rows[j])
  \/ Score(q, rows[i]) = Score(q, rows[j]) /\ i < j

\* The first of the ids in order: i - 1 go before the i-th.
Best(q, rows, ids) ==
  [i \in 1..Smaller(Limit, Cardinality(ids)) |->
     CHOOSE id \in ids : Cardinality({j \in ids : Before(q, rows, j, id)}) = i - 1]

Listing(p, q) == Best(q, Db(p).rows, DOMAIN Db(p).rows)

\* The lane that embeds the query: timedSearch.
Search(p) ==
  /\ Answers(p, "search")
  /\ IF Db(p).schema # "migrated" THEN Quit(p, "error")
     ELSE /\ run' = [run EXCEPT ![p].listed = Listing(p, task[p].vectors[1])]
          /\ Enter(p, "vector")
  /\ UNCHANGED db

\* Mutant: nobody looks whether the map knows the id.
Foreign_NotAsked(p, list) == FALSE

\* rankedEntries: an id that this run has not been given.
Foreign(p, list) == ~(ToSet(list) \subseteq DOMAIN run[p].keys)

\* A map has the empty string for an id it does not know.
KeyAt(keys, id) == IF id \in DOMAIN keys THEN keys[id] ELSE ""

KeysOf(p, list) == [i \in DOMAIN list |-> KeyAt(run[p].keys, list[i])]

LanesDiffer(p) == Quit(p, "diverged")

\* The end of a round: the list of the first one is kept.
RoundDone(p, list) ==
  LET r == run[p]
      last == r.round = Rounds
  IN  /\ run' = [run EXCEPT ![p].listed = <<>>,
                   ![p].lists = IF r.round = 1 THEN Append(@, KeysOf(p, list)) ELSE @,
                   ![p].round = IF last THEN 1 ELSE @ + 1,
                   ![p].at = IF last THEN @ + 1 ELSE @]
      /\ Enter(p, IF last /\ r.at + 1 = Len(r.set.queries) THEN "report" ELSE "search")

\* The lane with the vector embedded before, and the comparison of both.
SearchVector(p) ==
  /\ stage[p] = "vector"
  /\ LET one == run[p].listed
         two == Listing(p, run[p].vectors[run[p].at + 1])
     IN  IF Db(p).schema # "migrated" THEN Quit(p, "error")
         ELSE IF Foreign(p, one) \/ Foreign(p, two) THEN Quit(p, "foreign")
         ELSE IF KeysOf(p, one) # KeysOf(p, two) THEN LanesDiffer(p)
         ELSE RoundDone(p, one)
  /\ UNCHANGED <<vars, db>>

\* environment asks for the digest only now, and for the version of the vector
\* extension, which a database has once it is migrated; then the report is written.
WriteReport(p) ==
  /\ stage[p] = "report"
  /\ IF Db(p).schema # "migrated" THEN Quit(p, "error")
     ELSE /\ \E digest \in {weights[ModelOf[p]], NoDigest} :
               run' = [run EXCEPT ![p].digest = digest]
          /\ Enter(p, "done")
  /\ UNCHANGED <<vars, db>>

\* A call to the database or for the digest fails, the report cannot be written,
\* or evalTimeout is over.
GiveUp(p) ==
  /\ ~Done(p) /\ pc[p] = "idle"
  /\ Quit(p, "error")
  /\ UNCHANGED <<vars, db>>

-----------------------------------------------------------------------------

Advance(p) ==
  \/ Recreate(p) \/ MigrateDb(p)
  \/ AskEmbedder(p) \/ EmbedderFails(p)
  \/ Step(p) /\ UNCHANGED evaluation
  \/ PutCorpus(p) \/ PutDistractors(p)
  \/ KeepVector(p) \/ WarmUp(p) \/ Search(p) \/ SearchVector(p)
  \/ WriteReport(p) \/ GiveUp(p)

\* A process dies, wherever it is, and is started again.
Die(p) ==
  /\ ~Done(p)
  /\ Crash(p)
  /\ Enter(p, "start")
  /\ run' = [run EXCEPT ![p] = NoRun]
  /\ UNCHANGED db

EvalNext ==
  \/ \E p \in Procs : LoadInput(p) \/ Advance(p) \/ Die(p)
  \/ \E m \in Models : Pull(m) /\ UNCHANGED evaluation

EvalSpec == EvalInit /\ [][EvalNext]_evalVars

\* A process that has begun goes on: requests to Ollama are bounded by
\* ollamaTimeout, everything by evalTimeout.
EvalFairSpec == EvalSpec /\ \A p \in Procs : WF_evalVars(Advance(p))

-----------------------------------------------------------------------------
(* Properties.                                                              *)

\* The embedder is in order, ids have keys, and a measurement has a vector for
\* every query it has got to (plan: both have the same index).
EvalTypeOK ==
  /\ TypeOK
  /\ \A d \in Databases :
       /\ db[d].schema \in {"absent", "empty", "migrated"}
       /\ db[d].rows \in Seq(Vector) /\ db[d].maker \in Procs \cup {Nobody}
  /\ stage \in [Procs -> Stages]
  /\ \A p \in Procs :
       LET r == run[p]
       IN  /\ DOMAIN r.keys \subseteq Nat /\ r.vectors \in Seq(Vector)
           /\ r.round \in 1..Rounds /\ r.since \in 0..MaxPulls
           /\ stage[p] \in {"warmup", "search", "vector", "report"} =>
                Len(r.vectors) = Len(r.set.queries) /\ r.at <= Len(r.set.queries)

\* The rows of p itself in the database it recreated, by the ids it was given.
Own(p) == DOMAIN run[p].keys

\* The text in the files of p that has the key.
TextOf(p, key) ==
  {e.text : e \in {e \in ToSet(run[p].set.passages) \cup ToSet(run[p].set.distractors) :
                     e.key = key}}

\* A report on a database that nobody has recreated meanwhile is about this
\* run's rows: each id has the key of the text in its row, each query's list is
\* the best of them by the query's vector, and a relevant key is missing only
\* where Limit others are better.  Rows of somebody else, who went on after his
\* database had been dropped, do not change that (rankedEntries, ingest,
\* putDistractors; ADR 0013: the mapping from ids to keys).
ReportIsTrue ==
  \A p \in Procs : stage[p] = "done" /\ Db(p).maker = p =>
    LET r == run[p]
    IN  /\ \A id \in Own(p) : TextOf(p, r.keys[id]) = {Db(p).rows[id].text}
        /\ \A n \in DOMAIN r.set.queries :
             LET best == Best(r.vectors[n], Db(p).rows, Own(p))
             IN  /\ r.lists[n] = [i \in DOMAIN best |-> r.keys[best[i]]]
                 /\ \A i \in DOMAIN QueryReport(r.set.queries[n], r.lists[n]).ranks :
                      LET gold == QueryReport(r.set.queries[n], r.lists[n]).ranks[i]
                      IN  gold.rank = Unranked => Len(best) = Limit

\* An evaluation that does not believe its lists has a reason: its lanes differ
\* only if other weights have come since it began, or another evaluation has
\* taken its database or put rows there; and only the latter lets it meet an id
\* it does not know, or one twice (measureQuery: "a search is deterministic").
FailsForCause ==
  [][\A p \in Procs :
       stage[p] # "failed" /\ stage'[p] = "failed" =>
         LET disturbed == Db(p).maker # p \/ Len(Db(p).rows) # Cardinality(Own(p))
             why == run'[p].why
         IN  /\ why \in {"foreign", "twice"} => disturbed
             /\ why = "diverged" => disturbed \/ weights[ModelOf[p]] # run[p].since]_evalVars

\* When no other weights came while it ran, the digest in a report is that of all
\* its query vectors, and of its rows where it has no cache (Environment: the
\* digest is recorded so that reports can be compared afterwards).  The rows of
\* one with a cache may have been embedded by any weights there ever were.
DigestIsOfWeights ==
  \A p \in Procs : stage[p] = "done" /\ run[p].digest = run[p].since =>
    /\ \A n \in DOMAIN run[p].vectors : run[p].vectors[n].weights = run[p].digest
    /\ ~run[p].set.cached /\ Db(p).maker = p =>
         \A id \in Own(p) : Db(p).rows[id].weights = run[p].digest

\* goldRunes: the lengths of the passages.
GoldRunes(set) ==
  [key \in PassageKeys(set) |->
     RunesOf((CHOOSE item \in ToSet(set.passages) : item.key = key).text)]

\* The numbers of Metrics are what their reference definitions say, of every report
\* that is written and, before anybody begins, of every input there is: recall and
\* ranks can be had from one another, the summaries by length, by key and by tag
\* share out the same hits, and a percentile is the least sample that is enough
\* (metrics.go, micro.go, summarize).
MetricsAgree ==
  /\ (\A p \in Procs : stage[p] = "start") => NumbersAgree
  /\ \A p \in Procs : stage[p] = "done" =>
       LET set == run[p].set
           lists == run[p].lists
       IN  /\ \A n \in DOMAIN set.queries : ListAgrees(set.queries[n], lists[n])
           /\ SummaryAgrees(set.queries, lists, GoldRunes(set))

\* Every evaluation ends, with a report or with an error, unless its process dies
\* (a round whose lanes differ is not tried again).
RunsEnd == \A p \in Procs : stage[p] = "create" ~> Done(p)
=============================================================================
