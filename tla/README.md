# TLA+ verification of nene-recall

nene-recall is a self-hosted retrieval service for RAG: an HTTP server that
stores chunks of text per organisation, embeds them, and answers searches with
a weighted sum of a vector score and a lexical score. This directory holds TLA+
models of it, the TLC runs that check them on small instances, and proofs that
TLAPS checks for every size.

## 1. Inventory

| Part | State it keeps | Operations | Meets the others through |
| --- | --- | --- | --- |
| `internal/index`, `chunk`, `org` | none; the contract | `Writer.Put/Delete/DeleteBySource/DeleteByDocument`, `Searcher.Search`, sentinels | implemented by both stores, called by the HTTP layer |
| `internal/store/postgres` | table `chunks`, its identity sequence, `schema_migrations` | the contract, `SearchVector`, `Migrate`, `Ping`, `Close` | one statement at a time to PostgreSQL at READ COMMITTED; any number of processes |
| `internal/store/sqlite` | one WAL file: `chunks`, `chunks_fts`, `sqlite_sequence`, `schema_migrations` | the same | the file's only write lock, snapshots per statement, three triggers |
| `internal/httpapi` | none per request; `Server` is read-only | five API routes, `/healthz`, `/readyz` | calls Searcher and Writer, probes the store and the embedder |
| `internal/embed/ollama` | none | `Embed` (batches of 32), `Ping` | HTTP to Ollama |
| `internal/lexical/*` | none | `Tokenize`, `ID` | called by the stores for contents and queries |
| `internal/config`, `cmd/recall` | the process: store, listener, handlers in flight | load, build, migrate, serve, shut down, close | wires everything |
| `internal/eval`, `cmd/eval` | a database of its own, a cache of vectors on disk, the keys of the ids, the report | load, recreate, ingest, embed queries, warm up, measure in rounds, report | drives a store directly; shares Ollama, the cache and, under one `-eval-db`, the database with other evaluations |
| `cmd/recallctl` | none | `put`, `search`, `delete*`, `health` | one HTTP request per invocation; its exit code is read by scripts |
| `tools/conformance`, `tools/wikidistract` | none | static checks, corpus generation | none at run time |

What is hard about it:

* **Concurrency in the stores.** Handlers of any number of processes work on
  one database. A Put is a transaction of many statements, a bulk delete locks
  rows one by one, a search is two or three statements with a snapshot each.
* **The single-space rule (ADR 0005).** Vectors of different models, or tokens
  of different tokenizers, must never be compared; a wrong answer looks like a
  slightly worse one. The rule is enforced by a check in front of each call.
* **Identity of chunks (ADR 0013, 0017, 0020).** Callers keep the ids that `Put`
  answered. An id must never come to name another chunk, and an external id
  names one row of its organisation however often it is sent again.
* **Failure.** Statements fail, clients go away, COMMIT's answer is lost and the
  caller retries, processes die at any line, several processes migrate at once.
* **The process.** A handler may wait a minute for the embedder while the
  shutdown waits ten seconds; every step of the start has its own way out.
* **Ranking (ADR 0015, 0017, 0022).** Three statements and one loop in Go are to
  mean the same by a score. Nothing fails when they do not.
* **The evaluation.** Ids are given keys by position, batch after batch; a query is
  measured on two lanes, one with a vector from before. A mistake there is a
  slightly different recall.
* **The exit code of recallctl.** A script decides from it whether a write has to
  be sent again.
* **The cache of vectors.** Files half written by a dead or a living process, and
  batches of which one fails, must not shift vectors against their texts.

The hazards are listed one by one in `PROJECT.json`.

## 2. Modules

    Chunks ── ChunkStore                 data, requests; the promise of a store
       ├───── PgStore ── PgSpace         internal/store/postgres
       │                └─ PgStoreProofs        (of PgStore and PgSpace)
       └───── SqliteStore                internal/store/sqlite
                 └─ SqliteStoreProofs
    Migrations ── MigrationsProofs       Store.Migrate of both stores
    HttpApi ── Server ── ServerProofs    internal/httpapi, cmd/recall
                  └───── Recallctl ── RecallctlProofs   cmd/recallctl, with the server
    Ranking ── RankingProofs             what a search lists, and in which order
    Embedding ─┬─ EmbeddingProofs        internal/embed/ollama, the evaluation's cache
    Metrics ───┴─ Evaluation             internal/eval, cmd/eval
                     └─ EvaluationProofs        (of Evaluation and Metrics)
    MC*                                  instances for TLC

The modules meet in what they share by value: Server takes the outcomes of a
store's call from the sentinels of `internal/index`, the stores take the outcome
of an embedding as "vectors or an error", Ranking takes the rows a store's WHERE
clause lets pass. Two of them are composed step by step: Recallctl puts clients on
connections of Server, Evaluation runs the calls of Embedding as steps of its own.
`Implements` says that both stores implement ChunkStore; TLC checks it and TLAPS
proves it. That Recallctl implements Server, and Evaluation Embedding, is proved.

### Stores

**Chunks** has the data: chunks as callers send them, rows, the three kinds of
request, the validation both stores do before any I/O, and the WHERE clauses.

**ChunkStore** is the abstract specification. Every call takes effect at most
once, atomically, between its start and its answer; "ok" means it took effect,
an error that it did not, "lost" that it did and the caller cannot know.

**PgStore** is `internal/store/postgres` with one action per statement.

| Action | Code |
| --- | --- |
| `Receive` | entry of Put/Delete*/Search, `validateChunks`, `validateOrgID`, `validateQuery` |
| `EmbedFails` | `encodeContents`, `encodeQueryText` returning an error |
| `BeginPut` | `insertChunks` up to the check in `insertWithinTx` |
| `InsertChunk` | one turn of the loop of `insertWithinTx` |
| `CommitPut` | `tx.Commit`, and the answer |
| `ScanRows`, `DeleteRow`, `CommitDelete` | the one DELETE of `deleteBy`, as PostgreSQL runs it: snapshot, row by row with waits and a second look at WHERE, commit |
| `CheckSearch`, `QueryRows` | `prepareSearch`; `searchRows` |
| `StatementFails`, `BreakDeadlock` | any error return; the deadlock detector |

`rows` and `nextId` are the committed table and its sequence; `written` and
`locked` are what an open transaction has written and superseded. PostgreSQL
itself is external and modelled from what the code relies on.

**PgSpace** adds two history variables to PgStore to say what the identity
check guarantees although it takes no lock.

**SqliteStore** is `internal/store/sqlite`: `BeginPut` waits for the write lock
(`_txlock=immediate`) and checks under it, the triggers keep `db.index` (the
tokens in `chunks_fts`) beside `db.rows`, `FreshId` is AUTOINCREMENT, and a
search is `CheckSearch`, `ReadCandidates`, `ReadLexicalAndFuse`.

### Migrations

`Migrate` of either store, which every start runs: `EnsureTable`
(`ensureMigrationTable`), then for each embedded file `Begin`, `TakeLock`
(`pg_advisory_xact_lock`; sqlite has it from BEGIN IMMEDIATE), `CheckApplied`,
`ApplyFile`, `RecordFile`, `Commit`, with `GiveUp` for every error return and
crashes in between. `schema` is the list of files whose statements took effect,
`recorded` the table `schema_migrations`.

### Server

**HttpApi** is the pure part of the handlers: `PutChecks`, `SearchChecks`,
`DeleteChecks` are the checks of a request in the order of the code, `Mapped` the
table `failureMappings`, `NeedsToken` the mux under `/v1/`, `HealthAnswer` the
report. **Server** runs them.

| Action | Code |
| --- | --- |
| `LoadConfig`, `OpenStore`, `BuildStore`, `MigrateStore`, `WireHandlers` | `run`, `buildStore`, `openPostgres`/`openSQLite`, `buildHandler`, each with its failure |
| `ListenFails`, `Signal`, `StartShutdown`, `ShutdownDone`, `ShutdownTimeout` | the select of `serve` and `http.Server.Shutdown` |
| `CloseStore`, `Exit` | the deferred close, and the return of `run` |
| `Accept`, `CallStore`, `Probe`, `ReportHealth`, `Respond` | the handlers: checks, the one call of the store, the probes, the response |

After `serve` has returned, no new request is accepted: requests on connections
that are kept alive while the listener is gone are left out. A method or path
nobody handles is one answer, 404, in the place of 404 and 405.

### Recallctl

One invocation of `cmd/recallctl` per connection, beside connections of anybody.

| Action | Code |
| --- | --- |
| `Invoke` | `main`, `run`, `dispatch` and the command up to `do`: `-h`, the flags, `resolveOrgID`, `parseChunks`, `parseIDCommand`, the blank query, a weight that `json.Marshal` cannot write (`UsageError`) |
| `Arrive` | `client.do` sends, the server accepts (`RequestOf` is what it makes of what each command builds), with all of the body or a part |
| `NotReached` | `errConnect`: nobody there, `-timeout`, Ctrl-C, also while the body is read; the handler goes on |
| `Finish` | the response: `serverError`, the tolerated 503 of `health`, printing, `errUnhealthy` |

`ExitCodes` are the codes a response can lead to, since printing may fail. `-alpha`
is a float64 here and a float32 in the server: weights are values of their own, and
`Float32` says which number the server reads, 1 of 1.00000001, nothing of 1e39, which
fails the decoding of the body (`AlphaFits`). `NotInJSON` are NaN and the infinities,
which are not sent. A body is cut when it takes longer than the server's `ReadTimeout`
of 30 seconds, recallctl waiting for 60, or when recallctl goes. Scanner
limits and the decoding of a body that is not the server's are left out.

### Ranking

A search chooses `candidates` and then an `answer`. `CandidateSets` are the three
candidate sources: all rows (`candidatesCTE`), the union of the best on the
vector and the lexical side (`candidateSelectionCTE`), SQLite's loop. `query.matches`
are the rows of which `@@` (or MATCH) holds. In PostgreSQL that is not told by
`ts_rank`: an identifier like `a_b` is one token of the query, `to_tsquery` makes it
the phrase `'a' <-> 'b'`, and a row with one of the two words has a rank and does not
match. SQLite scores the rows of MATCH only (`Scored`). `Weighted`
and `RanksHigher` are the two fusions, `Listings` the ORDER BY and LIMIT; the
order is a set of pairs, and where it leaves rows apart unordered every list is
a possible one. A walk of HNSW is some of the rows of the table, at most `ef`,
before the WHERE clause is applied, which is what the code relies on. Scores are
integers and compared exactly.

### Embedding

| Action | Code |
| --- | --- |
| `Embed` | `cachingEmbedder.Embed`, or `Client.Embed` where there is no cache |
| `Load`, `LoadDone` | a turn of `fromCache`, its end |
| `Ask`, `AskDone` | `embedBatch` with each thing a reply can be (`Accepted`: status, JSON, error field, `prepareVectors`); the end of `Client.Embed` |
| `Truncate`, `Write`, `WriteFails`, `StoreDone` | `store`: `os.WriteFile` empties the file, then fills it |
| `Crash`, `Pull` | the process dies; other weights appear under the same tag |

A vector is the text, the identity and the weights it comes from, so that "the
vector of this text" can be said.

### Evaluation

| Action | Code |
| --- | --- |
| `LoadInput` | `start`, `loadInput`, `LoadDataset`, `LoadDistractorFile` with their checks |
| `Recreate`, `MigrateDb` | `recreateEvalDatabase`; `openPostgresStore` up to `Migrate` |
| `AskEmbedder`, the steps of Embedding, `EmbedderFails` | each call of `Embed`: for the corpus, a batch of distractors, a query's vector, the lane that embeds anew |
| `PutCorpus`, `PutDistractors` | `ingest`, `putDistractors`: the rows, then the keys of their ids by position |
| `KeepVector`, `WarmUp` | a turn of `embedQueries`, of `warmUp` |
| `Search`, `SearchVector` | the two lanes of `runRound`, `rankedEntries`, the comparison, the end of a round |
| `WriteReport` | `environment` (digest, version of the extension), `writeReport` |
| `GiveUp`, `Die` | any error return and `evalTimeout`; the process dies and is started again |

`Refused` are the two refusals that come only after the database has been
recreated. The store is its rows and the order of its lists, as PgStore and Ranking
have more of it: `Best` puts at place i the id that i - 1 others go before, and
`KeyAt` is a Go map, which has "" for an id it does not know. **Metrics** is the arithmetic of
`metrics.go`, `micro.go` and `summarize`, in fractions, with reference definitions
beside it. A hit has a place there, a query and one of its relevant keys (`Golds`), so
that a sum over queries and a count of places can be compared; a tag is counted once per
entry, as `groupByTag` does; `Sorted` says what place each sample gets. `RunesOf` is how
long the text of a passage is.

## 3. Runs

| Run | Shows | Instance |
| --- | --- | --- |
| `pg_calls` | keys unique, ids keep their meaning, retries keep ids, batches atomic, deletes exact, organisations apart, refinement of ChunkStore | three calls out of ten requests |
| `pg_waits` | everybody is answered although calls wait in circles | three calls over two keys in opposite orders |
| `pg_space` | what the identity check guarantees | three processes of which one differs in each setting |
| `pg_mixed_rows`, `pg_mixed_hits` | violations, see section 6 | as `pg_space` |
| `sqlite_calls` | the index in step, one space, ids, scores joined to their chunk, refinement | four calls, two processes |
| `migrations` | schema in order, nothing twice, who serves is migrated, every start ends | two new binaries, one old, two starts each |
| `server` | answers and exit codes tell the effect, honest searches, both sides check alike, health, handles, exit status, signals | two connections, one of them recallctl's, a request of each kind and each flaw, an invocation of each kind |
| `server_close`, `http_duplicate` | violations, see section 6 | two connections of anybody |
| `ranking` | same list in both lanes, candidates scored as all rows are unless every lexically best row fails `@@`, dominance, either weight alone | three rows, all score combinations of three values, any of the rows matching |
| `evaluation` | vectors at their texts, reports about their own rows, failures with a cause, the digest, the metrics, runs end | two evaluations of other files under one `-eval-db`, one cache, a death, a pull |

**Bounds.** Three calls let two interfere while a third finds what they left;
each set of requests is built so that calls collide (the comments in MCChunks).
sqlite needs a fourth call: put, put, delete and a search around them. Migrations
needs two processes that race and one that knows less, and a second start after a
crash. Two connections suffice for Server since handlers share nothing but the
handle. Three rows are one more than the larger `k`, so that a row can be
outside, at the edge and inside the candidates. In `evaluation` one run has two
passages, a query and a distractor, with the cache, or a key twice; the other one
passage and no cache, or no queries. A batch has one text and one distractor, so
that a call of two texts has a second batch which can fail after the first;
`Limit` is smaller than the rows of the larger run; two rounds are the least that
can disagree. The metrics are checked of every report and, once, over the constants
`Inputs` and `Samples`: all lists of up to three keys, pairs of queries and up to five
samples, so that a percentile between two samples, and a tag that one query of two has,
occur. `MaxStarts`, `MaxCalls`, `MaxPulls` (how
often the weights change) and `Mortal` (which processes may die, once each) are
bounds of the models, not of the program.

The instances stop when their calls are used up, hence `CHECK_DEADLOCK FALSE`;
that nobody waits for ever is said by the liveness properties. Calls are
symmetric where no liveness is checked.

**Fairness.** Stores: weak fairness of what a handler does next, and of the
database breaking a deadlock (PostgreSQL's detector); no fairness of failures.
Migrations: of the statements of each process, and not of the timeout, so that
`StartIsDecided` does not rest on `migrateTimeout`. Server: of `Stopping`, the
steps of the main goroutine and the timer of the shutdown; none of the handlers,
which may hang, and none of recallctl. Evaluation: of each process going on, since
`ollamaTimeout` ends each request and `evalTimeout` everything; a process may give
up but need not, and `Advance` is one formula, so nothing is assumed of which. The
Go scheduler justifies the rest.

**Mutants.** Each property of a passing run comes with a mutant in the module it
is about, an operator named `X_Something` beside `X`: a plausible slip in the code
that the property catches.

## 4. Proofs

All for every value of the constants, under the assumptions named in the modules:
requests well formed, settings and queries of their types, positive sizes, and of
`Float32` that its values are integers and that it shares no weight with `NotInJSON`. Evaluation
assumes of its input what the types of `internal/eval` say of it (`EvalSet`), that
the calls of the embedder are among `Calls`, that `Distractor.Key` puts its prefix in
front (`Reserved`), that scores can be compared (`Score` is an integer), and that
the two markers `Nobody` and `NoDigest` are none of the values they stand beside.
Metrics assumes that the `k` and the keys followed by name are finitely many, which
they are in the source, and of `Inputs` what `LoadDataset` and `Measure` make true: a
list for each query, and for each query relevant keys, none of them twice. Nothing is
assumed of the lists.

| Module | Proved | Argument |
| --- | --- | --- |
| PgStoreProofs | `TypeOK`, `UniqueKeys`, `IdNamesOneChunk` | what open transactions have written neither collides with each other nor with the table except for the row it holds (`KeyInv`); an id known to anybody belongs to every version stored under it (`NameInv`) |
| | `RetrySameIds`, the steps `BatchIsAtomic`, `DeleteExact`, `OrgIsolation`, and `Implements` | what COMMIT will make of a transaction is known before it: each chunk so far replaces a committed row the transaction holds, or is new under an id nobody has seen, and a delete holds rows of its snapshot (`TxsInv`). So a commit is the abstract Put or delete in one step, and every other step a stutter, a start or a failure (`StepIsStores`) |
| | `MixNeedsRace`, `NoSuccessInAlienStore` of PgSpace | as long as no two Puts of different spaces are past their checks together, rows and open writes agree (`SpaceInv`); a call during all of which rows of another space were there does not pass its check (`TaintInv`) |
| SqliteStoreProofs | `TypeOK`, `IndexInStep`, `SingleSpace` | a transaction sees its own copy of the file, in step and of the space it checked under the lock |
| | `IdNamesOneChunk`, `ScoresOfSameChunk`, `Implements` | the copy is the committed file with the chunks inserted so far in the place of the rows that had their ids, and an id is the stored row's or a number the committed sequence has not reached (`WriterInv`), so taking the sequence back at a rollback does no harm |
| MigrationsProofs | `TypeOK`, `SchemaInOrder`, `CheckStaysTrue`, `UpMeansMigrated` | the holder of the lock is the one process between lock and commit (`LockInv`); where it is tells what it has run (`StepInv`) |
| ServerProofs | `TypeOK`, `NoHandleLeft`, `ServesOnlyMigrated`, `CleanExitCutsNobody`, `AnswerTellsEffect`, `SearchIsHonest`, `HealthReportsWorst` | the phase tells the handle and which handlers may exist (`LifeInv`); a handler before its call has no effect, and what it has answered tells it (`AnswerInv`); a search at the store has passed `toQuery`, and health is the worst of the probes that failed (`JudgeInv`). `RefusalIsCode` says which codes the checks of a batch of any length can give |
| RecallctlProofs | Recallctl implements Server, `ExitTells`, `AsksValidly` | every step of the composition is one of Server or leaves it alone (`StepIsServers`), so Server's invariants hold; a connection that is not idle carries the request of its client's invocation, whole or cut (`CtlInv`), a response that has been got stays (`Keeps`), and what `LineIsBad` lets pass `ChunkChecks` lets pass (`LinePasses`, `PutPasses`); a refusal as invalid JSON is of a body that was cut or of a weight no float32 holds (`WholeMatters`) |
| EmbeddingProofs | `TypeOK`, `AnswersInOrder` | a file of the cache is a vector of the text and model in its name or is not read (`FileInv`); a position of a call has its vector or is still listed as missing behind where the loop is, and what has been answered belongs to those listed (`CallInv`), so no batch, hit or refusal shifts a vector against its text |
| RankingProofs | `TypeOK`, `SameScoreAsExhaustive` | a row that matches with the largest lexical score of the scope, where there is one, is a candidate (`BestIsCandidate`), so the divisor is the same (`SameMaximum`) |
| | `DominanceKept`, `OneSideAlone`, `SameRanking` | both fusions are monotone in the scores of either side (`WeightedKeeps`, `RanksKeep`), so better rows are ahead; with all weight on one side its order is what is left (`OrderOfOneSide`); neither fusion goes round in a circle (`FractionsChain`), so with the id as the last key there is one list only (`OneListing`) |
| EvaluationProofs | Evaluation implements Embedding, so `AnswersInOrder` holds in it | what a run asks for is among the calls of Embedding (`CallIsThere`), every other step leaves the embedder alone (`EvaluationSteps`) |
| | `EvalTypeOK`, `ReportIsTrue`, `DigestIsOfWeights`, the step `FailsForCause` | `EvalInv`, by process: the stage tells how far the run is (`Progress`); its ids are rows of its database with the text of their key, and its lists those of its rows, as long as nobody else has recreated the database (`Stored`); vectors are of weights between those of the start and now (`Recent`), so a digest that is that of the start leaves one value. Rows that come later from somebody else do not change what the first n rows list (`BestStays`), and of a list without foreign ids only the own ones count (`OwnBest`) |
| | `MetricsAgree`: one list (`EveryListAgrees`) | the hits within k are the ranks within k, one by one (`HitsCount`), and the first hit is the least rank (`FirstIsLeastRank`) |
| | the summary of any number of lists (`EverySummaryAgrees`) | a sum over queries is the number of places that hit (`RatiosAdd`), so short and long, or key by key, share out the same places (`LengthsShareOut`, `NamesShareOut`); a sum does not depend on how its terms are numbered (`SumsAlike`), so a tag that each query has once has the recall of all (`TagsOfAll`) |
| | percentiles of any samples (`EveryLatencyAgrees`) | every sample has one place and every place one sample (`SortedPlaces`); that many samples less one go before it, and a smaller one has fewer that do not exceed it (`PercentileRight`) |

None of these properties is inductive by itself: each proof module starts with
the strengthened invariant, in named parts, and has a lemma per action.

Every invariant and action property of a passing run is proved in this way.

The sums of Metrics are folds over finite sets, and the induction theorems of the
library take an operator, which the provers cannot be given. EvaluationProofs does its
inductions over sets instead: a set of numbers that has 0, and with each number the
next, has them all (`NaturalsBySteps`, by the least number it has not), and a set of
subsets of a finite set that has the empty one, and each that is in it with any one
element taken away, has them all (`SubsetsBySteps`, by the least size of one it has not). A fold is taken at
its definition, a function on the subsets that is chosen (`FoldExists`, `FoldsFromAny`);
addition does not mind which element it takes first (`PlusFacts`), and from there a sum
of fractions can be taken apart at any of its terms (`FractionsFold`).

Only model-checked is liveness (`AllAnswered`, `StartIsDecided`, `SignalStops`,
`RunsEnd`): fairness and ENABLED are out of the prover's reach. The violations of
section 6 are counterexamples of TLC.

## 5. Not modelled

* **Tokenizers**: pure functions of a string; tokens are one model value of the
  tokenizer and the content.
* **Floats**: rounding, NaN and infinities. A default weight of NaN passes
  `alphaFromEnv`; the models take weights between 0 and 1. The rank `p/100*n` of a
  percentile is computed exactly in Metrics. The only rounding in the models
  is that of `-alpha`, a float64 in recallctl and a float32 in the server.
* **SQL texts of the migrations**, PostgreSQL and SQLite beyond what the code
  uses of them.
* **Configuration values**: `config.Load` accepts or refuses; its single checks are
  not modelled.
* **cmd/eval with SQLite**: `-eval-db` is a file there, which is removed and made
  anew while another process keeps the removed one open. The database of
  Evaluation is PostgreSQL's, DROP and CREATE are one step that may end between
  the two, and ids count without gaps since no other writer has the sequence.
* **Flags, wording, layout, latencies**: what is printed and how long things took;
  the arithmetic on samples is in Metrics.
* **The cache and new weights**: the key has no digest of the weights, so a cache
  mixes vectors of both after a pull. The code accepts that; `DigestIsOfWeights`
  says what a report's digest may be taken for.
* **tools/**: no part of the running system.

## 6. Where code and words differ

1. `pg_mixed_rows`: the store as a whole is not kept in one space; two first Puts
   of processes with different settings both pass the check
   (`internal/store/postgres/writer.go:285`). `MixNeedsRace` says this is the only
   way.
2. `pg_mixed_hits`: a search may score rows of another space which arrive between
   its check and its query (`searcher.go:385`).
3. `server_close`: the store is closed under running handlers when the listener
   fails or the shutdown times out (`cmd/recall/main.go:428`). `CleanExitCutsNobody`
   says that the exit status at least tells.
4. `http_duplicate`: the same external_id twice in a request is a 500 and not the
   400 of `docs/openapi/openapi.yaml`.

Without a run: ADR 0022 (line 36) says a `k` below the limit is refused, which
`validateRanking` does not do. `internal/store/postgres/searcher.go:132-133` says
the `ts_rank` of a candidate that `@@` does not hit is 0; for a token that becomes a
phrase it need not be. That is the one way in which the largest lexical score among
candidates differs from that of all rows, as `searchmode.go:37-39` and ADR 0022 warn:
`SameScoreAsExhaustive` says it is the same wherever a lexically best row matches.
`recallctl search -alpha 1e39` is told "request body is not valid JSON", which it is
(`internal/httpapi/server.go:147`): it is the float32 that cannot hold the number; and
`-alpha 1.00000001` is taken for 1. `cmd/recallctl/main.go:169-173` calls
every failure with exit code 1 one the caller can correct; a write that took
effect and could not be printed ends with 1 too (`ExitTells`).
`ollama/runtime.go:13-21` records the digest so that reports can be compared; the
vectors of a run with the cache may be of other weights, as the key has the
identity only (`embedcache.go:20-27` argues from a cache that does not outlive
them). `keyPrefixConflict` and an empty corpus are refused only after the database
has been dropped. A query that has a tag twice counts twice in the group of the tag
(`internal/eval/run.go:839`), where `report.go:497` has the number of queries; the
loader lets such a query pass, and `EverySummaryAgrees` speaks of tags a query has once.

## 7. Plan

Done, in this order: the contract and both stores, the identity check,
migrations, the server process and the HTTP layer, ranking, embedding, the
evaluation and its metrics, recallctl; their proofs as section 4 says, the
refinements of ChunkStore and of Embedding among them.

What is left, by what it would add:

1. **Configuration**: the checks of `config.Load`, NaN included, with weights that
   are not all comparable.
2. **Tokenizers** (bigram, union) as functions over small alphabets.
3. **cmd/eval with SQLite**: a file that is removed while another process has it open.
