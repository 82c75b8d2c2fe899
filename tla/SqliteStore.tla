----------------------------- MODULE SqliteStore ----------------------------
(***************************************************************************)
(* internal/store/sqlite: the second Store.  Same contract and same steps  *)
(* as PgStore, other machinery: one file in WAL mode, in which a writer    *)
(* takes the file's only write lock when it begins (_txlock=immediate) and *)
(* readers see the last commit and wait for nobody; an external-content    *)
(* FTS5 table that three triggers keep in step with chunks; and a search   *)
(* put together in Go from three statements with a snapshot each.          *)
(***************************************************************************)
EXTENDS Chunks

CONSTANTS
  Calls,        \* identities of calls; each is made once, a retry is another
  Procs,        \* server processes that have opened the file
  EmbedderOf,   \* s.embedderID of process p, fixed by New
  TokenizerOf   \* s.tokenizerID of process p, fixed by New

VARIABLES
  db,           \* the file as committed: its rows, chunks_fts, sqlite_sequence
  pc,           \* where the handler of a call is
  job,          \* the process and request of a call, or NoJob
  tx,           \* the file as a call's write transaction sees it, or NoTx
  ids,          \* ids its INSERTs have returned so far
  cands,        \* the candidate rows a search has read
  ans,          \* its answer
  hits          \* what a search answered: rows, and the rows that were scored

vars == <<db, pc, job, tx, ids, cands, ans, hits>>

ASSUME SqliteProcsAssumption ==
  /\ EmbedderOf \in [Procs -> STRING]
  /\ TokenizerOf \in [Procs -> STRING]

Errors == {"rejected", "embedder_mismatch", "tokenizer_mismatch",
           "unavailable", "error"}

Answer == [status : {"none", "ok", "lost"} \cup Errors,
           ids : Seq(Nat), count : Nat]

Say(status) == [status |-> status, ids |-> <<>>, count |-> 0]

NoJob == [made |-> FALSE]
Job == [made : {TRUE}, proc : Procs, req : Requests]

\* index stands for the inverted index of chunks_fts: the rows, as they were
\* when their lexeme_text was put there.
Database == [rows : SUBSET Row, index : SUBSET Row, next : Nat]

NoTx == [none |-> TRUE]

\* A result: the row that is returned, and the row versions whose bm25 score
\* it carries (at most one, unless chunks_fts is out of step).
Hit == [row : Row, scored : SUBSET Row]

PCs == {"new", "embed", "insert", "delete", "check", "candidates", "lexical",
        "answered"}

Req(c)   == job[c].req
Batch(c) == job[c].req.batch
Emb(c)   == EmbedderOf[job[c].proc]
Tok(c)   == TokenizerOf[job[c].proc]

Init ==
  /\ db = [rows |-> {}, index |-> {}, next |-> 1]
  /\ pc = [c \in Calls |-> "new"]
  /\ job = [c \in Calls |-> NoJob]
  /\ tx = [c \in Calls |-> NoTx]
  /\ ids = [c \in Calls |-> <<>>]
  /\ cands = [c \in Calls |-> {}]
  /\ ans = [c \in Calls |-> Say("none")]
  /\ hits = [c \in Calls |-> {}]

-----------------------------------------------------------------------------
(* The file.                                                               *)

\* Mutant: a writer does not take the lock when it begins.
LockFree_Always == TRUE

\* The write lock is free: no transaction is open but read-only statements.
LockFree == \A d \in Calls : tx[d] = NoTx

\* Mutant: chunks_fts_after_update does not cancel the old tokens.
AfterUpdate_OnlyAdds(index, old, new) == index \cup {new}

\* The three triggers.
AfterInsert(index, new)      == index \cup {new}
AfterDelete(index, old)      == index \ old
AfterUpdate(index, old, new) == (index \ old) \cup {new}

Stored(d, o, ext) == {row \in d.rows : SameKey(row, o, ext)}

\* Mutant: without AUTOINCREMENT the next id is the largest one plus one.
FreshId_Reused(d) ==
  LET used == {row.id : row \in d.rows} \cup {0}
  IN  CHOOSE n \in {id + 1 : id \in used} : \A id \in used : id < n

\* AUTOINCREMENT: sqlite_sequence remembers the largest id ever committed.
FreshId(d) == d.next

\* INSERT ... ON CONFLICT (org_id, external_id) DO UPDATE ... RETURNING id.
\* Whether a conflict spends a number of the sequence is left to SQLite.
Inserted(d, o, ch, emb, tok) ==
  LET old == Stored(d, o, ch.ext)
  IN  IF old = {}
      THEN LET new == RowOf(FreshId(d), o, ch, emb, tok)
           IN  {[id |-> new.id,
                 db |-> [rows  |-> d.rows \cup {new},
                         index |-> AfterInsert(d.index, new),
                         next  |-> d.next + 1]]}
      ELSE {[id |-> e.id,
             db |-> LET new == RowOf(e.id, o, ch, emb, tok)
                    IN  [rows  |-> (d.rows \ old) \cup {new},
                         index |-> AfterUpdate(d.index, old, new),
                         next  |-> n]] : e \in old, n \in {d.next, d.next + 1}}

RowsAffected(gone) == Cardinality(gone)

-----------------------------------------------------------------------------

AnswerWith(c, a) ==
  /\ pc' = [pc EXCEPT ![c] = "answered"]
  /\ ans' = [ans EXCEPT ![c] = a]

\* The transaction is over and the write lock is free again.
EndCall(c) ==
  /\ tx' = [tx EXCEPT ![c] = NoTx]
  /\ ids' = [ids EXCEPT ![c] = <<>>]
  /\ cands' = [cands EXCEPT ![c] = {}]

\* Rollback, and an error to the caller.
Abort(c, status) ==
  /\ AnswerWith(c, Say(status))
  /\ EndCall(c)
  /\ UNCHANGED <<db, job, hits>>

Receive(c) ==
  /\ pc[c] = "new"
  /\ \E p \in Procs, r \in Requests :
       /\ job' = [job EXCEPT ![c] = [made |-> TRUE, proc |-> p, req |-> r]]
       /\ IF Valid(r)
          THEN /\ pc' = [pc EXCEPT ![c] = IF IsPut(r) THEN "embed"
                                          ELSE IF IsDelete(r) THEN "delete"
                                          ELSE "check"]
               /\ UNCHANGED ans
          ELSE AnswerWith(c, Say("rejected"))
  /\ UNCHANGED <<db, tx, ids, cands, hits>>

\* The embedder fails.  A successful embedding touches no shared state and is
\* the beginning of the next step.
EmbedFails(c) ==
  /\ pc[c] \in {"embed", "candidates"}
  /\ Abort(c, "unavailable")

\* Mutant: the tokenizer is not compared.
IsForeign_EmbedderOnly(c, row) == row.emb # Emb(c)

IsForeign(c, row) == row.emb # Emb(c) \/ row.tok # Tok(c)

Foreign(c) == {row \in db.rows : IsForeign(c, row)}

\* LIMIT 1 without ORDER BY: any mismatching row may be the one reported.
ReportMismatch(c) ==
  \E row \in Foreign(c) :
    Abort(c, IF row.emb # Emb(c) THEN "embedder_mismatch" ELSE "tokenizer_mismatch")

-----------------------------------------------------------------------------
(* Put and the deletes.                                                    *)

\* BEGIN IMMEDIATE waits for the lock; the check that follows is made under it.
BeginPut(c) ==
  /\ pc[c] = "embed"
  /\ LockFree
  /\ \/ /\ Foreign(c) = {}
        /\ pc' = [pc EXCEPT ![c] = "insert"]
        /\ tx' = [tx EXCEPT ![c] = db]
        /\ UNCHANGED <<db, job, ids, cands, ans, hits>>
     \/ ReportMismatch(c)

InsertChunk(c) ==
  /\ pc[c] = "insert"
  /\ Len(ids[c]) < Len(Batch(c))
  /\ \E new \in Inserted(tx[c], Req(c).org, Batch(c)[Len(ids[c]) + 1], Emb(c), Tok(c)) :
       /\ tx' = [tx EXCEPT ![c] = new.db]
       /\ ids' = [ids EXCEPT ![c] = Append(@, new.id)]
  /\ UNCHANGED <<db, pc, job, cands, ans, hits>>

\* Mutant: the loop over the batch ends one chunk early.
AllInserted_OneShort(c) == Len(ids[c]) + 1 >= Len(Batch(c))

AllInserted(c) == Len(ids[c]) >= Len(Batch(c))

\* COMMIT, and the answer, which may be lost on its way back.
CommitPut(c) ==
  /\ pc[c] = "insert"
  /\ AllInserted(c)
  /\ db' = tx[c]
  /\ EndCall(c)
  /\ \E a \in {[status |-> "ok", ids |-> ids[c], count |-> Len(ids[c])], Say("lost")} :
       AnswerWith(c, a)
  /\ UNCHANGED <<job, hits>>

\* One autocommitted DELETE, which holds the write lock from its first row on.
DeleteRows(c) ==
  LET gone == {row \in db.rows : DeleteMatches(Req(c), row)} IN
  /\ pc[c] = "delete"
  /\ LockFree
  /\ db' = [db EXCEPT !.rows = @ \ gone, !.index = AfterDelete(@, gone)]
  /\ \E a \in {[status |-> "ok", ids |-> <<>>, count |-> RowsAffected(gone)], Say("lost")} :
       AnswerWith(c, a)
  /\ UNCHANGED <<job, tx, ids, cands, hits>>

-----------------------------------------------------------------------------
(* Search: three statements of their own, and a ranking in Go.             *)

CheckSearch(c) ==
  /\ pc[c] = "check"
  /\ \/ /\ Foreign(c) = {}
        /\ pc' = [pc EXCEPT ![c] = "candidates"]
        /\ UNCHANGED <<db, job, tx, ids, cands, ans, hits>>
     \/ ReportMismatch(c)

ReadCandidates(c) ==
  /\ pc[c] = "candidates"
  /\ pc' = [pc EXCEPT ![c] = "lexical"]
  /\ cands' = [cands EXCEPT ![c] = {row \in db.rows : SearchMatches(Req(c), row)}]
  /\ UNCHANGED <<db, job, tx, ids, ans, hits>>

\* The entries of the inverted index the second statement may return: those
\* whose rowid is, at that moment, the id of a row that passes the filters.
Scorable(c) ==
  {e \in db.index : \E row \in db.rows : row.id = e.id /\ SearchMatches(Req(c), row)}

\* Go joins the scores to the candidates by id.
Fused(top, scores) ==
  {[row |-> row, scored |-> {e \in scores : e.id = row.id}] : row \in top}

\* The bm25 scores are read (which rows the query text matches is left open),
\* joined to the candidates by id and fused; the best limit rows are answered.
ReadLexicalAndFuse(c) ==
  LET size  == Cardinality(cands[c])
      limit == Req(c).limit
  IN
  /\ pc[c] = "lexical"
  /\ \E scores \in SUBSET Scorable(c), top \in SUBSET cands[c] :
       /\ Cardinality(top) = (IF size <= limit THEN size ELSE limit)
       /\ hits' = [hits EXCEPT ![c] = Fused(top, scores)]
  /\ AnswerWith(c, Say("ok"))
  /\ EndCall(c)
  /\ UNCHANGED <<db, job>>

-----------------------------------------------------------------------------
(* Failures.                                                               *)

\* A writer gives up after busy_timeout: SQLITE_BUSY.
BusyTimeout(c) ==
  /\ pc[c] \in {"embed", "delete"}
  /\ ~LockFree
  /\ Abort(c, "error")

\* A statement fails, the context is cancelled or the process dies; the file
\* is left as it was committed last.
StatementFails(c) ==
  /\ pc[c] \notin {"new", "answered"}
  /\ Abort(c, "error")

Next ==
  \E c \in Calls :
    \/ Receive(c)
    \/ EmbedFails(c)
    \/ BeginPut(c)
    \/ InsertChunk(c)
    \/ CommitPut(c)
    \/ DeleteRows(c)
    \/ CheckSearch(c)
    \/ ReadCandidates(c)
    \/ ReadLexicalAndFuse(c)
    \/ BusyTimeout(c)
    \/ StatementFails(c)

Spec == Init /\ [][Next]_vars

-----------------------------------------------------------------------------
(* Properties.                                                             *)

\* Every variable has the type its comment says.
TypeOK ==
  /\ db \in Database
  /\ pc \in [Calls -> PCs]
  /\ job \in [Calls -> Job \cup {NoJob}]
  /\ tx \in [Calls -> Database \cup {NoTx}]
  /\ ids \in [Calls -> Seq(Nat)]
  /\ cands \in [Calls -> SUBSET Row]
  /\ ans \in [Calls -> Answer]
  /\ hits \in [Calls -> SUBSET Hit]

\* The full-text index holds the tokens of the rows that are stored and of no
\* others, through replacements, deletes and rollbacks: else a deleted row goes
\* on being found, or a replaced one is found by its old words (0001: "one
\* trigger missing, and ...").
IndexInStep == db.index = db.rows

\* Whatever processes share the file, its rows come from one embedder and one
\* tokenizer: the check is made under the write lock (store.go: "the store as a
\* whole is one embedding space and one splitting rule").
SingleSpace ==
  \A r1, r2 \in db.rows : r1.emb = r2.emb /\ r1.tok = r2.tok

\* An id a Put has returned is the name of that chunk for good, although a
\* rollback takes the sequence back with everything else (0001: AUTOINCREMENT,
\* ADR 0017 decision 5).
IdNamesOneChunk ==
  /\ \A c, d \in Calls :
       \A i \in 1..Len(ans[c].ids), j \in 1..Len(ans[d].ids) :
         ans[c].ids[i] = ans[d].ids[j] =>
           \/ c = d /\ i = j
           \/ /\ c # d
              /\ Req(c).org = Req(d).org
              /\ Batch(c)[i].ext = Batch(d)[j].ext
              /\ Batch(c)[i].ext # NoExt
  /\ \A c \in Calls : \A i \in 1..Len(ans[c].ids) : \A row \in db.rows :
       row.id = ans[c].ids[i] =>
         row.org = Req(c).org /\ row.ext = Batch(c)[i].ext

\* Although the candidates and their scores are read in two snapshots, with
\* Puts and deletes in between, a row is given the score of its own chunk: at
\* most of another version of it, never of another chunk or organisation
\* (searcher.go: the scores are joined by id).
ScoresOfSameChunk ==
  \A c \in Calls : \A h \in hits[c] : \A e \in h.scored :
    e.org = h.row.org /\ e.ext = h.row.ext

\* SqliteStore implements the promise of index.Writer.
Store == INSTANCE ChunkStore WITH rows <- db.rows
Implements == Store!StoreSpec
=============================================================================
