------------------------------- MODULE PgStore ------------------------------
(***************************************************************************)
(* internal/store/postgres: the Store's Put, Delete, DeleteBySource,       *)
(* DeleteByDocument and Search, run by any number of handlers in any       *)
(* number of server processes against one PostgreSQL at READ COMMITTED.    *)
(*                                                                         *)
(* Each statement the code sends is one step.  A Put is: embed the batch   *)
(* (before the transaction), BEGIN and check that the store holds only     *)
(* this process's embedder and tokenizer, one INSERT ... ON CONFLICT per   *)
(* chunk, COMMIT.  A delete is one autocommitted DELETE, which nevertheless*)
(* takes its rows' locks one at a time and may wait for a Put.  A search   *)
(* is a check, an embedding and a query, each seeing its own snapshot.     *)
(*                                                                         *)
(* What PostgreSQL does is modelled from how the code uses it: a statement *)
(* sees the rows committed when it starts; a row or a unique key another   *)
(* transaction has written is waited for; a cycle of waits costs one       *)
(* transaction its life; ids come from a sequence that never goes back.    *)
(***************************************************************************)
EXTENDS Chunks

CONSTANTS
  Calls,        \* identities of calls; each is made once, a retry is another
  Procs,        \* server processes, each with one Store value
  EmbedderOf,   \* s.embedderID of process p, fixed by New
  TokenizerOf,  \* s.tokenizerID of process p, fixed by New
  Exhaustive    \* the search mode: TRUE exhaustive, FALSE candidates

VARIABLES
  rows,         \* the committed rows of the chunks table
  nextId,       \* the next value of the identity sequence
  pc,           \* where the handler of a call is
  job,          \* the process and request of a call, or NoJob
  written,      \* row versions a call's transaction has written
  locked,       \* committed ids it has locked, superseded or deleted
  ids,          \* ids its INSERTs have returned so far
  seen,         \* ids a DELETE found matching in its snapshot
  ans,          \* its answer
  hits          \* the rows a search answered with

vars == <<rows, nextId, pc, job, written, locked, ids, seen, ans, hits>>

ASSUME ProcsAssumption ==
  /\ EmbedderOf \in [Procs -> STRING]
  /\ TokenizerOf \in [Procs -> STRING]
  /\ Exhaustive \in BOOLEAN

Errors == {"rejected", "embedder_mismatch", "tokenizer_mismatch",
           "unavailable", "error"}

Answer == [status : {"none", "ok", "lost"} \cup Errors,
           ids : Seq(Nat), count : Nat]

Say(status) == [status |-> status, ids |-> <<>>, count |-> 0]

NoJob == [made |-> FALSE]
Job == [made : {TRUE}, proc : Procs, req : Requests]

PCs == {"new", "embed", "insert", "scan", "delete", "check", "query", "answered"}

Req(c)   == job[c].req
Batch(c) == job[c].req.batch
Emb(c)   == EmbedderOf[job[c].proc]
Tok(c)   == TokenizerOf[job[c].proc]

Init ==
  /\ rows = {}
  /\ nextId = 1
  /\ pc = [c \in Calls |-> "new"]
  /\ job = [c \in Calls |-> NoJob]
  /\ written = [c \in Calls |-> {}]
  /\ locked = [c \in Calls |-> {}]
  /\ ids = [c \in Calls |-> <<>>]
  /\ seen = [c \in Calls |-> {}]
  /\ ans = [c \in Calls |-> Say("none")]
  /\ hits = [c \in Calls |-> {}]

-----------------------------------------------------------------------------
(* Transactions of PostgreSQL, as the Store uses them.                     *)

\* Mutant: neither the unique key nor its ON CONFLICT clause exists.
Stored_NoConflict(c, o, ext) == {}

\* The versions of the row with key (o, ext) that c's INSERT can meet: the
\* committed one and the one it wrote itself.
Stored(c, o, ext) == {row \in rows \cup written[c] : SameKey(row, o, ext)}

\* Another transaction that has written this key, or holds the row that has it.
KeyHolders(c, o, ext) ==
  {d \in Calls \ {c} :
     \/ \E row \in written[d] : SameKey(row, o, ext)
     \/ \E row \in rows : SameKey(row, o, ext) /\ row.id \in locked[d]}

RowHolders(c, id) == {d \in Calls \ {c} : id \in locked[d]}

\* The rows of its snapshot a DELETE has not reached yet and that still exist.
Unvisited(c) == {row \in rows : row.id \in seen[c] \ locked[c]}

\* The transactions c cannot proceed without.
WaitsFor(c) ==
  CASE pc[c] = "insert" /\ Len(ids[c]) < Len(Batch(c)) ->
         KeyHolders(c, Req(c).org, Batch(c)[Len(ids[c]) + 1].ext)
    [] pc[c] = "delete" /\ \A row \in Unvisited(c) : RowHolders(c, row.id) # {} ->
         UNION {RowHolders(c, row.id) : row \in Unvisited(c)}
    [] OTHER -> {}

WaitCycle(S) == S # {} /\ \A c \in S : WaitsFor(c) \cap S # {}

\* The transaction is over: its locks and its working state are gone.
EndTx(c) ==
  /\ written' = [written EXCEPT ![c] = {}]
  /\ locked' = [locked EXCEPT ![c] = {}]
  /\ ids' = [ids EXCEPT ![c] = <<>>]
  /\ seen' = [seen EXCEPT ![c] = {}]

AnswerWith(c, a) ==
  /\ pc' = [pc EXCEPT ![c] = "answered"]
  /\ ans' = [ans EXCEPT ![c] = a]

\* The table after COMMIT.
CommitRows(c) == {row \in rows : row.id \notin locked[c]} \cup written[c]

\* Mutant: an error does not roll back, the transaction stays open.
Abort_NoRollback(c, status) ==
  /\ AnswerWith(c, Say(status))
  /\ UNCHANGED <<rows, nextId, job, written, locked, ids, seen, hits>>

\* Mutant: an error commits what was written so far.
Abort_Commits(c, status) ==
  /\ AnswerWith(c, Say(status))
  /\ rows' = CommitRows(c)
  /\ EndTx(c)
  /\ UNCHANGED <<nextId, job, hits>>

\* Rollback, and an error to the caller.
Abort(c, status) ==
  /\ AnswerWith(c, Say(status))
  /\ EndTx(c)
  /\ UNCHANGED <<rows, nextId, job, hits>>

-----------------------------------------------------------------------------
(* A request arrives; what can be refused without I/O is refused.          *)

Receive(c) ==
  /\ pc[c] = "new"
  /\ \E p \in Procs, r \in Requests :
       /\ job' = [job EXCEPT ![c] = [made |-> TRUE, proc |-> p, req |-> r]]
       /\ IF Valid(r)
          THEN /\ pc' = [pc EXCEPT ![c] = IF IsPut(r) THEN "embed"
                                          ELSE IF IsDelete(r) THEN "scan"
                                          ELSE "check"]
               /\ UNCHANGED ans
          ELSE AnswerWith(c, Say("rejected"))
  /\ UNCHANGED <<rows, nextId, written, locked, ids, seen, hits>>

\* The embedder fails, for a whole batch or for a query.  A successful
\* embedding touches no shared state and is the beginning of the next step.
EmbedFails(c) ==
  /\ pc[c] \in {"embed", "query"}
  /\ Abort(c, "unavailable")

-----------------------------------------------------------------------------
(* The identity check: one SELECT over the rows of every organisation.     *)

\* Mutant: the tokenizer is not compared.
IsForeign_EmbedderOnly(c, row) == row.emb # Emb(c)

IsForeign(c, row) == row.emb # Emb(c) \/ row.tok # Tok(c)

Foreign(c) == {row \in rows : IsForeign(c, row)}

\* LIMIT 1 without ORDER BY: any mismatching row may be the one reported.
ReportMismatch(c) ==
  \E row \in Foreign(c) :
    Abort(c, IF row.emb # Emb(c) THEN "embedder_mismatch" ELSE "tokenizer_mismatch")

-----------------------------------------------------------------------------
(* Put.                                                                    *)

\* Mutant: the check inside the transaction is skipped.
BeginPut_Unchecked(c) ==
  /\ pc[c] = "embed"
  /\ pc' = [pc EXCEPT ![c] = "insert"]
  /\ UNCHANGED <<rows, nextId, job, written, locked, ids, seen, ans, hits>>

BeginPut(c) ==
  /\ pc[c] = "embed"
  /\ \/ /\ Foreign(c) = {}
        /\ pc' = [pc EXCEPT ![c] = "insert"]
        /\ UNCHANGED <<rows, nextId, job, written, locked, ids, seen, ans, hits>>
     \/ ReportMismatch(c)

\* Mutant: the update assigns the row a fresh id.
ReturnedIds_Fresh(old) == {nextId}

\* RETURNING id: a replaced row keeps its id, a new one takes the sequence's.
ReturnedIds(old) == IF old = {} THEN {nextId} ELSE {row.id : row \in old}

\* One INSERT ... ON CONFLICT (org_id, external_id) DO UPDATE ... RETURNING id.
\* The conflicting row keeps its id; the sequence value is spent either way.
InsertChunk(c) ==
  LET ch  == Batch(c)[Len(ids[c]) + 1]
      o   == Req(c).org
      old == Stored(c, o, ch.ext)
  IN
  /\ pc[c] = "insert"
  /\ Len(ids[c]) < Len(Batch(c))
  /\ KeyHolders(c, o, ch.ext) = {}
  /\ nextId' = nextId + 1
  /\ \E id \in ReturnedIds(old) :
       /\ ids' = [ids EXCEPT ![c] = Append(@, id)]
       /\ written' = [written EXCEPT ![c] =
                        {row \in @ : row.id # id} \cup
                        {RowOf(id, o, ch, Emb(c), Tok(c))}]
       /\ locked' = [locked EXCEPT ![c] = IF old = {} THEN @ ELSE @ \cup {id}]
  /\ UNCHANGED <<rows, pc, job, seen, ans, hits>>

\* Mutant: the loop over the batch ends one chunk early.
AllInserted_OneShort(c) == Len(ids[c]) + 1 >= Len(Batch(c))

AllInserted(c) == Len(ids[c]) >= Len(Batch(c))

\* COMMIT, and the answer.  The answer may be lost on the way back (a broken
\* connection, the write timeout), or COMMIT may report an error although it
\* was applied: the caller is then told nothing it can rely on.
CommitPut(c) ==
  /\ pc[c] = "insert"
  /\ AllInserted(c)
  /\ rows' = CommitRows(c)
  /\ EndTx(c)
  /\ \E a \in {[status |-> "ok", ids |-> ids[c], count |-> Len(ids[c])], Say("lost")} :
       AnswerWith(c, a)
  /\ UNCHANGED <<nextId, job, hits>>

-----------------------------------------------------------------------------
(* Delete, DeleteBySource, DeleteByDocument.                               *)

\* The DELETE starts: its snapshot decides which rows it will visit.
ScanRows(c) ==
  /\ pc[c] = "scan"
  /\ pc' = [pc EXCEPT ![c] = "delete"]
  /\ seen' = [seen EXCEPT ![c] = {row.id : row \in {r \in rows : DeleteMatches(Req(c), r)}}]
  /\ UNCHANGED <<rows, nextId, job, written, locked, ids, ans, hits>>

\* Mutant: the WHERE clause is not looked at again after waiting.
StillMatches_NoRecheck(c, row) == TRUE

StillMatches(c, row) == DeleteMatches(Req(c), row)

\* It locks the next row, waiting for the transaction that holds it, and looks
\* at the WHERE clause again: a row that changed meanwhile and matches no more
\* is kept, locked, as it is.
DeleteRow(c) ==
  /\ pc[c] = "delete"
  /\ \E row \in Unvisited(c) :
       /\ RowHolders(c, row.id) = {}
       /\ locked' = [locked EXCEPT ![c] = @ \cup {row.id}]
       /\ IF StillMatches(c, row)
          THEN UNCHANGED written
          ELSE written' = [written EXCEPT ![c] = @ \cup {row}]
  /\ UNCHANGED <<rows, nextId, pc, job, ids, seen, ans, hits>>

\* Mutant: the driver does not know the count and answers -1.
RowsAffected_Unknown(c) == -1

RowsAffected(c) == Cardinality(rows \ CommitRows(c))

CommitDelete(c) ==
  /\ pc[c] = "delete"
  /\ Unvisited(c) = {}
  /\ rows' = CommitRows(c)
  /\ EndTx(c)
  /\ \E a \in {[status |-> "ok", ids |-> <<>>,
                count |-> RowsAffected(c)], Say("lost")} :
       AnswerWith(c, a)
  /\ UNCHANGED <<nextId, job, hits>>

-----------------------------------------------------------------------------
(* Search.                                                                 *)

\* prepareSearch: the check is a statement of its own, outside any transaction.
CheckSearch(c) ==
  /\ pc[c] = "check"
  /\ \/ /\ Foreign(c) = {}
        /\ pc' = [pc EXCEPT ![c] = "query"]
        /\ UNCHANGED <<rows, nextId, job, written, locked, ids, seen, ans, hits>>
     \/ ReportMismatch(c)

\* The ranking query: up to limit of the matching rows, in one snapshot.  The
\* exhaustive mode ranks every matching row; the candidates mode may miss some.
QueryRows(c) ==
  LET found == {row \in rows : SearchMatches(Req(c), row)}
      size  == Cardinality(found)
      limit == Req(c).limit
  IN
  /\ pc[c] = "query"
  /\ \E top \in SUBSET found :
       /\ Cardinality(top) <= limit
       /\ Exhaustive => Cardinality(top) = (IF size <= limit THEN size ELSE limit)
       /\ hits' = [hits EXCEPT ![c] = top]
  /\ AnswerWith(c, Say("ok"))
  /\ UNCHANGED <<rows, nextId, job, written, locked, ids, seen>>

-----------------------------------------------------------------------------
(* Failures.                                                               *)

\* A statement fails: the caller went away and its context was cancelled, the
\* connection broke, the process or the server crashed.  Nothing is committed.
StatementFails(c) ==
  /\ pc[c] \in {"embed", "insert", "scan", "delete", "check", "query"}
  /\ Abort(c, "error")

\* PostgreSQL breaks a cycle of waits by failing one transaction on it.
BreakDeadlock(c) ==
  /\ \E S \in SUBSET Calls :
       /\ c \in S
       /\ WaitCycle(S)
       /\ \A T \in SUBSET S : WaitCycle(T) => T = S
  /\ Abort(c, "error")

Progress(c) ==
  \/ EmbedFails(c)
  \/ BeginPut(c)
  \/ InsertChunk(c)
  \/ CommitPut(c)
  \/ ScanRows(c)
  \/ DeleteRow(c)
  \/ CommitDelete(c)
  \/ CheckSearch(c)
  \/ QueryRows(c)
  \/ BreakDeadlock(c)

Next == \E c \in Calls : Receive(c) \/ Progress(c) \/ StatementFails(c)

Spec == Init /\ [][Next]_vars

\* A handler that can take its next step takes it.
FairSpec == Spec /\ \A c \in Calls : WF_vars(Progress(c))

-----------------------------------------------------------------------------
(* Properties.                                                             *)

\* Every variable has the type its comment says; in particular the count a
\* bulk delete answers is a natural number.
TypeOK ==
  /\ rows \subseteq Row
  /\ nextId \in Nat
  /\ pc \in [Calls -> PCs]
  /\ job \in [Calls -> Job \cup {NoJob}]
  /\ written \in [Calls -> SUBSET Row]
  /\ locked \in [Calls -> SUBSET Nat]
  /\ ids \in [Calls -> Seq(Nat)]
  /\ seen \in [Calls -> SUBSET Nat]
  /\ ans \in [Calls -> Answer]
  /\ hits \in [Calls -> SUBSET Row]

\* However Puts and deletes interleave, wait for one another and fail, an id
\* names one row and an external id one row of its organisation: a retried or
\* concurrent submission replaces the row and never duplicates it (writer.go:
\* the ON CONFLICT of insertChunkSQL).
UniqueKeys ==
  \A r1, r2 \in rows :
    r1.id = r2.id \/ SameKey(r2, r1.org, r1.ext) => r1 = r2

\* An id a Put has returned is the name of that chunk for good: no other chunk
\* of the same batch, no chunk of another call and no row that appears later
\* goes by it, except a submission of the same external id of the same
\* organisation.  The caller's map from ids to its own keys rests on it
\* (writer.go: validateExternalIDsAreDistinct, ADR 0013).
IdNamesOneChunk ==
  /\ \A c, d \in Calls :
       \A i \in 1..Len(ans[c].ids), j \in 1..Len(ans[d].ids) :
         ans[c].ids[i] = ans[d].ids[j] =>
           \/ c = d /\ i = j
           \/ /\ c # d
              /\ Req(c).org = Req(d).org
              /\ Batch(c)[i].ext = Batch(d)[j].ext
              /\ Batch(c)[i].ext # NoExt
  /\ \A c \in Calls : \A i \in 1..Len(ans[c].ids) : \A row \in rows :
       row.id = ans[c].ids[i] =>
         row.org = Req(c).org /\ row.ext = Batch(c)[i].ext

\* As long as nobody deletes, submitting an external id again answers the id
\* that was answered before: the replaced row is not given a new id
\* (writer.go: neither id nor created_at is among the updated columns).
RetrySameIds ==
  (\A c \in Calls : job[c] # NoJob => ~IsDelete(Req(c))) =>
    \A c, d \in Calls :
      \A i \in 1..Len(ans[c].ids), j \in 1..Len(ans[d].ids) :
        /\ Req(c).org = Req(d).org
        /\ Batch(c)[i].ext = Batch(d)[j].ext
        /\ Batch(c)[i].ext # NoExt
        => ans[c].ids[i] = ans[d].ids[j]

\* A chunk of a Put becomes visible in the step that ends its call, together
\* with the whole rest of the batch: nobody ever sees a part of it, and a call
\* that ends in an error adds nothing (writer.go: Put, "all or nothing").
BatchIsAtomic ==
  [][\A row \in rows' \ rows :
       \E c \in Calls :
         /\ pc[c] # "answered" /\ pc'[c] = "answered"
         /\ ans'[c].status \in {"ok", "lost"}
         /\ \A i \in 1..Len(Batch(c)) :
              \E new \in rows' :
                new = RowOf(new.id, Req(c).org, Batch(c)[i], Emb(c), Tok(c))
         /\ \E i \in 1..Len(Batch(c)) : row.content = Batch(c)[i].content]_vars

\* The rows a delete removes are exactly those of its snapshot that still match
\* when it ends: a row a concurrent Put has moved out of the source meanwhile
\* survives, none that still matches is left, and the answered count is the
\* number of rows that went (writer.go: deleteBy).
DeleteExact ==
  [][\A c \in Calls :
       pc[c] = "delete" /\ pc'[c] = "answered" /\ ans'[c].status \in {"ok", "lost"} =>
         LET due == {row \in rows : row.id \in seen[c] /\ DeleteMatches(Req(c), row)}
         IN  /\ rows' = rows \ due
             /\ ans'[c].status = "ok" => ans'[c].count = Cardinality(due)]_vars

\* A step changes rows of an organisation only on behalf of a request for that
\* organisation, and a search shows its caller no row of another one (ADR 0003).
OrgIsolation ==
  [][/\ \A row \in (rows \ rows') \cup (rows' \ rows) :
          \E c \in Calls : pc'[c] # pc[c] /\ Req(c).org = row.org
     /\ \A c \in Calls : \A row \in hits'[c] : row.org = job'[c].req.org]_vars

\* All rows come from one embedder and one tokenizer (store.go: "the store as a
\* whole is one embedding space and one splitting rule").
SingleSpace ==
  \A r1, r2 \in rows : r1.emb = r2.emb /\ r1.tok = r2.tok

\* A search that answers compares its query only with rows of the embedder and
\* the tokenizer of the process that runs it (searcher.go: prepareSearch,
\* "surface it as an error, always").
HitsShareSpace ==
  \A c \in Calls : \A row \in hits[c] : row.emb = Emb(c) /\ row.tok = Tok(c)

\* Every request that reaches a handler is answered, even when Puts and deletes
\* wait for one another in a circle.
AllAnswered ==
  \A c \in Calls : pc[c] # "new" ~> pc[c] = "answered"

\* PgStore implements the promise of index.Writer.
Store == INSTANCE ChunkStore
Implements == Store!StoreSpec
=============================================================================
