----------------------------- MODULE ChunkStore -----------------------------
(***************************************************************************)
(* What a chunk store promises the callers of index.Writer, whatever       *)
(* database is under it: every call takes effect at most once, in one      *)
(* atomic step between its start and its answer; a call answered "ok" took *)
(* effect, a call answered with an error did not, and a call whose answer  *)
(* was lost did although its caller cannot know.  Transactions, locks and  *)
(* statement snapshots are the business of PgStore and SqliteStore, which  *)
(* are shown to implement this module.                                     *)
(***************************************************************************)
EXTENDS Chunks

CONSTANTS
  Calls,        \* identities of calls; each is made once, a retry is another
  Procs,        \* server processes, each with one Store value
  EmbedderOf,   \* the embedder identity process p was started with
  TokenizerOf   \* the tokenizer identity process p was started with

VARIABLES
  rows,         \* the committed rows of the chunks table
  job,          \* the process and request of a call, or NoJob
  ans           \* the answer of a call

storeVars == <<rows, job, ans>>

Errors == {"rejected", "embedder_mismatch", "tokenizer_mismatch",
           "unavailable", "error"}

Answer == [status : {"none", "ok", "lost"} \cup Errors,
           ids : Seq(Nat), count : Nat]

Say(status) == [status |-> status, ids |-> <<>>, count |-> 0]

NoJob == [made |-> FALSE]
Job == [made : {TRUE}, proc : Procs, req : Requests]

Open(c) == job[c] # NoJob /\ ans[c].status = "none"

\* Ids that name a row or that a caller has been given.
IssuedIds ==
  {row.id : row \in rows} \cup
  UNION {{ans[c].ids[i] : i \in 1..Len(ans[c].ids)} : c \in Calls}

StoreInit ==
  /\ rows = {}
  /\ job = [c \in Calls |-> NoJob]
  /\ ans = [c \in Calls |-> Say("none")]

\* A malformed request is refused before anything else happens.
Start(c) ==
  /\ job[c] = NoJob
  /\ \E p \in Procs, r \in Requests :
       /\ job' = [job EXCEPT ![c] = [made |-> TRUE, proc |-> p, req |-> r]]
       /\ IF Valid(r) THEN UNCHANGED ans
                      ELSE ans' = [ans EXCEPT ![c] = Say("rejected")]
  /\ UNCHANGED rows

\* A call that ends in an error has left no trace.
FailCall(c) ==
  /\ Open(c)
  /\ \E e \in Errors : ans' = [ans EXCEPT ![c] = Say(e)]
  /\ UNCHANGED <<rows, job>>

\* The whole batch appears in one step.  A chunk whose external id is already
\* stored replaces that row under the row's id; every other chunk gets an id
\* that never named anything.
PutBatch(c) ==
  LET r == job[c].req
      p == job[c].proc
      n == Len(r.batch)
  IN
  /\ Open(c)
  /\ IsPut(r) /\ Valid(r)
  /\ \E ids \in [1..n -> {row.id : row \in rows'}] :
       /\ \A i, j \in 1..n : ids[i] = ids[j] => i = j
       /\ \A i \in 1..n :
            \/ \E row \in rows :
                 SameKey(row, r.org, r.batch[i].ext) /\ ids[i] = row.id
            \/ /\ \A row \in rows : ~SameKey(row, r.org, r.batch[i].ext)
               /\ ids[i] \notin IssuedIds
       /\ rows' = {row \in rows : \A i \in 1..n : ids[i] # row.id} \cup
                  {RowOf(ids[i], r.org, r.batch[i], EmbedderOf[p], TokenizerOf[p])
                     : i \in 1..n}
       /\ \/ ans' = [ans EXCEPT ![c] = Say("lost")]
          \/ ans' = [ans EXCEPT ![c] = [status |-> "ok", ids |-> ids, count |-> n]]
  /\ UNCHANGED job

\* A delete removes rows of its own organisation that match it, and nothing
\* else; the rows other calls are writing at that moment may escape it.
DeleteRows(c) ==
  LET r == job[c].req IN
  /\ Open(c)
  /\ IsDelete(r) /\ Valid(r)
  /\ \E gone \in SUBSET {row \in rows : DeleteMatches(r, row)} :
       /\ rows' = rows \ gone
       /\ \/ ans' = [ans EXCEPT ![c] = Say("lost")]
          \/ ans' = [ans EXCEPT ![c] =
                       [status |-> "ok", ids |-> <<>>, count |-> Cardinality(gone)]]
  /\ UNCHANGED job

\* A search writes nothing.
AnswerSearch(c) ==
  /\ Open(c)
  /\ IsSearch(job[c].req) /\ Valid(job[c].req)
  /\ ans' = [ans EXCEPT ![c] = Say("ok")]
  /\ UNCHANGED <<rows, job>>

StoreNext ==
  \E c \in Calls :
    \/ Start(c)
    \/ FailCall(c)
    \/ PutBatch(c)
    \/ DeleteRows(c)
    \/ AnswerSearch(c)

StoreSpec == StoreInit /\ [][StoreNext]_storeVars
=============================================================================
