------------------------------- MODULE Chunks -------------------------------
(***************************************************************************)
(* The data the chunk stores work on, shared by the abstract store and by  *)
(* the two implementations: a chunk as a caller sends it, the row it       *)
(* becomes, the requests of index.Writer and index.Searcher, the           *)
(* validation both stores do before any I/O, and the WHERE clauses.        *)
(*                                                                         *)
(* Page numbers, section labels and chunk indices are copied and never     *)
(* looked at, so they are left out; a content stands for itself, for the   *)
(* vector embedded from it and for its token list, which the stores write  *)
(* in the same statement.                                                  *)
(***************************************************************************)
EXTENDS Naturals, Integers, Sequences, FiniteSets

CONSTANTS
  Requests,     \* the requests callers may send, well-formed or not
  NoExt         \* external_id is NULL

\* A chunk as the caller sends it: chunk.Chunk.  Zero stands for "not set".
ChunkInput == [id : Nat, org : Nat, ext : Int \cup {NoExt},
               source : Nat, document : Nat, content : STRING]

PutRequest    == [op : {"put"}, org : Nat, batch : Seq(ChunkInput)]
DeleteRequest == [op : {"delete", "deleteBySource", "deleteByDocument"},
                  org : Nat, key : Nat]
SearchRequest == [op : {"search"}, org : Nat, text : STRING, limit : Nat,
                  documents : SUBSET Nat, sources : SUBSET Nat]

ASSUME RequestsAssumption ==
  /\ Requests \subseteq PutRequest \cup DeleteRequest \cup SearchRequest
  /\ NoExt \notin Int

IsPut(r)    == r.op = "put"
IsDelete(r) == r.op \in {"delete", "deleteBySource", "deleteByDocument"}
IsSearch(r) == r.op = "search"

\* A row of the chunks table.  emb and tok are the identities of the embedder
\* and of the tokenizer that produced its vector and its tokens.
Row == [id : Nat, org : Nat, ext : Int \cup {NoExt}, source : Nat,
        document : Nat, content : STRING, emb : STRING, tok : STRING]

\* The values the INSERT binds for chunk ch of organisation o.
RowOf(id, o, ch, emb, tok) ==
  [id |-> id, org |-> o, ext |-> ch.ext, source |-> ch.source,
   document |-> ch.document, content |-> ch.content, emb |-> emb, tok |-> tok]

-----------------------------------------------------------------------------
(* Validation before any I/O.                                              *)

ValidOrg(o) == o >= 1

ValidChunk(ch, o) ==
  /\ ch.id = 0
  /\ ch.content # ""
  /\ ch.ext # NoExt => ch.ext >= 1
  /\ ch.org # 0 => ch.org = o

\* Mutant: the check for one external id used twice in a batch is dropped.
ExternalIDsAreDistinct_Dropped(batch) == TRUE

ExternalIDsAreDistinct(batch) ==
  \A i, j \in 1..Len(batch) :
    batch[i].ext = batch[j].ext /\ batch[i].ext # NoExt => i = j

ValidBatch(o, batch) ==
  /\ ValidOrg(o)
  /\ batch # <<>>
  /\ \A i \in 1..Len(batch) : ValidChunk(batch[i], o)
  /\ ExternalIDsAreDistinct(batch)

ValidQuery(q) ==
  /\ ValidOrg(q.org)
  /\ q.limit >= 1
  /\ q.text # ""

Valid(r) ==
  \/ IsPut(r)    /\ ValidBatch(r.org, r.batch)
  \/ IsDelete(r) /\ ValidOrg(r.org)
  \/ IsSearch(r) /\ ValidQuery(r)

-----------------------------------------------------------------------------
(* The WHERE clauses.                                                      *)

\* Mutant: org_id is missing from the DELETE of one source.
DeleteMatches_NoOrg(r, row) ==
  \/ r.op = "delete"           /\ row.org = r.org /\ row.id = r.key
  \/ r.op = "deleteBySource"   /\ row.source = r.key
  \/ r.op = "deleteByDocument" /\ row.org = r.org /\ row.document = r.key

DeleteMatches(r, row) ==
  /\ row.org = r.org
  /\ \/ r.op = "delete"           /\ row.id = r.key
     \/ r.op = "deleteBySource"   /\ row.source = r.key
     \/ r.op = "deleteByDocument" /\ row.document = r.key

\* An empty filter list means "no filter".
SearchMatches(q, row) ==
  /\ row.org = q.org
  /\ q.documents = {} \/ row.document \in q.documents
  /\ q.sources = {} \/ row.source \in q.sources

SameKey(row, o, ext) == row.org = o /\ row.ext = ext /\ ext # NoExt
=============================================================================
