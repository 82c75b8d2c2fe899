------------------------------ MODULE MCChunks ------------------------------
(***************************************************************************)
(* Requests and processes for the instances of both stores.  The sets are  *)
(* small, but each was chosen so that calls collide: external ids in       *)
(* opposite orders, the same external id in two organisations, an external *)
(* id twice in one batch, a chunk that moves to another source while the   *)
(* source is being deleted.                                                *)
(***************************************************************************)
EXTENDS Chunks

Chunk(ext, source, content) ==
  [id |-> 0, org |-> 0, ext |-> ext, source |-> source, document |-> 1,
   content |-> content]

Put(o, batch)        == [op |-> "put", org |-> o, batch |-> batch]
DeleteOne(o, id)     == [op |-> "delete", org |-> o, key |-> id]
DeleteSource(o, s)   == [op |-> "deleteBySource", org |-> o, key |-> s]
DeleteDocument(o, d) == [op |-> "deleteByDocument", org |-> o, key |-> d]
Search(o, limit, docs, srcs) ==
  [op |-> "search", org |-> o, text |-> "q", limit |-> limit,
   documents |-> docs, sources |-> srcs]

\* Two batches over the external ids 1 and 2 in opposite orders, one of the
\* same id for another organisation, one without an external id, and one
\* the validation must refuse.
WriteRequests ==
  {Put(1, <<Chunk(1, 1, "a"), Chunk(2, 1, "b")>>),
   Put(1, <<Chunk(2, 1, "c"), Chunk(1, 1, "d")>>),
   Put(2, <<Chunk(1, 1, "e")>>),
   Put(1, <<Chunk(NoExt, 1, "f"), Chunk(NoExt, 1, "g")>>),
   Put(1, <<Chunk(1, 1, "h"), Chunk(1, 1, "i")>>)}

\* Deletes against a Put that moves external id 1 from source 1 to source 2.
DeleteRequests ==
  {Put(1, <<Chunk(1, 1, "a"), Chunk(2, 1, "b")>>),
   Put(1, <<Chunk(1, 2, "c")>>),
   Put(2, <<Chunk(1, 1, "d")>>),
   DeleteSource(1, 1),
   DeleteDocument(2, 1),
   DeleteOne(1, 1)}

StoreRequests == WriteRequests \cup DeleteRequests

\* Calls that can wait for one another in a circle, and a search.
WaitRequests ==
  {Put(1, <<Chunk(1, 1, "a"), Chunk(2, 1, "b")>>),
   Put(1, <<Chunk(2, 1, "c"), Chunk(1, 1, "d")>>),
   DeleteSource(1, 1),
   Search(1, 1, {}, {1})}

\* The callers of two processes that were started with different settings.
MixedRequests ==
  {Put(1, <<Chunk(1, 1, "a")>>),
   Put(2, <<Chunk(NoExt, 1, "b")>>),
   DeleteSource(1, 1),
   Search(1, 2, {}, {}),
   Search(1, 2, {1}, {2})}

OneProcs      == {"p1"}
OneEmbedder   == [p \in OneProcs |-> "bge-m3"]
OneTokenizer  == [p \in OneProcs |-> "bigram"]

TwoProcs       == {"p1", "p2"}
TwoEmbedders   == [p \in TwoProcs |-> "bge-m3"]
TwoTokenizers  == [p \in TwoProcs |-> IF p = "p1" THEN "bigram" ELSE "kagome"]

MixedProcs      == {"p1", "p2", "p3"}
MixedEmbedders  == [p \in MixedProcs |-> IF p = "p2" THEN "other" ELSE "bge-m3"]
MixedTokenizers == [p \in MixedProcs |-> IF p = "p3" THEN "kagome" ELSE "bigram"]
=============================================================================
