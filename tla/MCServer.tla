------------------------------- MODULE MCServer -------------------------------
(***************************************************************************)
(* Instances of Server for TLC: one request of every kind that is served,  *)
(* and one for each way in which one can be refused.                       *)
(***************************************************************************)
EXTENDS Server, TLC

Chunk(chunkId, ext, content) == [chunkId |-> chunkId, ext |-> ext, content |-> content]

PutOf(token, json, org, chunks) ==
  [route |-> "put", token |-> token, json |-> json, org |-> org, chunks |-> chunks]

SearchOf(token, json, org, text, limit, alpha) ==
  [route |-> "search", token |-> token, json |-> json, org |-> org, text |-> text,
   limit |-> limit, alpha |-> alpha]

DeleteOf(route, token, org, id) ==
  [route |-> route, token |-> token, org |-> org, id |-> id]

HealthOf(route) == [route |-> route, token |-> "none"]

Plain == <<Chunk(Absent, 7, "a"), Chunk(Absent, Absent, "b")>>
Twice == <<Chunk(Absent, 7, "a"), Chunk(Absent, 7, "b")>>

Served ==
  {PutOf("right", TRUE, 1, Plain), SearchOf("right", TRUE, 1, "q", Absent, Absent),
   DeleteOf("deleteChunk", "right", 1, TRUE), DeleteOf("deleteBySource", "right", 1, TRUE),
   HealthOf("healthz"), HealthOf("readyz")}

Uncovered ==
  {PutOf("wrong", TRUE, 1, Plain), DeleteOf("deleteByDocument", "none", 1, TRUE),
   [route |-> "unrouted", token |-> "right"]}

Malformed ==
  {PutOf("right", FALSE, 1, Plain),
   PutOf("right", TRUE, 1, <<Chunk(Absent, 7, "a"), Chunk(5, 0, "")>>),
   PutOf("right", TRUE, 1, Twice),
   SearchOf("right", TRUE, 1, "", Absent, Absent), SearchOf("right", TRUE, 1, "q", 0, Absent),
   SearchOf("right", TRUE, 1, "q", 101, 11), SearchOf("right", TRUE, 1, "q", 100, 11),
   DeleteOf("deleteByDocument", "right", Absent, TRUE)}

AllRequests == Served \cup Uncovered \cup Malformed

WiredProbes == <<"database", "embedder">>

Symmetry == Permutations(Conns)
=============================================================================
