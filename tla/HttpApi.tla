------------------------------- MODULE HttpApi -------------------------------
(***************************************************************************)
(* internal/httpapi: what a request is, what the handlers refuse before    *)
(* they call the store and in which order, what they make of the answer of *)
(* the store, and the state /healthz reports.  The operators of this       *)
(* module are the pure parts of the handlers; Server runs them.            *)
(*                                                                         *)
(* A header is the right token, a wrong one or none; a body decodes or does*)
(* not; an alpha is in tenths.  A path id parses or does not.              *)
(***************************************************************************)
EXTENDS Integers, Sequences, FiniteSetsExt

CONSTANTS
  Absent   \* the value of a field the caller has left out

DeleteRoutes == {"deleteChunk", "deleteBySource", "deleteByDocument"}
HealthRoutes == {"healthz", "readyz"}
\* What lies under /v1/: "unrouted" is any path or method nobody handles.
TokenRoutes == {"search", "put", "unrouted"} \cup DeleteRoutes

Writes == {"put"} \cup DeleteRoutes

\* The first of a sequence of checks that fails decides; "" when none does.
FirstFlaw(checks) ==
  LET failed == {i \in DOMAIN checks : checks[i].bad}
  IN  IF failed = {} THEN "" ELSE checks[Min(failed)].code

Check(bad, code) == [bad |-> bad, code |-> code]

Out(status, code) == [status |-> status, code |-> code]

-----------------------------------------------------------------------------
(* Boundary checks.                                                        *)

\* One mux under /v1/, wrapped as a whole; the health routes lie outside.
NeedsToken(r) == r.route \in TokenRoutes

\* With a token configured, a request under /v1/ must present it.
Unauthorized(auth, r) == auth /\ NeedsToken(r) /\ r.token # "right"

\* org.NewID and org.ParseID: missing, not a number, zero and negative alike.
BadOrg(org) == org = Absent \/ org < 1

\* chunkInput.validate.
ChunkChecks(ch) ==
  <<Check(ch.chunkId # Absent, "chunk_id_not_accepted"),
    Check(ch.ext # Absent /\ ch.ext < 1, "external_id_invalid"),
    Check(ch.content = "", "content_required")>>

\* toChunks: the batch as a whole, then chunk by chunk.
PutChecks(r) ==
  <<Check(~r.json, "invalid_json"),
    Check(BadOrg(r.org), "org_id_required"),
    Check(r.chunks = <<>>, "chunks_required")>>
  \o [k \in 1..(3 * Len(r.chunks)) |->
        ChunkChecks(r.chunks[((k - 1) \div 3) + 1])[((k - 1) % 3) + 1]]

DefaultLimit == 10
MaxLimit == 100

\* Mutant: zero is taken for "not given" and becomes the default.
LimitIsBad_ZeroPasses(limit) == limit # Absent /\ (limit < 0 \/ limit > MaxLimit)

LimitIsBad(limit) == limit # Absent /\ (limit < 1 \/ limit > MaxLimit)
AlphaIsBad(alpha) == alpha # Absent /\ (alpha < 0 \/ alpha > 10)

\* toQuery.
SearchChecks(r) ==
  <<Check(~r.json, "invalid_json"),
    Check(BadOrg(r.org), "org_id_required"),
    Check(r.text = "", "query_required"),
    Check(LimitIsBad(r.limit), "limit_out_of_range"),
    Check(AlphaIsBad(r.alpha), "alpha_out_of_range")>>

DeleteChecks(r) ==
  <<Check(BadOrg(r.org), "org_id_invalid"),
    Check(~r.id, "invalid_path_id")>>

\* The codes of these checks.
RefusalCodes ==
  {"", "invalid_json", "org_id_required", "chunks_required", "chunk_id_not_accepted",
   "external_id_invalid", "content_required", "query_required", "limit_out_of_range",
   "alpha_out_of_range", "org_id_invalid", "invalid_path_id"}

\* The code a request is refused with before the store is called, or "".
Refusal(r) ==
  CASE r.route = "put" -> FirstFlaw(PutChecks(r))
    [] r.route = "search" -> FirstFlaw(SearchChecks(r))
    [] r.route \in DeleteRoutes -> FirstFlaw(DeleteChecks(r))
    [] OTHER -> ""

-----------------------------------------------------------------------------
(* The call to the store.                                                  *)

\* resolveLimit: what the store is asked for.
LimitOf(r) == IF r.limit = Absent THEN DefaultLimit ELSE r.limit

\* What the store itself refuses before any I/O, of what can get there: a batch
\* with the same external id twice, and a query out of its contract.
StoreRefusal(r) ==
  CASE r.route = "put" /\ (\E i, j \in DOMAIN r.chunks :
           i # j /\ r.chunks[i].ext = r.chunks[j].ext /\ r.chunks[i].ext # Absent) -> "duplicate"
    [] r.route = "search" /\ (LimitOf(r) < 1 \/ r.text = "") -> "invalid_query"
    [] OTHER -> ""

\* How a call of the store can end.
CallOutcomes(r) ==
  IF StoreRefusal(r) # "" THEN {StoreRefusal(r)}
  ELSE IF r.route \in DeleteRoutes THEN {"ok", "error"}
  ELSE {"ok", "embedder_mismatch", "tokenizer_mismatch", "unavailable", "error"}

Success(r) == IF r.route = "deleteChunk" THEN 204 ELSE 200

\* Mutant: a mismatch is reported as an empty success.
Mapped_HidesMismatch(r, outcome) ==
  CASE outcome \in {"ok", "embedder_mismatch"} ->
         Out(Success(r), "")
    [] outcome = "invalid_query" -> Out(400, "invalid_query")
    [] outcome = "tokenizer_mismatch" -> Out(503, "tokenizer_mismatch")
    [] outcome = "unavailable" -> Out(503, "embedder_unavailable")
    [] OTHER -> Out(500, "internal")

\* The handler's answer to an outcome; failureMappings for the errors.
Mapped(r, outcome) ==
  CASE outcome = "ok" -> Out(Success(r), "")
    [] outcome = "invalid_query" -> Out(400, "invalid_query")
    [] outcome = "embedder_mismatch" -> Out(503, "embedder_mismatch")
    [] outcome = "tokenizer_mismatch" -> Out(503, "tokenizer_mismatch")
    [] outcome = "unavailable" -> Out(503, "embedder_unavailable")
    [] OTHER -> Out(500, "internal")

-----------------------------------------------------------------------------
(* Health.                                                                 *)

\* Mutant: the last failure decides.
AfterFailure_Last(status, probe) ==
  IF probe = "database" THEN "down" ELSE "degraded"

\* The state after a probe has failed: the worst failure decides.
AfterFailure(status, probe) ==
  IF probe = "database" THEN "down"
  ELSE IF status = "ok" THEN "degraded" ELSE status

HealthAnswer(status) == Out(IF status = "ok" THEN 200 ELSE 503, status)
=============================================================================
