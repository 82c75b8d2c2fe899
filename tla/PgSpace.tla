------------------------------- MODULE PgSpace ------------------------------
(***************************************************************************)
(* PgStore with two history variables about the identity check of ADR 0005:*)
(* what the check of assertSameEmbedderAndTokenizer guarantees when it is  *)
(* one statement and the work it protects another, and when processes that *)
(* were started with different embedders or tokenizers share a database.   *)
(***************************************************************************)
EXTENDS PgStore

VARIABLES
  tainted,      \* rows of another space have been there ever since c arrived
  raced         \* two Puts of different spaces have been past their checks at once

auditVars == <<vars, tainted, raced>>

Space(p) == <<EmbedderOf[p], TokenizerOf[p]>>

\* The store holds a row of a space other than that of c's process.
Alien(c) == \E row \in rows : <<row.emb, row.tok>> # Space(job[c].proc)

\* c is a Put whose transaction has passed the check and has not ended.
Inserting(c) == pc[c] = "insert"

AuditInit ==
  /\ Init
  /\ tainted = [c \in Calls |-> FALSE]
  /\ raced = FALSE

Watch ==
  /\ tainted' = [c \in Calls |->
       IF pc'[c] \in {"new", "answered"} THEN tainted[c]
       ELSE (pc[c] = "new" \/ tainted[c]) /\ Alien(c)']
  /\ raced' = (raced \/ \E c, d \in Calls :
                          /\ Inserting(c)' /\ Inserting(d)'
                          /\ Space(job'[c].proc) # Space(job'[d].proc))

AuditSpec == AuditInit /\ [][Next /\ Watch]_auditVars

-----------------------------------------------------------------------------

\* A Put or a search succeeds in no store that held rows of another embedder or
\* another tokenizer all the time from its arrival to its answer: the mismatch
\* is reported and not worked around (store.go: "always an error").
NoSuccessInAlienStore ==
  \A c \in Calls :
    pc[c] = "answered" /\ tainted[c] /\ ~IsDelete(Req(c)) =>
      ans[c].status \notin {"ok", "lost"}

\* Spaces can mix in one way only: two Puts of processes with different
\* settings have both passed the check before either committed.  Processes that
\* agree, or that do not write at the same time, keep the store in one space.
MixNeedsRace == SingleSpace \/ raced
=============================================================================
