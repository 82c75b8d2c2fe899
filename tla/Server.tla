-------------------------------- MODULE Server --------------------------------
(***************************************************************************)
(* The server process: cmd/recall's run and serve from the start to the    *)
(* exit, and the handlers of internal/httpapi that run meanwhile.          *)
(*                                                                         *)
(* The main goroutine loads the settings, opens, builds and migrates the   *)
(* store, wires the handlers and listens.  A signal starts the graceful    *)
(* shutdown: stop listening, wait for the handlers, at most 10 seconds.    *)
(* The deferred close of the store runs when serve has returned, and the   *)
(* process exits; handlers still running are cut off.                      *)
(*                                                                         *)
(* The store is its handle and the outcomes of its calls; what happens in  *)
(* the database is the business of PgStore and SqliteStore.                *)
(***************************************************************************)
EXTENDS HttpApi

CONSTANTS
  Conns,      \* connections; each carries one request
  Requests,   \* the requests that may arrive
  Probes      \* the health probes, in the order they were wired

ASSUME ServerAssumption ==
  /\ Probes \in Seq({"database", "embedder"})
  /\ \A r \in Requests : r.route = "put" =>
       Len(r.chunks) \in Nat /\ DOMAIN r.chunks = 1..Len(r.chunks)

VARIABLES
  auth,       \* RECALL_API_TOKEN is set
  phase,      \* where the main goroutine is
  handle,     \* the connection pool: "none", "open" or "closed"
  migrated,   \* Migrate has succeeded
  signalled,  \* SIGINT or SIGTERM has arrived
  result,     \* what run returns: "none", "ok" or "failed"; "killed" if it cannot
  pc,         \* where the handler of a connection is
  req,        \* its request
  probed,     \* how many probes it has made
  failed,     \* the probes that failed
  health,     \* the state it would report so far
  effect,     \* its call to the store took effect
  resp,       \* the response it has decided on
  got         \* the caller has received the response

main == <<auth, phase, handle, migrated, signalled, result>>
handler == <<pc, req, probed, failed, health, effect, resp, got>>
vars == <<main, handler>>

Starting == {"config", "open", "build", "migrate", "wire"}
Phases == Starting \cup {"serving", "draining", "closing", "closed", "exited"}

InFlight(c) == pc[c] \in {"call", "probe", "respond"}

NoRequest == [route |-> "none"]

Init ==
  /\ auth \in BOOLEAN
  /\ phase = "config"
  /\ handle = "none"
  /\ migrated = FALSE
  /\ signalled = FALSE
  /\ result = "none"
  /\ pc = [c \in Conns |-> "idle"]
  /\ req = [c \in Conns |-> NoRequest]
  /\ probed = [c \in Conns |-> 0]
  /\ failed = [c \in Conns |-> {}]
  /\ health = [c \in Conns |-> "ok"]
  /\ effect = [c \in Conns |-> FALSE]
  /\ resp = [c \in Conns |-> Out(0, "")]
  /\ got = [c \in Conns |-> FALSE]

-----------------------------------------------------------------------------
(* The main goroutine.                                                     *)

Enter(p) == phase' = p

\* The process is gone, and its handlers with it.
EndProcess ==
  /\ Enter("exited")
  /\ pc' = [c \in Conns |-> IF InFlight(c) THEN "cut" ELSE pc[c]]
  /\ UNCHANGED <<req, probed, failed, health, effect, resp, got>>

\* run returns before its deferred close of the store is in place.
ReturnEarly ==
  /\ Enter("exited")
  /\ result' = "failed"

\* config.Load, buildEmbedder, buildTokenizer, and of openSQLite the refusal of
\* the candidates mode.
LoadConfig ==
  /\ phase = "config"
  /\ \/ Enter("open") /\ UNCHANGED result
     \/ ReturnEarly
  /\ UNCHANGED <<auth, handle, migrated, signalled, handler>>

\* Open pings the database, and closes the handle itself when that fails.
OpenStore ==
  /\ phase = "open"
  /\ \/ /\ Enter("build")
        /\ handle' = "open"
        /\ UNCHANGED result
     \/ /\ ReturnEarly
        /\ UNCHANGED handle
  /\ UNCHANGED <<auth, migrated, signalled, handler>>

\* Mutant: the error of New is returned without closing the handle.
BuildFails_Leaks == ReturnEarly /\ UNCHANGED handle

\* The search mode or New is refused: the handle is closed.
BuildFails == ReturnEarly /\ handle' = "closed"

BuildStore ==
  /\ phase = "build"
  /\ \/ Enter("migrate") /\ UNCHANGED <<handle, result>>
     \/ BuildFails
  /\ UNCHANGED <<auth, migrated, signalled, handler>>

\* Mutant: the error of Migrate is ignored.
MigrateStore_Ignored ==
  /\ phase = "migrate"
  /\ Enter("wire")
  /\ migrated' \in BOOLEAN
  /\ UNCHANGED <<auth, handle, signalled, result, handler>>

\* Migrate, at most 30 seconds; see Migrations.
MigrateStore ==
  /\ phase = "migrate"
  /\ \/ /\ Enter("wire")
        /\ migrated' = TRUE
        /\ UNCHANGED <<handle, result>>
     \/ /\ ReturnEarly
        /\ handle' = "closed"
        /\ UNCHANGED migrated
  /\ UNCHANGED <<auth, signalled, handler>>

\* serve returns: what is left is the deferred close.
ServeReturns(r) ==
  /\ Enter("closing")
  /\ result' = r

\* buildHandler, and serve up to the listener.
WireHandlers ==
  /\ phase = "wire"
  /\ \/ Enter("serving") /\ UNCHANGED result
     \/ ServeReturns("failed")
  /\ UNCHANGED <<auth, handle, migrated, signalled, handler>>

\* ListenAndServe fails, at once (the address is taken) or later; serve returns
\* without waiting for anybody.
ListenFails ==
  /\ phase = "serving"
  /\ ServeReturns("failed")
  /\ UNCHANGED <<auth, handle, migrated, signalled, handler>>

\* A signal.  Outside serve nobody has asked for it, and it kills the process.
Signal ==
  \/ /\ phase \in {"serving", "draining"}
     /\ signalled' = TRUE
     /\ UNCHANGED <<auth, phase, handle, migrated, result, handler>>
  \/ /\ phase \notin {"serving", "draining", "exited"}
     /\ result' = "killed"
     /\ EndProcess
     /\ UNCHANGED <<auth, handle, migrated, signalled>>

StartShutdown ==
  /\ phase = "serving"
  /\ signalled
  /\ Enter("draining")
  /\ UNCHANGED <<auth, handle, migrated, signalled, result, handler>>

\* Mutant: Close instead of Shutdown, nobody is waited for.
HandlersAreIdle_NotAsked == TRUE

HandlersAreIdle == \A c \in Conns : ~InFlight(c)

\* Shutdown has seen every connection idle.
ShutdownDone ==
  /\ phase = "draining"
  /\ HandlersAreIdle
  /\ ServeReturns("ok")
  /\ UNCHANGED <<auth, handle, migrated, signalled, handler>>

\* Mutant: Shutdown is given a context without a deadline.
ShutdownTimeout_None ==
  /\ phase = "draining"
  /\ FALSE
  /\ ServeReturns("failed")
  /\ UNCHANGED <<auth, handle, migrated, signalled, handler>>

\* shutdownTimeout is over and a handler is still running: it may wait for the
\* embedder for up to 60 seconds, and for the database without a bound.
ShutdownTimeout ==
  /\ phase = "draining"
  /\ ServeReturns("failed")
  /\ UNCHANGED <<auth, handle, migrated, signalled, handler>>

\* The deferred close.  It waits for no transaction in progress.
CloseStore ==
  /\ phase = "closing"
  /\ Enter("closed")
  /\ handle' = "closed"
  /\ UNCHANGED <<auth, migrated, signalled, result, handler>>

\* run returns and main exits.
Exit ==
  /\ phase = "closed"
  /\ EndProcess
  /\ UNCHANGED <<auth, handle, migrated, signalled, result>>

Stopping ==
  \/ StartShutdown
  \/ ShutdownDone
  \/ ShutdownTimeout
  \/ CloseStore
  \/ Exit

-----------------------------------------------------------------------------
(* The handlers.                                                           *)

Decide(c, response) ==
  /\ pc' = [pc EXCEPT ![c] = "respond"]
  /\ resp' = [resp EXCEPT ![c] = response]

\* A request is routed, its token and its input are checked.  A connection that
\* was accepted before the shutdown may still bring its request during it.  404
\* stands for 405 as well, which a known path answers to another method.
Accept(c) ==
  /\ phase \in {"serving", "draining"}
  /\ pc[c] = "idle"
  /\ \E r \in Requests :
       /\ req' = [req EXCEPT ![c] = r]
       /\ IF Unauthorized(auth, r) THEN Decide(c, Out(401, "unauthorized"))
          ELSE IF r.route = "unrouted" THEN Decide(c, Out(404, ""))
          ELSE IF Refusal(r) # "" THEN Decide(c, Out(400, Refusal(r)))
          ELSE /\ pc' = [pc EXCEPT ![c] = IF r.route \in HealthRoutes THEN "probe" ELSE "call"]
               /\ UNCHANGED resp
  /\ UNCHANGED <<main, probed, failed, health, effect, got>>

\* Searcher or Writer is called and answers; see ChunkStore for what it promises:
\* "ok" is that it took effect, the classified errors that it did not, any other
\* error that nobody knows (COMMIT may have been applied).
CallStore(c) ==
  /\ pc[c] = "call"
  /\ phase # "exited"
  /\ \E outcome \in CallOutcomes(req[c]) :
       /\ Decide(c, Mapped(req[c], outcome))
       /\ \E e \in (CASE outcome = "ok" -> {TRUE}
                      [] outcome = "error" -> {TRUE, FALSE}
                      [] OTHER -> {FALSE}) :
            effect' = [effect EXCEPT ![c] = e]
  /\ UNCHANGED <<main, req, probed, failed, health, got>>

\* evaluateHealth: one probe after the other, and dependencies come and go.
Probe(c) ==
  /\ pc[c] = "probe"
  /\ phase # "exited"
  /\ probed[c] < Len(Probes)
  /\ probed' = [probed EXCEPT ![c] = @ + 1]
  /\ LET probe == Probes[probed[c] + 1]
     IN  \/ UNCHANGED <<failed, health>>
         \/ /\ failed' = [failed EXCEPT ![c] = @ \cup {probe}]
            /\ health' = [health EXCEPT ![c] = AfterFailure(@, probe)]
  /\ UNCHANGED <<main, pc, req, effect, resp, got>>

\* handleHealthz, handleReadyz: the same judgement for both.
ReportHealth(c) ==
  /\ pc[c] = "probe"
  /\ phase # "exited"
  /\ probed[c] = Len(Probes)
  /\ Decide(c, HealthAnswer(health[c]))
  /\ UNCHANGED <<main, req, probed, failed, health, effect, got>>

\* The response is written.  It may not arrive: the caller has left, or
\* WriteTimeout has passed while the handler worked.  Its locals are gone.
Respond(c) ==
  /\ pc[c] = "respond"
  /\ phase # "exited"
  /\ pc' = [pc EXCEPT ![c] = "done"]
  /\ \E arrives \in BOOLEAN : got' = [got EXCEPT ![c] = arrives]
  /\ probed' = [probed EXCEPT ![c] = 0]
  /\ failed' = [failed EXCEPT ![c] = {}]
  /\ health' = [health EXCEPT ![c] = "ok"]
  /\ UNCHANGED <<main, req, effect, resp>>

Handle(c) ==
  \/ Accept(c)
  \/ CallStore(c)
  \/ Probe(c)
  \/ ReportHealth(c)
  \/ Respond(c)

Next ==
  \/ LoadConfig
  \/ OpenStore
  \/ BuildStore
  \/ MigrateStore
  \/ WireHandlers
  \/ ListenFails
  \/ Signal
  \/ Stopping
  \/ \E c \in Conns : Handle(c)

Spec == Init /\ [][Next]_vars

\* The main goroutine goes on when it can; the timer of the shutdown is part of
\* that.  Nothing is assumed of the handlers: one of them may hang for ever.
FairSpec == Spec /\ WF_vars(Stopping)
-----------------------------------------------------------------------------

\* The statuses and the codes of a response; 0 stands for none yet.
Statuses == {0, 200, 204, 400, 401, 404, 500, 503}
Codes ==
  RefusalCodes \cup {"unauthorized", "invalid_query", "embedder_mismatch", "tokenizer_mismatch",
                     "embedder_unavailable", "internal", "ok", "degraded", "down"}

\* Every variable has the type its comment says; a response has a status and a
\* code that the API description lists, or 404 (server.go: writeError).
TypeOK ==
  /\ auth \in BOOLEAN
  /\ phase \in Phases
  /\ handle \in {"none", "open", "closed"}
  /\ migrated \in BOOLEAN
  /\ signalled \in BOOLEAN
  /\ result \in {"none", "ok", "failed", "killed"}
  /\ pc \in [Conns -> {"idle", "call", "probe", "respond", "done", "cut"}]
  /\ req \in [Conns -> Requests \cup {NoRequest}]
  /\ probed \in [Conns -> 0..Len(Probes)]
  /\ failed \in [Conns -> SUBSET {"database", "embedder"}]
  /\ health \in [Conns -> {"ok", "degraded", "down"}]
  /\ effect \in [Conns -> BOOLEAN]
  /\ resp \in [Conns -> [status : Statuses, code : Codes]]
  /\ got \in [Conns -> BOOLEAN]

\* The caller may conclude from the answer what happened: 200 and 204 say that
\* the write took effect, 4xx and 503 that it did not and can be sent again;
\* only 500, or no answer, leaves it open (errors.go: failureMappings).
AnswerTellsEffect ==
  \A c \in Conns : got[c] /\ req[c].route \in Writes =>
    /\ resp[c].status \in {200, 204} => effect[c]
    /\ resp[c].status \in {400, 401, 404, 503} => ~effect[c]

\* A mismatch of the embedder or the tokenizer, or an embedder that does not
\* answer, is never passed off as a result (errors.go: "not hidden as an empty
\* result"), and a query that reaches the store is never one the store calls
\* invalid (search.go: resolveLimit, 0 is a value and not "missing").
SearchIsHonest ==
  \A c \in Conns : req[c].route = "search" =>
    /\ resp[c].status = 200 => effect[c]
    /\ resp[c].code # "invalid_query"

\* The reported state is the worst of what the probes found, in whatever order
\* they run: "down" exactly when the database was not there, "degraded" exactly
\* when only something else was missing (health.go: evaluateHealth).
HealthReportsWorst ==
  \A c \in Conns : req[c].route \in HealthRoutes /\ pc[c] = "respond" =>
    resp[c] = HealthAnswer(IF "database" \in failed[c] THEN "down"
                           ELSE IF failed[c] # {} THEN "degraded" ELSE "ok")

\* A handler runs only after the store has been opened and migrated.
ServesOnlyMigrated ==
  \A c \in Conns : pc[c] # "idle" => migrated /\ handle # "none"

\* However run ends by itself, at whichever step of the start or the stop, it
\* leaves no open handle (main.go: errors.Join(err, db.Close()), the defer).
NoHandleLeft ==
  phase = "exited" /\ result # "killed" => handle # "open"

\* A process that reports success has answered every request it accepted: when
\* a handler is cut off, the exit code says so (main.go: "graceful shutdown").
CleanExitCutsNobody ==
  result = "ok" => \A c \in Conns : pc[c] \in {"idle", "done"}

\* A signal stops the process, even when a handler never comes back.
SignalStops == signalled ~> phase = "exited"

\* What the comment on the deferred close says: the store is closed after the
\* server has stopped, no request in progress gets hold of a closed pool.
StoreOutlivesHandlers ==
  handle = "closed" => \A c \in Conns : pc[c] # "call"

\* What the API description says of external_id: the same one twice in one
\* request is a 400.
DuplicateIsBadRequest ==
  \A c \in Conns : got[c] /\ req[c].route = "put" =>
    (StoreRefusal(req[c]) = "duplicate" => resp[c].status \in {400, 401})
=============================================================================
