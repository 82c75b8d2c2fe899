--------------------------- MODULE RecallctlProofs ---------------------------
(***************************************************************************)
(* Proofs about Recallctl for any number of clients and any invocations:   *)
(* with recallctl on some of its connections the server still does only    *)
(* what Server says, and what exit codes and answers tell.                 *)
(***************************************************************************)
EXTENDS Recallctl, ServerProofs

-----------------------------------------------------------------------------

\* Every step of the composition is one of the server or leaves it alone.
LEMMA StepIsServers == [CtlNext]_ctlVars => [Next]_vars
<1>1. ServerGoesOn => Next
  BY DEF ServerGoesOn, Next, Handle
<1>2. ASSUME NEW c \in Clients, Invoke(c) \/ Arrive(c) \/ NotReached(c) \/ Finish(c)
      PROVE  [Next]_vars
  <2>1. c \in Conns
    BY RecallctlAssumption
  <2>. QED
    BY <1>2, <2>1 DEF Invoke, Arrive, NotReached, Finish, Next, Handle
<1>. QED
  BY <1>1, <1>2 DEF CtlNext, ctlVars

\* recallctl makes the server do nothing it would not do without it: everything
\* proved of Server holds with these clients as well.
THEOREM CtlImplementsServer == CtlSpec => Spec
<1>1. CtlInit => Init
  BY DEF CtlInit
<1>. QED
  BY <1>1, StepIsServers, PTL DEF CtlSpec, Spec

-----------------------------------------------------------------------------
(* What is asked of the server.                                            *)

LEMMA RoutesOfRequests ==
  ASSUME NEW inv \in Invocations, NEW whole \in BOOLEAN
  PROVE  /\ inv.command = "health" => RequestOf(inv, whole).route = "healthz"
         /\ inv.command # "health" => RequestOf(inv, whole).route = inv.command
<1>1. PICK org : org = OrgOf(inv)
  OBVIOUS
<1>2. CASE inv.command = "put"
  <2>1. RequestOf(inv, whole) = PutRequest(inv, whole)
    BY <1>2, Zenon DEF RequestOf
  <2>2. PutRequest(inv, whole).route = "put"
    BY DEF PutRequest
  <2>. QED
    BY <1>2, <2>1, <2>2, Zenon
<1>3. CASE inv.command = "search"
  <2>1. RequestOf(inv, whole) = SearchRequest(inv, whole)
    BY <1>3, Zenon DEF RequestOf
  <2>2. SearchRequest(inv, whole).route = "search"
    BY DEF SearchRequest
  <2>. QED
    BY <1>3, <2>1, <2>2, Zenon
<1>4. CASE inv.command = "health"
  <2>1. RequestOf(inv, whole) = HealthRequest(inv)
    BY <1>4, Zenon DEF RequestOf
  <2>2. HealthRequest(inv).route = "healthz"
    BY DEF HealthRequest
  <2>. QED
    BY <1>4, <2>1, <2>2, Zenon
<1>5. CASE inv.command \notin {"put", "search", "health"}
  <2>1. RequestOf(inv, whole) = DeleteRequest(inv)
    BY <1>5, Zenon DEF RequestOf
  <2>2. DeleteRequest(inv).route = inv.command
    BY DEF DeleteRequest
  <2>. QED
    BY <1>5, <2>1, <2>2, Zenon
<1>. QED
  BY <1>2, <1>3, <1>4, <1>5

\* A line that recallctl takes is a chunk that validate takes.
LEMMA LinePasses ==
  ASSUME NEW line, ~LineIsBad(line), NEW m \in {1, 2, 3}
  PROVE  ~ChunkChecks(line.chunk)[m].bad
<1>1. PICK ch : ch = line.chunk
  OBVIOUS
<1>2. PICK b1, b2, b3 :
        b1 = (ch.chunkId # Absent) /\ b2 = (ch.ext # Absent /\ ch.ext < 1) /\ b3 = (ch.content = "")
  BY Zenon
<1>3. ~b1 /\ ~b2 /\ ~b3
  BY <1>1, <1>2, Zenon DEF LineIsBad
<1>4. PICK p1, p2, p3 :
        /\ p1 = Check(b1, "chunk_id_not_accepted")
        /\ p2 = Check(b2, "external_id_invalid")
        /\ p3 = Check(b3, "content_required")
  BY Zenon
<1>5. p1.bad = b1 /\ p2.bad = b2 /\ p3.bad = b3
  BY <1>4, CheckFields, Zenon
<1>6. PICK q : q = <<p1, p2, p3>>
  OBVIOUS
<1>7. ChunkChecks(ch) = q
  BY <1>2, <1>4, <1>6, Zenon DEF ChunkChecks
<1>8. q[m] \in {p1, p2, p3}
  BY <1>6
<1>. QED
  BY <1>1, <1>3, <1>5, <1>7, <1>8, Zenon

\* A batch that recallctl sends is refused by none of the checks of toChunks, but
\* where its body was cut.
LEMMA PutPasses ==
  ASSUME NEW inv \in Invocations, inv.command = "put", ~UsageError(inv),
         NEW whole \in BOOLEAN
  PROVE  LET code == Refusal(PutRequest(inv, whole)) IN
         code = "" \/ (code = "invalid_json" /\ ~whole)
<1>1. PICK n \in Nat : n = Len(inv.lines) /\ DOMAIN inv.lines = 1..n
  BY RecallctlAssumption
<1>2. /\ ~BadOrg(OrgOf(inv)) /\ inv.lines # <<>>
      /\ \A i \in DOMAIN inv.lines : ~LineIsBad(inv.lines[i])
  BY Zenon DEF UsageError, InputIsBad
<1>3. PICK cs : cs = [i \in DOMAIN inv.lines |-> inv.lines[i].chunk]
  OBVIOUS
<1>4. PICK r : r = PutRequest(inv, whole)
  OBVIOUS
<1>5. r.route = "put" /\ r.json = whole /\ r.org = OrgOf(inv) /\ r.chunks = cs
  BY <1>3, <1>4 DEF PutRequest
<1>6. DOMAIN cs = 1..n /\ Len(cs) = n /\ cs # <<>>
  <2>1. DOMAIN cs = 1..n
    BY <1>1, <1>3
  <2>2. cs = [i \in 1..n |-> cs[i]]
    BY <1>1, <1>3
  <2>3. cs \in [1..n -> {cs[i] : i \in 1..n}]
    BY <2>1, <2>2
  <2>4. Len(cs) = n
    BY <2>3
  <2>5. n # 0
    BY <1>1, <1>2
  <2>. QED
    BY <2>1, <2>4, <2>5
<1>7. PICK checks : checks = PutChecks(r)
  OBVIOUS
<1>8. /\ DOMAIN checks \subseteq Nat
      /\ \A i \in DOMAIN checks :
           \/ checks[i] = Check(~r.json, "invalid_json")
           \/ checks[i] = Check(BadOrg(r.org), "org_id_required")
           \/ checks[i] = Check(r.chunks = <<>>, "chunks_required")
           \/ \E j \in 1..n, m \in {1, 2, 3} : checks[i] = ChunkChecks(r.chunks[j])[m]
  <2>1. DOMAIN r.chunks = 1..n /\ Len(r.chunks) = n
    BY <1>5, <1>6, Zenon
  <2>2. DOMAIN checks \subseteq Nat
    BY <1>7, <2>1, PutChecksAre
  <2>3. ASSUME NEW i \in DOMAIN checks
        PROVE  \/ checks[i] = Check(~r.json, "invalid_json")
               \/ checks[i] = Check(BadOrg(r.org), "org_id_required")
               \/ checks[i] = Check(r.chunks = <<>>, "chunks_required")
               \/ \E j \in 1..n, m \in {1, 2, 3} : checks[i] = ChunkChecks(r.chunks[j])[m]
    BY <1>7, <2>1, PutChecksAre
  <2>. QED
    BY <2>2, <2>3, Zenon
<1>9. ASSUME NEW i \in DOMAIN checks
      PROVE  checks[i].bad => checks[i].code = "invalid_json" /\ ~whole
  <2>1. PICK b1, b2, b3 : b1 = (~r.json) /\ b2 = BadOrg(r.org) /\ b3 = (r.chunks = <<>>)
    BY Zenon
  <2>2. b1 = ~whole /\ ~b2 /\ ~b3
    BY <1>2, <1>5, <1>6, <2>1, Zenon
  <2>3. \/ checks[i] = Check(b1, "invalid_json")
        \/ checks[i] = Check(b2, "org_id_required")
        \/ checks[i] = Check(b3, "chunks_required")
        \/ \E j \in 1..n, m \in {1, 2, 3} : checks[i] = ChunkChecks(r.chunks[j])[m]
    BY <1>8, <2>1, Zenon
  <2>4. /\ Check(b1, "invalid_json").bad = b1
        /\ Check(b1, "invalid_json").code = "invalid_json"
        /\ Check(b2, "org_id_required").bad = b2
        /\ Check(b3, "chunks_required").bad = b3
    BY CheckFields, Zenon
  <2>5. CASE \E j \in 1..n, m \in {1, 2, 3} : checks[i] = ChunkChecks(r.chunks[j])[m]
    <3>1. PICK j \in 1..n, m \in {1, 2, 3} : checks[i] = ChunkChecks(r.chunks[j])[m]
      BY <2>5
    <3>2. r.chunks[j] = inv.lines[j].chunk /\ ~LineIsBad(inv.lines[j])
      BY <1>1, <1>2, <1>3, <1>5
    <3>. QED
      BY <3>1, <3>2, LinePasses, Zenon
  <2>. QED
    BY <2>2, <2>3, <2>4, <2>5, Zenon
<1>10. FirstFlaw(checks) = "" \/ (FirstFlaw(checks) = "invalid_json" /\ ~whole)
  BY <1>8, <1>9, FirstFlawIsOne, Zenon
<1>11. Refusal(r) = FirstFlaw(PutChecks(r))
  <2>1. "put" # "search" /\ "put" \notin DeleteRoutes
    BY DEF DeleteRoutes
  <2>. QED
    BY <1>5, <2>1, Zenon DEF Refusal
<1>. QED
  BY <1>4, <1>7, <1>10, <1>11, Zenon

\* A search that recallctl sends has what toQuery requires, but for the ranges.
LEMMA SearchNearlyPasses ==
  ASSUME NEW inv, ~BadOrg(OrgOf(inv)), ~QueryIsBlank(inv), NEW whole \in BOOLEAN
  PROVE  LET code == Refusal(SearchRequest(inv, whole)) IN
         \/ code \in {"", "limit_out_of_range", "alpha_out_of_range"}
         \/ code = "invalid_json" /\ ~(whole /\ AlphaFits(inv.alpha))
<1>1. PICK r : r = SearchRequest(inv, whole)
  OBVIOUS
<1>2. /\ r.route = "search" /\ r.json = (whole /\ AlphaFits(inv.alpha))
      /\ r.org = OrgOf(inv) /\ r.text = inv.text
  BY <1>1 DEF SearchRequest
<1>3. r.text # ""
  BY <1>2, Zenon DEF QueryIsBlank
<1>4. ~BadOrg(r.org)
  BY <1>2, Zenon
<1>5. Refusal(r) = FirstFlaw(SearchChecks(r))
  <2>1. "search" # "put" /\ "search" \notin DeleteRoutes
    BY DEF DeleteRoutes
  <2>. QED
    BY <1>2, <2>1, Zenon DEF Refusal
<1>6. PICK code : code = FirstFlaw(SearchChecks(r))
  OBVIOUS
<1>7. \/ code \in {"", "limit_out_of_range", "alpha_out_of_range"}
      \/ code = "invalid_json" /\ ~(whole /\ AlphaFits(inv.alpha))
  BY <1>2, <1>3, <1>4, <1>6, SearchRefused, Zenon
<1>. QED
  BY <1>1, <1>5, <1>6, <1>7, Zenon

\* A body that is whole or not is not the same to the server, but for a search it
\* cannot decode in either case.
LEMMA WholeMatters ==
  ASSUME NEW inv \in Invocations, NEW whole \in BOOLEAN,
         \/ inv.command = "put" /\ ~whole
         \/ inv.command = "search" /\ ~(whole /\ AlphaFits(inv.alpha))
  PROVE  \/ RequestOf(inv, whole) # RequestOf(inv, TRUE)
         \/ inv.command = "search" /\ ~AlphaFits(inv.alpha)
<1>1. CASE inv.command = "put"
  <2>1. \A w \in BOOLEAN : RequestOf(inv, w) = PutRequest(inv, w)
    BY <1>1, Zenon DEF RequestOf
  <2>2. \A w \in BOOLEAN : PutRequest(inv, w).json = w
    BY DEF PutRequest
  <2>3. ~whole
    BY <1>1
  <2>. QED
    BY <2>1, <2>2, <2>3, Zenon
<1>2. CASE inv.command = "search"
  <2>1. \A w \in BOOLEAN : RequestOf(inv, w) = SearchRequest(inv, w)
    <3>1. inv.command # "put"
      BY <1>2
    <3>. QED
      BY <1>2, <3>1, Zenon DEF RequestOf
  <2>2. \A w \in BOOLEAN : SearchRequest(inv, w).json = (w /\ AlphaFits(inv.alpha))
    BY DEF SearchRequest
  <2>3. ~(whole /\ AlphaFits(inv.alpha))
    BY <1>2
  <2>. QED
    BY <1>2, <2>1, <2>2, <2>3, Zenon
<1>. QED
  BY <1>1, <1>2

\* A deletion that recallctl sends passes.
LEMMA DeletePasses ==
  ASSUME NEW inv, inv.command \in DeleteRoutes, ~BadOrg(OrgOf(inv))
  PROVE  Refusal(DeleteRequest(inv)) = ""
<1>1. PICK r : r = DeleteRequest(inv)
  OBVIOUS
<1>2. r.route = inv.command /\ r.id = TRUE /\ r.org = OrgOf(inv)
  BY <1>1 DEF DeleteRequest
<1>3. PICK b1, b2 : b1 = BadOrg(r.org) /\ b2 = (~r.id)
  BY Zenon
<1>4. ~b1 /\ ~b2
  BY <1>2, <1>3, Zenon
<1>5. PICK p1, p2 : p1 = Check(b1, "org_id_invalid") /\ p2 = Check(b2, "invalid_path_id")
  OBVIOUS
<1>6. p1.bad = b1 /\ p2.bad = b2
  BY <1>5, CheckFields, Zenon
<1>7. PICK checks : checks = <<p1, p2>>
  OBVIOUS
<1>8. DeleteChecks(r) = checks
  BY <1>3, <1>5, <1>7, Zenon DEF DeleteChecks
<1>9. DOMAIN checks \subseteq Nat /\ \A i \in DOMAIN checks : checks[i] \in {p1, p2}
  BY <1>7
<1>10. FirstFlaw(checks) = ""
  BY <1>4, <1>6, <1>9, FirstFlawIsOne, Zenon
<1>11. Refusal(r) = FirstFlaw(DeleteChecks(r))
  <2>1. "put" \notin DeleteRoutes /\ "search" \notin DeleteRoutes
    BY DEF DeleteRoutes
  <2>. QED
    BY <1>2, <2>1, Zenon DEF Refusal
<1>. QED
  BY <1>1, <1>8, <1>10, <1>11, Zenon

\* What a request of recallctl may be refused with, 400.
LeftToServer(code, r, inv) ==
  \/ code \in {"limit_out_of_range", "alpha_out_of_range"}
  \/ /\ code = "invalid_json"
     /\ r # RequestOf(inv, TRUE) \/ (inv.command = "search" /\ ~AlphaFits(inv.alpha))

\* What the server finds wrong with a request of recallctl is a range, or a body
\* that it cannot decode though recallctl has written valid JSON.
LEMMA RequestsPass ==
  ASSUME NEW inv \in Invocations, ~UsageError(inv), NEW whole \in BOOLEAN
  PROVE  LET r == RequestOf(inv, whole)
         IN  Refusal(r) = "" \/ LeftToServer(Refusal(r), r, inv)
<1>0. /\ "search" # "put" /\ "health" # "put" /\ "health" # "search"
      /\ "put" \notin DeleteRoutes /\ "search" \notin DeleteRoutes /\ "health" \notin DeleteRoutes
  BY DEF DeleteRoutes
<1>a. PICK r, code : r = RequestOf(inv, whole) /\ code = Refusal(r)
  BY Zenon
<1>1. CASE inv.command = "put"
  <2>1. r = PutRequest(inv, whole)
    BY <1>a, <1>1, Zenon DEF RequestOf
  <2>2. code = "" \/ (code = "invalid_json" /\ ~whole)
    BY <1>a, <1>1, <2>1, PutPasses, Zenon
  <2>3. ~whole => r # RequestOf(inv, TRUE) \/ (inv.command = "search" /\ ~AlphaFits(inv.alpha))
    BY <1>a, <1>1, WholeMatters, Zenon
  <2>. QED
    BY <1>a, <2>2, <2>3, Zenon DEF LeftToServer
<1>2. CASE inv.command = "search"
  <2>1. r = SearchRequest(inv, whole)
    BY <1>a, <1>0, <1>2, Zenon DEF RequestOf
  <2>2. ~BadOrg(OrgOf(inv)) /\ ~QueryIsBlank(inv)
    BY <1>2, Zenon DEF UsageError
  <2>3. \/ code \in {"", "limit_out_of_range", "alpha_out_of_range"}
        \/ code = "invalid_json" /\ ~(whole /\ AlphaFits(inv.alpha))
    BY <1>a, <2>1, <2>2, SearchNearlyPasses, Zenon
  <2>4. ~(whole /\ AlphaFits(inv.alpha)) =>
          r # RequestOf(inv, TRUE) \/ (inv.command = "search" /\ ~AlphaFits(inv.alpha))
    BY <1>a, <1>2, WholeMatters, Zenon
  <2>5. code = "" \/ LeftToServer(code, r, inv)
    BY <2>3, <2>4 DEF LeftToServer
  <2>. QED
    BY <1>a, <2>5, Zenon
<1>3. CASE inv.command \in DeleteRoutes
  <2>1. r = DeleteRequest(inv)
    BY <1>a, <1>0, <1>3, Zenon DEF RequestOf
  <2>2. ~BadOrg(OrgOf(inv))
    BY Zenon DEF UsageError
  <2>. QED
    BY <1>a, <1>3, <2>1, <2>2, DeletePasses, Zenon
<1>4. CASE inv.command = "health"
  <2>1. r.route = "healthz"
    BY <1>a, <1>4, RoutesOfRequests
  <2>2. "healthz" \in HealthRoutes
    BY DEF HealthRoutes
  <2>. QED
    BY <1>a, <2>1, <2>2, HealthIsOpen, Zenon
<1>5. inv.command \in {"put", "search", "health"} \cup DeleteRoutes
  BY RecallctlAssumption
<1>. QED
  BY <1>1, <1>2, <1>3, <1>4, <1>5

-----------------------------------------------------------------------------
(* What a client knows when it exits.                                      *)

\* What a client's connection keeps: the answer it has got, an effect, and its
\* request.
Keeps(c) ==
  /\ pc[c] = "done" => /\ pc'[c] = "done" /\ resp'[c] = resp[c]
                       /\ effect'[c] = effect[c] /\ got'[c] = got[c]
  /\ effect[c] => effect'[c]
  /\ req'[c] = req[c]
  /\ pc'[c] = "idle" <=> pc[c] = "idle"

\* The main goroutine makes no connection lose anything.
LEMMA MainKeeps ==
  ASSUME HandlerTypes, AnswerInv, NEW c \in Conns, UNCHANGED handler \/ EndProcess
  PROVE  Keeps(c)
<1>1. CASE UNCHANGED handler
  BY <1>1 DEF handler, Keeps
<1>2. CASE EndProcess
  <2>1. /\ pc[c] \in {"idle", "done"} => pc'[c] = pc[c]
        /\ pc[c] # "idle" => pc'[c] # "idle"
        /\ req' = req /\ resp' = resp /\ effect' = effect /\ got' = got
    BY <1>2 DEF EndProcess, InFlight, HandlerTypes
  <2>. QED
    BY <2>1 DEF Keeps
<1>. QED
  BY <1>1, <1>2

\* Nor does a handler, but for the acceptance of the request itself.
LEMMA HandlerKeeps ==
  ASSUME HandlerTypes, AnswerInv, NEW c \in Conns, NEW d \in Conns,
         \/ Accept(d) /\ d # c
         \/ CallStore(d) \/ Probe(d) \/ ReportHealth(d) \/ Respond(d)
  PROVE  Keeps(c)
<1>. USE DEF HandlerTypes
<1>1. CASE Accept(d) /\ d # c
  <2>1. PICK r \in Requests :
          /\ req' = [req EXCEPT ![d] = r]
          /\ IF Unauthorized(auth, r) THEN Decide(d, Out(401, "unauthorized"))
             ELSE IF r.route = "unrouted" THEN Decide(d, Out(404, ""))
             ELSE IF Refusal(r) # "" THEN Decide(d, Out(400, Refusal(r)))
             ELSE /\ pc' = [pc EXCEPT ![d] = IF r.route \in HealthRoutes THEN "probe" ELSE "call"]
                  /\ UNCHANGED resp
    BY <1>1 DEF Accept
  <2>2. \/ \E answer : Decide(d, answer)
        \/ /\ pc' = [pc EXCEPT ![d] = IF r.route \in HealthRoutes THEN "probe" ELSE "call"]
           /\ UNCHANGED resp
    BY <2>1, Zenon
  <2>3. pc'[c] = pc[c] /\ resp'[c] = resp[c]
    BY <1>1, <2>2 DEF Decide
  <2>4. req'[c] = req[c]
    <3>1. req' = [req EXCEPT ![d] = r]
      BY <2>1
    <3>. QED
      BY <1>1, <3>1
  <2>5. effect' = effect /\ got' = got
    BY <1>1 DEF Accept
  <2>. QED
    BY <2>3, <2>4, <2>5 DEF Keeps
<1>2. CASE CallStore(d)
  <2>1. PICK answer, e : Decide(d, answer) /\ effect' = [effect EXCEPT ![d] = e]
    BY <1>2, Zenon DEF CallStore
  <2>2. /\ d = c => pc[c] = "call" /\ pc'[c] = "respond"
        /\ d # c => pc'[c] = pc[c] /\ resp'[c] = resp[c] /\ effect'[c] = effect[c]
        /\ req' = req /\ got' = got
    BY <1>2, <2>1 DEF CallStore, Decide
  <2>3. pc[c] = "call" => ~effect[c]
    BY DEF AnswerInv
  <2>. QED
    BY <2>2, <2>3 DEF Keeps
<1>3. CASE Probe(d) \/ ReportHealth(d) \/ Respond(d)
  <2>1. /\ pc[c] = "done" => d # c
        /\ d = c => pc[c] # "idle" /\ pc'[c] # "idle"
        /\ d # c => pc'[c] = pc[c] /\ resp'[c] = resp[c] /\ got'[c] = got[c]
        /\ req' = req /\ effect' = effect
    BY <1>3 DEF Probe, ReportHealth, Respond, Decide
  <2>. QED
    BY <2>1 DEF Keeps
<1>. QED
  BY <1>1, <1>2, <1>3

\* As long as a client does nothing, it loses nothing.
LEMMA ServerKeeps ==
  ASSUME HandlerTypes, AnswerInv, ServerGoesOn, NEW c \in Clients
  PROVE  Keeps(c)
<1>1. c \in Conns
  BY RecallctlAssumption
<1>2. \/ UNCHANGED handler \/ EndProcess
      \/ \E d \in Conns : CallStore(d) \/ Probe(d) \/ ReportHealth(d) \/ Respond(d)
      \/ \E d \in Conns \ Clients : Accept(d)
  BY DEF ServerGoesOn, LoadConfig, OpenStore, BuildStore, MigrateStore, WireHandlers, ListenFails,
         Signal, Stopping, StartShutdown, ShutdownDone, ShutdownTimeout, CloseStore, Exit
<1>3. CASE UNCHANGED handler \/ EndProcess
  BY <1>1, <1>3, MainKeeps
<1>4. ASSUME NEW d \in Conns, CallStore(d) \/ Probe(d) \/ ReportHealth(d) \/ Respond(d)
      PROVE  Keeps(c)
  BY <1>1, <1>4, HandlerKeeps
<1>5. ASSUME NEW d \in Conns \ Clients, Accept(d) PROVE Keeps(c)
  BY <1>1, <1>5, HandlerKeeps
<1>. QED
  BY <1>2, <1>3, <1>4, <1>5

CtlTypes ==
  ctl \in [Clients -> [at : {"idle", "sent", "exited"},
                       inv : Invocations \cup {[command |-> "none"]},
                       code : {ExitOK, ExitUsage, ExitServer, ExitConnect}]]

\* What ExitTells says of one client, and that of health the answer is there.
Told(c) ==
  LET inv == ctl[c].inv
      code == ctl[c].code
  IN  /\ code = ExitOK => \/ AsksHelp(inv)
                          \/ effect[c]
                          \/ inv.command = "health" /\ got[c] /\ resp[c].code = "ok"
      /\ code = ExitServer => got[c] /\ (effect[c] => resp[c].status = 500)
      /\ code = ExitUsage => \/ UsageError(inv) /\ pc[c] = "idle"
                             \/ effect[c]
                             \/ inv.command = "health" /\ got[c]

\* What the server has of a client is the request of its invocation, or the part
\* of it that has arrived.
Asked(r, inv) == \E whole \in BOOLEAN : r = RequestOf(inv, whole)

CtlInv ==
  \A c \in Clients :
    /\ ctl[c].at = "idle" => pc[c] = "idle"
    /\ ctl[c].at # "idle" => ctl[c].inv \in Invocations
    /\ ctl[c].at = "sent" => ~UsageError(ctl[c].inv)
    /\ pc[c] # "idle" => Asked(req[c], ctl[c].inv) /\ ~UsageError(ctl[c].inv)
    /\ ctl[c].at = "exited" => Told(c)

LEMMA InitCtl == CtlInit => CtlTypes /\ CtlInv
<1>. SUFFICES ASSUME CtlInit PROVE CtlTypes /\ CtlInv
  OBVIOUS
<1>1. CtlTypes
  <2>1. PICK none : none = [command |-> "none"]
    OBVIOUS
  <2>2. NotInvoked = [at |-> "idle", inv |-> none, code |-> ExitOK]
    BY <2>1, Zenon DEF NotInvoked
  <2>3. ctl = [c \in Clients |-> [at |-> "idle", inv |-> none, code |-> ExitOK]]
    BY <2>2, Zenon DEF CtlInit
  <2>4. ctl \in [Clients -> [at : {"idle", "sent", "exited"}, inv : Invocations \cup {none},
                             code : {ExitOK, ExitUsage, ExitServer, ExitConnect}]]
    BY <2>3
  <2>. QED
    BY <2>1, <2>4, Zenon DEF CtlTypes
<1>2. CtlInv
  <2>1. \A c \in Clients : ctl[c].at = "idle" /\ pc[c] = "idle"
    BY RecallctlAssumption DEF CtlInit, Init, NotInvoked
  <2>. QED
    BY <2>1 DEF CtlInv
<1>. QED
  BY <1>1, <1>2

LEMMA NextCtlTypes == CtlTypes /\ [CtlNext]_ctlVars => CtlTypes'
<1>. SUFFICES ASSUME CtlTypes, [CtlNext]_ctlVars PROVE CtlTypes'
  OBVIOUS
<1>. USE DEF CtlTypes
<1>1. CASE UNCHANGED ctl
  BY <1>1
<1>2. ASSUME NEW c \in Clients, Invoke(c) PROVE CtlTypes'
  <2>1. PICK inv \in Invocations :
          ctl' = [ctl EXCEPT ![c] =
            IF AsksHelp(inv) THEN [at |-> "exited", inv |-> inv, code |-> ExitOK]
            ELSE IF UsageError(inv) THEN [at |-> "exited", inv |-> inv, code |-> ExitUsage]
            ELSE [at |-> "sent", inv |-> inv, code |-> ExitOK]]
    BY <1>2 DEF Invoke
  <2>2. PICK at \in {"sent", "exited"}, code \in {ExitOK, ExitUsage} :
          ctl' = [ctl EXCEPT ![c] = [at |-> at, inv |-> inv, code |-> code]]
    BY <2>1, Zenon
  <2>. QED
    BY <2>2
<1>3. ASSUME NEW c \in Clients, NotReached(c) PROVE CtlTypes'
  BY <1>3 DEF NotReached, ExitWith
<1>4. ASSUME NEW c \in Clients, Finish(c) PROVE CtlTypes'
  <2>1. PICK code \in {ExitOK, ExitUsage, ExitServer} : ExitWith(c, code)
    BY <1>4 DEF Finish, ExitCodes
  <2>. QED
    BY <2>1 DEF ExitWith
<1>. QED
  BY <1>1, <1>2, <1>3, <1>4 DEF CtlNext, Arrive, ctlVars

\* What a client has been told stays true.
LEMMA ToldStays ==
  ASSUME AnswerInv, NEW c \in Clients, Told(c), Keeps(c), ctl'[c] = ctl[c]
  PROVE  Told(c)'
<1>1. c \in Conns
  BY RecallctlAssumption
<1>2. got[c] => got'[c] /\ resp'[c] = resp[c] /\ effect'[c] = effect[c]
  BY <1>1 DEF AnswerInv, Keeps
<1>3. (effect[c] => effect'[c]) /\ (pc[c] = "idle" => pc'[c] = "idle")
  BY DEF Keeps
<1>4. PICK inv, code : inv = ctl[c].inv /\ code = ctl[c].code
  OBVIOUS
<1>5. ctl'[c].inv = inv /\ ctl'[c].code = code
  BY <1>4
<1>6. (code = ExitOK => \/ AsksHelp(inv)
                        \/ effect[c]
                        \/ inv.command = "health" /\ got[c] /\ resp[c].code = "ok")'
  <2>1. code = ExitOK => \/ AsksHelp(inv)
                         \/ effect[c]
                         \/ inv.command = "health" /\ got[c] /\ resp[c].code = "ok"
    BY <1>4, Zenon DEF Told
  <2>. QED
    BY <1>2, <1>3, <2>1, Zenon
<1>7. (code = ExitServer => got[c] /\ (effect[c] => resp[c].status = 500))'
  <2>1. code = ExitServer => got[c] /\ (effect[c] => resp[c].status = 500)
    BY <1>4, Zenon DEF Told
  <2>. QED
    BY <1>2, <2>1, Zenon
<1>8. (code = ExitUsage => \/ UsageError(inv) /\ pc[c] = "idle"
                           \/ effect[c]
                           \/ inv.command = "health" /\ got[c])'
  <2>1. code = ExitUsage => \/ UsageError(inv) /\ pc[c] = "idle"
                            \/ effect[c]
                            \/ inv.command = "health" /\ got[c]
    BY <1>4, Zenon DEF Told
  <2>. QED
    BY <1>2, <1>3, <2>1, Zenon
<1>. QED
  BY <1>5, <1>6, <1>7, <1>8, Zenon DEF Told

\* The exit code for a response that has arrived tells what it should.
LEMMA FinishTells ==
  ASSUME HandlerTypes, AnswerInv, CtlTypes, CtlInv, NEW c \in Clients, Finish(c)
  PROVE  Told(c)'
<1>1. c \in Conns
  BY RecallctlAssumption
<1>2. PICK inv : inv = ctl[c].inv
  OBVIOUS
<1>3. PICK code \in ExitCodes(inv.command, resp[c]) : ExitWith(c, code)
  BY <1>2 DEF Finish
<1>4. ctl'[c].inv = inv /\ ctl'[c].code = code
  BY <1>2, <1>3 DEF ExitWith, CtlTypes
<1>5. got[c] /\ pc[c] = "done" /\ pc' = pc /\ resp' = resp /\ effect' = effect /\ got' = got
  BY <1>1 DEF Finish, vars, handler, AnswerInv
<1>6. PICK whole \in BOOLEAN : inv \in Invocations /\ req[c] = RequestOf(inv, whole)
  BY <1>2, <1>5 DEF CtlInv, Asked, Finish
<1>7. PICK status, state : status = resp[c].status /\ state = resp[c].code
  OBVIOUS
<1>8. status \in Statuses \ {0}
  <2>1. resp[c] \in Answers
    BY <1>1 DEF HandlerTypes
  <2>2. resp[c].status # 0
    BY <1>1, <1>5 DEF AnswerInv
  <2>. QED
    BY <1>7, <2>1, <2>2 DEF Answers
<1>9. \/ code = ExitServer /\ (status >= 400 /\ ~(inv.command = "health" /\ status = 503))
      \/ /\ status < 400 \/ (inv.command = "health" /\ status = 503)
         /\ \/ code = ExitUsage
            \/ inv.command = "health" /\ state # "ok" /\ code = ExitServer
            \/ ~(inv.command = "health" /\ state # "ok") /\ code = ExitOK
  <2>1. PICK printed : printed = Prints(inv.command)
    OBVIOUS
  <2>. QED
    BY <1>3, <1>7, <1>8, <2>1 DEF ExitCodes, ServerRefused, Tolerates, Statuses
<1>10. ExitOK # ExitUsage /\ ExitOK # ExitServer /\ ExitUsage # ExitServer
  BY DEF ExitOK, ExitUsage, ExitServer
<1>. DEFINE ok == code = ExitOK => \/ AsksHelp(inv) \/ effect[c]
                                   \/ inv.command = "health" /\ got[c] /\ state = "ok"
            server == code = ExitServer => got[c] /\ (effect[c] => status = 500)
            usage == code = ExitUsage => \/ UsageError(inv) /\ pc[c] = "idle"
                                         \/ effect[c]
                                         \/ inv.command = "health" /\ got[c]
<1>11. ASSUME ok, server, usage PROVE Told(c)'
  BY <1>4, <1>5, <1>7, <1>11, Zenon DEF Told
<1>12. CASE inv.command = "health"
  <2>1. ~effect[c]
    <3>1. req[c].route = "healthz"
      BY <1>6, <1>12, RoutesOfRequests
    <3>2. req[c].route \in HealthRoutes
      BY <3>1 DEF HealthRoutes
    <3>. QED
      BY <1>1, <3>2 DEF AnswerInv
  <2>2. ok
    BY <1>5, <1>9, <1>10, <1>12, Zenon
  <2>3. server
    BY <1>5, <2>1, Zenon
  <2>4. usage
    BY <1>5, <1>12, Zenon
  <2>. HIDE DEF ok, server, usage
  <2>. QED
    BY <1>11, <2>2, <2>3, <2>4, Zenon
<1>13. CASE inv.command # "health"
  <2>1. /\ status \in {200, 204} => effect[c]
        /\ status \in {400, 401, 404, 503} => ~effect[c]
    <3>1. req[c].route \notin HealthRoutes
      <4>1. inv.command \in {"put", "search"} \cup DeleteRoutes
        BY <1>6, <1>13, RecallctlAssumption
      <4>2. req[c].route = inv.command
        BY <1>6, <1>13, RoutesOfRequests
      <4>. QED
        BY <4>1, <4>2 DEF HealthRoutes, DeleteRoutes
    <3>. QED
      BY <1>1, <1>7, <3>1 DEF AnswerInv
  <2>2. status < 400 => effect[c]
    BY <1>8, <2>1 DEF Statuses
  <2>3. effect[c] /\ status >= 400 => status = 500
    BY <1>8, <2>1 DEF Statuses
  <2>4. ok
    BY <1>9, <1>10, <1>13, <2>2, Zenon
  <2>5. server
    BY <1>5, <1>9, <1>10, <1>13, <2>3, Zenon
  <2>6. usage
    BY <1>9, <1>10, <1>13, <2>2, Zenon
  <2>. HIDE DEF ok, server, usage
  <2>. QED
    BY <1>11, <2>4, <2>5, <2>6, Zenon
<1>. QED
  BY <1>12, <1>13

LEMMA NextCtl ==
  HandlerTypes /\ AnswerInv /\ CtlTypes /\ CtlInv /\ [CtlNext]_ctlVars => CtlInv'
<1>. SUFFICES ASSUME HandlerTypes, AnswerInv, CtlTypes, CtlInv, [CtlNext]_ctlVars
              PROVE  CtlInv'
  OBVIOUS
<1>. DEFINE fine(x) == /\ ctl[x].at = "idle" => pc[x] = "idle"
                       /\ ctl[x].at # "idle" => ctl[x].inv \in Invocations
                       /\ ctl[x].at = "sent" => ~UsageError(ctl[x].inv)
                       /\ pc[x] # "idle" => Asked(req[x], ctl[x].inv) /\ ~UsageError(ctl[x].inv)
                       /\ ctl[x].at = "exited" => Told(x)
<1>0. \A x \in Clients : fine(x)
  BY Zenon DEF CtlInv
<1>1. ASSUME NEW x \in Clients, Keeps(x), ctl'[x] = ctl[x] PROVE fine(x)'
  <2>1. Told(x) => Told(x)'
    BY <1>1, ToldStays
  <2>2. req'[x] = req[x] /\ (pc'[x] = "idle" <=> pc[x] = "idle")
    BY <1>1, Zenon DEF Keeps
  <2>3. fine(x)
    BY <1>0
  <2>. QED
    BY <1>1, <2>1, <2>2, <2>3, Zenon
<1>2. ASSUME NEW x \in Clients, UNCHANGED vars PROVE Keeps(x)
  BY <1>2 DEF vars, handler, Keeps
<1>3. ASSUME UNCHANGED ctlVars, NEW x \in Clients PROVE fine(x)'
  BY <1>1, <1>2, <1>3 DEF ctlVars
<1>4. ASSUME ServerGoesOn, UNCHANGED ctl, NEW x \in Clients PROVE fine(x)'
  BY <1>1, <1>4, ServerKeeps
<1>5. ASSUME NEW c \in Clients, Invoke(c), NEW x \in Clients PROVE fine(x)'
  <2>1. PICK inv \in Invocations :
          ctl' = [ctl EXCEPT ![c] =
            IF AsksHelp(inv) THEN [at |-> "exited", inv |-> inv, code |-> ExitOK]
            ELSE IF UsageError(inv) THEN [at |-> "exited", inv |-> inv, code |-> ExitUsage]
            ELSE [at |-> "sent", inv |-> inv, code |-> ExitOK]]
    BY <1>5 DEF Invoke
  <2>2. UNCHANGED vars /\ ctl[c].at = "idle"
    BY <1>5 DEF Invoke
  <2>3. PICK next : next = IF AsksHelp(inv) THEN [at |-> "exited", inv |-> inv, code |-> ExitOK]
                           ELSE IF UsageError(inv) THEN [at |-> "exited", inv |-> inv, code |-> ExitUsage]
                           ELSE [at |-> "sent", inv |-> inv, code |-> ExitOK]
    OBVIOUS
  <2>4. ctl' = [ctl EXCEPT ![c] = next]
    BY <2>1, <2>3, Zenon
  <2>5. /\ next.inv = inv
        /\ \/ next.at = "exited" /\ next.code = ExitOK /\ AsksHelp(inv)
           \/ next.at = "exited" /\ next.code = ExitUsage /\ UsageError(inv)
           \/ next.at = "sent" /\ ~UsageError(inv)
    <3>1. CASE AsksHelp(inv)
      <4>1. next = [at |-> "exited", inv |-> inv, code |-> ExitOK]
        BY <2>3, <3>1, Zenon
      <4>2. next.at = "exited" /\ next.inv = inv /\ next.code = ExitOK
        BY <4>1
      <4>. QED
        BY <3>1, <4>2, Zenon
    <3>2. CASE ~AsksHelp(inv) /\ UsageError(inv)
      <4>1. next = [at |-> "exited", inv |-> inv, code |-> ExitUsage]
        BY <2>3, <3>2, Zenon
      <4>2. next.at = "exited" /\ next.inv = inv /\ next.code = ExitUsage
        BY <4>1
      <4>. QED
        BY <3>2, <4>2, Zenon
    <3>3. CASE ~AsksHelp(inv) /\ ~UsageError(inv)
      <4>1. next = [at |-> "sent", inv |-> inv, code |-> ExitOK]
        BY <2>3, <3>3, Zenon
      <4>2. next.at = "sent" /\ next.inv = inv
        BY <4>1
      <4>. QED
        BY <3>3, <4>2, Zenon
    <3>. QED
      BY <3>1, <3>2, <3>3, Zenon
  <2>6. CASE x # c
    <3>1. ctl'[x] = ctl[x]
      BY <2>4, <2>6 DEF CtlTypes
    <3>. QED
      BY <1>1, <1>2, <2>2, <3>1
  <2>7. CASE x = c
    <3>1. ctl'[x] = next
      BY <2>4, <2>7 DEF CtlTypes
    <3>2. pc'[x] = "idle"
      <4>1. pc' = pc
        BY <2>2 DEF vars, handler
      <4>2. fine(c)
        BY <1>0
      <4>. QED
        BY <2>2, <2>7, <4>1, <4>2, Zenon
    <3>3. next.at = "exited" => Told(x)'
      <4>1. ExitOK # ExitServer /\ ExitUsage # ExitServer /\ ExitOK # ExitUsage
        BY DEF ExitOK, ExitServer, ExitUsage
      <4>. QED
        BY <2>5, <3>1, <3>2, <4>1, Zenon DEF Told
    <3>4. next.at # "idle"
      BY <2>5
    <3>. QED
      BY <2>5, <3>1, <3>2, <3>3, <3>4, Zenon
  <2>. QED
    BY <2>6, <2>7
<1>6. ASSUME NEW c \in Clients, Arrive(c), NEW x \in Clients PROVE fine(x)'
  <2>1. ctl' = ctl /\ ctl[c].at = "sent" /\ Accept(c) /\ Asked(req'[c], ctl[c].inv)
    BY <1>6, Zenon DEF Arrive, Asked
  <2>2. CASE x # c
    <3>1. Keeps(x)
      BY <2>1, <2>2, HandlerKeeps, RecallctlAssumption
    <3>. QED
      BY <1>1, <2>1, <3>1
  <2>3. CASE x = c
    <3>1. fine(c)
      BY <1>0
    <3>2. "sent" # "idle" /\ "sent" # "exited"
      OBVIOUS
    <3>. QED
      BY <2>1, <2>3, <3>1, <3>2, Zenon
  <2>. QED
    BY <2>2, <2>3
<1>7. ASSUME NEW c \in Clients, NotReached(c) \/ Finish(c), NEW x \in Clients PROVE fine(x)'
  <2>1. PICK code : ctl[c].at = "sent" /\ ExitWith(c, code) /\ UNCHANGED vars
    BY <1>7 DEF NotReached, Finish
  <2>2. CASE x # c
    <3>1. ctl'[x] = ctl[x]
      BY <2>1, <2>2 DEF ExitWith, CtlTypes
    <3>. QED
      BY <1>1, <1>2, <2>1, <3>1
  <2>3. CASE x = c
    <3>1. ctl'[c].at = "exited" /\ ctl'[c].inv = ctl[c].inv
      BY <2>1 DEF ExitWith, CtlTypes
    <3>2. Told(c)'
      <4>1. CASE Finish(c)
        BY <4>1, FinishTells
      <4>2. CASE NotReached(c)
        <5>1. ctl'[c].code = ExitConnect
          BY <4>2 DEF NotReached, ExitWith, CtlTypes
        <5>2. ExitConnect # ExitOK /\ ExitConnect # ExitUsage /\ ExitConnect # ExitServer
          BY DEF ExitConnect, ExitOK, ExitUsage, ExitServer
        <5>. QED
          BY <5>1, <5>2, Zenon DEF Told
      <4>. QED
        BY <1>7, <4>1, <4>2
    <3>3. pc' = pc /\ req' = req
      BY <2>1 DEF vars, handler
    <3>4. fine(c)
      BY <1>0
    <3>5. "sent" # "idle" /\ "exited" # "idle" /\ "exited" # "sent"
      OBVIOUS
    <3>. QED
      BY <2>1, <2>3, <3>1, <3>2, <3>3, <3>4, <3>5, Zenon
  <2>. QED
    BY <2>2, <2>3
<1>8. \A x \in Clients : fine(x)'
  <2>. HIDE DEF fine
  <2>. QED
    BY <1>3, <1>4, <1>5, <1>6, <1>7 DEF CtlNext
<1>. QED
  BY <1>8, Zenon DEF CtlInv

LEMMA CtlSpecInv == CtlSpec => [](HandlerTypes /\ AnswerInv /\ CtlTypes /\ CtlInv)
<1>1. CtlSpec => [](MainTypes /\ HandlerTypes)
  BY CtlImplementsServer, SpecType, PTL
<1>2. CtlSpec => []AnswerInv
  BY CtlImplementsServer, SpecAnswer, PTL
<1>3. CtlSpec => [](CtlTypes /\ CtlInv)
  BY <1>1, <1>2, InitCtl, NextCtlTypes, NextCtl, PTL DEF CtlSpec
<1>. QED
  BY <1>1, <1>2, <1>3, PTL

\* What a script concludes from an exit code is so, whatever the server has gone
\* through and whatever recallctl was started with.
THEOREM ExitAlwaysTells == CtlSpec => []ExitTells
<1>1. ASSUME CtlInv PROVE ExitTells
  <2>1. ASSUME NEW c \in Clients, ctl[c].at = "exited" PROVE Told(c)
    BY <1>1, <2>1, Zenon DEF CtlInv
  <2>. QED
    BY <2>1, Zenon DEF Told, ExitTells
<1>. QED
  BY <1>1, CtlSpecInv, PTL

-----------------------------------------------------------------------------
(* What a client is refused with.                                          *)

\* The store calls no write a query that is not valid.
LEMMA WritesAreNoQueries ==
  ASSUME NEW r, r.route \in {"put"} \cup DeleteRoutes
  PROVE  "invalid_query" \notin CallOutcomes(r)
<1>1. StoreRefusal(r) \in {"", "duplicate"}
  <2>1. r.route # "search"
    BY DEF DeleteRoutes
  <2>. QED
    BY <2>1, Zenon DEF StoreRefusal
<1>2. PICK refusal : refusal = StoreRefusal(r)
  OBVIOUS
<1>. QED
  BY <1>1, <1>2 DEF CallOutcomes

\* Of the outcomes of a call only that one is a 400.
LEMMA MappedBadRequest ==
  ASSUME NEW r, NEW outcome, outcome # "invalid_query"
  PROVE  Mapped(r, outcome).status # 400
<1>1. CASE outcome = "ok"
  <2>1. PICK status : status = Success(r)
    OBVIOUS
  <2>2. Mapped(r, outcome) = Out(status, "")
    BY <1>1, <2>1, Zenon DEF Mapped
  <2>3. Out(status, "").status = status /\ status # 400
    BY <2>1 DEF Out, Success
  <2>. QED
    BY <2>2, <2>3, Zenon
<1>2. CASE outcome # "ok"
  BY <1>2 DEF Mapped, Out
<1>. QED
  BY <1>1, <1>2

\* When the answer of a client is decided on.
LEMMA AnswerChanges ==
  ASSUME HandlerTypes, [CtlNext]_ctlVars, NEW c \in Clients
  PROVE  resp'[c] = resp[c] \/ Arrive(c) \/ CallStore(c) \/ ReportHealth(c)
<1>. USE DEF HandlerTypes
<1>1. ASSUME NEW d \in Conns, Accept(d), d # c PROVE resp'[c] = resp[c]
  <2>1. PICK r \in Requests :
          IF Unauthorized(auth, r) THEN Decide(d, Out(401, "unauthorized"))
          ELSE IF r.route = "unrouted" THEN Decide(d, Out(404, ""))
          ELSE IF Refusal(r) # "" THEN Decide(d, Out(400, Refusal(r)))
          ELSE /\ pc' = [pc EXCEPT ![d] = IF r.route \in HealthRoutes THEN "probe" ELSE "call"]
               /\ UNCHANGED resp
    BY <1>1 DEF Accept
  <2>2. (\E answer : Decide(d, answer)) \/ UNCHANGED resp
    BY <2>1, Zenon
  <2>. QED
    BY <1>1, <2>2, RecallctlAssumption DEF Decide
<1>2. ASSUME NEW d \in Conns, CallStore(d) \/ ReportHealth(d), d # c PROVE resp'[c] = resp[c]
  <2>1. \E answer : Decide(d, answer)
    BY <1>2, Zenon DEF CallStore, ReportHealth
  <2>. QED
    BY <1>2, <2>1, RecallctlAssumption DEF Decide
<1>3. ASSUME NEW d \in Conns, Probe(d) \/ Respond(d) PROVE resp' = resp
  BY <1>3 DEF Probe, Respond
<1>4. CASE ServerGoesOn
  <2>1. \/ UNCHANGED resp
        \/ \E d \in Conns : CallStore(d) \/ Probe(d) \/ ReportHealth(d) \/ Respond(d)
        \/ \E d \in Conns \ Clients : Accept(d)
    BY <1>4 DEF ServerGoesOn, LoadConfig, OpenStore, BuildStore, MigrateStore, WireHandlers,
                ListenFails, Signal, Stopping, StartShutdown, ShutdownDone, ShutdownTimeout,
                CloseStore, Exit, EndProcess, handler
  <2>. QED
    BY <2>1, <1>1, <1>2, <1>3
<1>5. ASSUME NEW d \in Clients, Invoke(d) \/ Arrive(d) \/ NotReached(d) \/ Finish(d)
      PROVE  resp'[c] = resp[c] \/ Arrive(c)
  <2>1. CASE Arrive(d)
    BY <2>1, <1>1, RecallctlAssumption DEF Arrive
  <2>2. CASE Invoke(d) \/ NotReached(d) \/ Finish(d)
    BY <2>2 DEF Invoke, NotReached, Finish, vars, handler
  <2>. QED
    BY <1>5, <2>1, <2>2
<1>6. CASE UNCHANGED ctlVars
  BY <1>6 DEF ctlVars, vars, handler
<1>. QED
  BY <1>4, <1>5, <1>6 DEF CtlNext

\* A client's request stays, but where it arrives; an invocation that has been
\* answered is over.
LEMMA RequestStays ==
  ASSUME HandlerTypes, AnswerInv, CtlTypes, CtlInv, [CtlNext]_ctlVars,
         NEW c \in Clients, pc[c] # "idle"
  PROVE  req'[c] = req[c] /\ ctl'[c].inv = ctl[c].inv
<1>1. ctl[c].at # "idle"
  BY DEF CtlInv
<1>2. CASE UNCHANGED ctlVars
  BY <1>2 DEF ctlVars, vars, handler
<1>3. CASE ServerGoesOn /\ UNCHANGED ctl
  BY <1>3, ServerKeeps DEF Keeps
<1>4. ASSUME NEW d \in Clients, Invoke(d)
      PROVE  req'[c] = req[c] /\ ctl'[c].inv = ctl[c].inv
  <2>1. req' = req
    BY <1>4 DEF Invoke, vars, handler
  <2>2. d # c
    BY <1>1, <1>4 DEF Invoke
  <2>3. PICK next : ctl' = [ctl EXCEPT ![d] = next]
    BY <1>4, Zenon DEF Invoke
  <2>. QED
    BY <2>1, <2>2, <2>3 DEF CtlTypes
<1>5. ASSUME NEW d \in Clients, Arrive(d)
      PROVE  req'[c] = req[c] /\ ctl'[c].inv = ctl[c].inv
  <2>1. Accept(d) /\ ctl' = ctl
    BY <1>5 DEF Arrive
  <2>2. d # c
    BY <2>1 DEF Accept
  <2>3. Keeps(c)
    BY <2>1, <2>2, HandlerKeeps, RecallctlAssumption
  <2>. QED
    BY <2>1, <2>3 DEF Keeps
<1>6. ASSUME NEW d \in Clients, NotReached(d) \/ Finish(d)
      PROVE  req'[c] = req[c] /\ ctl'[c].inv = ctl[c].inv
  BY <1>6 DEF NotReached, Finish, ExitWith, CtlTypes, vars, handler
<1>. QED
  BY <1>2, <1>3, <1>4, <1>5, <1>6 DEF CtlNext

\* What AsksValidly says of one client.
AskedWell(c) ==
  resp[c].status = 400 => LeftToServer(resp[c].code, req[c], ctl[c].inv)

LEMMA AsksIsEach == AsksValidly <=> \A c \in Clients : AskedWell(c)
BY Zenon DEF AsksValidly, AskedWell, LeftToServer

LEMMA InitAsk == CtlInit => AsksValidly
<1>. SUFFICES ASSUME CtlInit PROVE AsksValidly
  OBVIOUS
<1>1. \A c \in Clients : resp[c].status = 0
  BY RecallctlAssumption DEF CtlInit, Init, Out
<1>. QED
  BY <1>1 DEF AsksValidly

LEMMA NextAsk ==
  /\ HandlerTypes /\ AnswerInv /\ JudgeInv /\ CtlTypes /\ CtlInv /\ AsksValidly
  /\ [CtlNext]_ctlVars
  => AsksValidly'
<1>. SUFFICES ASSUME HandlerTypes, AnswerInv, JudgeInv, CtlTypes, CtlInv, AsksValidly,
                     [CtlNext]_ctlVars, NEW c \in Clients
              PROVE  AskedWell(c)'
  BY AsksIsEach, Zenon DEF AsksValidly, AskedWell, LeftToServer
<1>0. c \in Conns
  BY RecallctlAssumption
<1>1. CASE resp'[c] = resp[c]
  <2>1. CASE resp[c].status # 400
    BY <1>1, <2>1, Zenon DEF AskedWell
  <2>2. CASE resp[c].status = 400
    <3>1. pc[c] # "idle"
      BY <1>0, <2>2 DEF AnswerInv
    <3>2. req'[c] = req[c] /\ ctl'[c].inv = ctl[c].inv
      BY <3>1, RequestStays
    <3>3. LeftToServer(resp[c].code, req[c], ctl[c].inv)
      BY <2>2, AsksIsEach, Zenon DEF AskedWell
    <3>4. LeftToServer(resp[c].code, req[c], ctl[c].inv)' <=>
            LeftToServer(resp[c].code, req[c], ctl[c].inv)
      BY <1>1, <3>2, Zenon DEF LeftToServer
    <3>. QED
      BY <3>3, <3>4, Zenon DEF AskedWell
  <2>. QED
    BY <2>1, <2>2
<1>2. CASE Arrive(c)
  <2>1. PICK r \in Requests :
          /\ req' = [req EXCEPT ![c] = r]
          /\ IF Unauthorized(auth, r) THEN Decide(c, Out(401, "unauthorized"))
             ELSE IF r.route = "unrouted" THEN Decide(c, Out(404, ""))
             ELSE IF Refusal(r) # "" THEN Decide(c, Out(400, Refusal(r)))
             ELSE /\ pc' = [pc EXCEPT ![c] = IF r.route \in HealthRoutes THEN "probe" ELSE "call"]
                  /\ UNCHANGED resp
    BY <1>2 DEF Arrive, Accept
  <2>2. PICK inv : inv = ctl[c].inv
    OBVIOUS
  <2>3. req'[c] = r /\ ctl'[c].inv = inv
    <3>1. req' = [req EXCEPT ![c] = r]
      BY <2>1
    <3>2. ctl' = ctl
      BY <1>2 DEF Arrive
    <3>. QED
      BY <1>0, <2>2, <3>1, <3>2 DEF HandlerTypes
  <2>4. PICK code : code = Refusal(r)
    OBVIOUS
  <2>5. code = "" \/ LeftToServer(code, r, inv)
    <3>1. PICK whole \in BOOLEAN : r = RequestOf(inv, whole)
      <4>1. \E whole \in BOOLEAN : req'[c] = RequestOf(ctl[c].inv, whole)
        BY <1>2 DEF Arrive
      <4>. QED
        BY <2>2, <2>3, <4>1, Zenon
    <3>2. inv \in Invocations /\ ~UsageError(inv)
      BY <1>2, <2>2 DEF Arrive, CtlInv
    <3>. QED
      BY <2>4, <3>1, <3>2, RequestsPass, Zenon
  <2>6. \/ Decide(c, Out(401, "unauthorized")) \/ Decide(c, Out(404, ""))
        \/ code # "" /\ Decide(c, Out(400, code))
        \/ UNCHANGED resp
    BY <2>1, <2>4, Zenon
  <2>7. \A answer : Decide(c, answer) => resp'[c] = answer
    BY <1>0 DEF Decide, HandlerTypes
  <2>8. /\ Out(401, "unauthorized").status # 400 /\ Out(404, "").status # 400
        /\ Out(400, code).code = code
    BY DEF Out
  <2>9. resp[c].status # 400
    <3>1. pc[c] = "idle"
      BY <1>2 DEF Arrive, Accept
    <3>. QED
      BY <1>0, <3>1 DEF AnswerInv
  <2>10. resp'[c].status # 400 \/ (code # "" /\ resp'[c].code = code)
    <3>1. CASE Decide(c, Out(401, "unauthorized")) \/ Decide(c, Out(404, ""))
      BY <2>7, <2>8, <3>1, Zenon
    <3>2. CASE code # "" /\ Decide(c, Out(400, code))
      BY <2>7, <2>8, <3>2, Zenon
    <3>3. CASE UNCHANGED resp
      BY <2>9, <3>3
    <3>. QED
      BY <2>6, <3>1, <3>2, <3>3, Zenon
  <2>11. ASSUME LeftToServer(code, r, inv), resp'[c].code = code
         PROVE  LeftToServer(resp[c].code, req[c], ctl[c].inv)'
    BY <2>3, <2>11, Zenon DEF LeftToServer
  <2>. QED
    BY <2>5, <2>10, <2>11, Zenon DEF AskedWell
<1>3. CASE CallStore(c)
  <2>1. PICK outcome \in CallOutcomes(req[c]) : Decide(c, Mapped(req[c], outcome))
    BY <1>3 DEF CallStore
  <2>2. resp'[c] = Mapped(req[c], outcome)
    BY <1>0, <2>1 DEF Decide, HandlerTypes
  <2>3. "invalid_query" \notin CallOutcomes(req[c])
    <3>1. pc[c] = "call"
      BY <1>3 DEF CallStore
    <3>2. req[c].route \notin HealthRoutes
      BY <1>0, <3>1 DEF AnswerInv
    <3>3. PICK inv \in Invocations, whole \in BOOLEAN : req[c] = RequestOf(inv, whole)
      BY <3>1 DEF CtlInv, Asked
    <3>4. inv.command # "health" /\ req[c].route = inv.command
      BY <3>2, <3>3, RoutesOfRequests DEF HealthRoutes
    <3>5. inv.command \in {"put", "search"} \cup DeleteRoutes
      BY <3>4, RecallctlAssumption
    <3>6. CASE req[c].route = "search"
      <4>1. Refusal(req[c]) = ""
        BY <1>0, <3>1, <3>6, Zenon DEF JudgeInv
      <4>. QED
        BY <3>6, <4>1, SearchPasses, Zenon
    <3>7. CASE req[c].route \in {"put"} \cup DeleteRoutes
      BY <3>7, WritesAreNoQueries
    <3>. QED
      BY <3>4, <3>5, <3>6, <3>7
  <2>4. Mapped(req[c], outcome).status # 400
    <3>1. outcome # "invalid_query"
      BY <2>1, <2>3, Zenon
    <3>. QED
      BY <3>1, MappedBadRequest
  <2>. QED
    BY <2>2, <2>4, Zenon DEF AskedWell
<1>4. CASE ReportHealth(c)
  <2>1. resp'[c] = HealthAnswer(health[c])
    BY <1>0, <1>4 DEF ReportHealth, Decide, HandlerTypes
  <2>2. HealthAnswer(health[c]).status # 400
    BY DEF HealthAnswer, Out
  <2>. QED
    BY <2>1, <2>2, Zenon DEF AskedWell
<1>. QED
  BY <1>1, <1>2, <1>3, <1>4, AnswerChanges

\* The server refuses of the requests of recallctl only what recallctl leaves to
\* it, but for bodies that it cannot decode: cut ones, and weights beyond float32.
THEOREM AsksAlwaysValidly == CtlSpec => []AsksValidly
<1>1. CtlSpec => []JudgeInv
  BY CtlImplementsServer, SpecJudge, PTL
<1>. QED
  BY <1>1, CtlSpecInv, InitAsk, NextAsk, PTL DEF CtlSpec
=============================================================================
