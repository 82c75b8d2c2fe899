----------------------------- MODULE ServerProofs -----------------------------
(***************************************************************************)
(* Proofs about Server for any number of connections and any requests.     *)
(***************************************************************************)
EXTENDS Server, NaturalsInduction, WellFoundedInduction, TLAPS

\* What the phase of the main goroutine says about the store and the result.
PhaseInv ==
  /\ phase \in Phases
  /\ phase \in {"config", "open"} => handle = "none"
  /\ phase \in {"build", "migrate", "wire", "serving", "draining", "closing"} => handle = "open"
  /\ phase \in {"wire", "serving", "draining", "closing", "closed"} => migrated
  /\ phase = "closed" => handle = "closed"
  /\ result \in {"none", "ok", "failed", "killed"}
  /\ phase \in Starting \cup {"serving", "draining"} => result = "none"

\* Handlers exist only once the server has served, are cut off only when it is
\* gone, and none is left when it is about to report success.
HandlerInv ==
  /\ pc \in [Conns -> {"idle", "call", "probe", "respond", "done", "cut"}]
  /\ phase \in Starting => \A c \in Conns : pc[c] = "idle"
  /\ \A c \in Conns : pc[c] = "cut" => phase = "exited"

LifeInv == PhaseInv /\ HandlerInv /\ NoHandleLeft /\ ServesOnlyMigrated /\ CleanExitCutsNobody

\* A handler that has not called the store has no effect and no response, those of
\* health never have an effect, only who has responded is done, and the response
\* of one that has called the store tells the effect.
AnswerInv ==
  /\ effect \in [Conns -> BOOLEAN]
  /\ DOMAIN resp = Conns
  /\ DOMAIN pc = Conns
  /\ DOMAIN req = Conns
  /\ DOMAIN got = Conns
  /\ \A c \in Conns : pc[c] \in {"idle", "call", "probe"} => ~effect[c] /\ resp[c].status = 0
  /\ \A c \in Conns : pc[c] \in {"respond", "done"} => resp[c].status # 0
  /\ \A c \in Conns : pc[c] = "probe" => req[c].route \in HealthRoutes
  /\ \A c \in Conns : req[c].route \in HealthRoutes => pc[c] # "call" /\ ~effect[c]
  /\ \A c \in Conns : got[c] => pc[c] = "done"
  /\ \A c \in Conns : req[c].route \notin HealthRoutes =>
       /\ resp[c].status \in {200, 204} => effect[c]
       /\ resp[c].status \in {400, 401, 404, 503} => ~effect[c]

-----------------------------------------------------------------------------

LEMMA InitLife == Init => LifeInv
<1>. SUFFICES ASSUME Init PROVE LifeInv
  OBVIOUS
<1>1. phase \in Starting /\ handle = "none" /\ result = "none" /\ \A c \in Conns : pc[c] = "idle"
  BY DEF Init, Starting
<1>2. PhaseInv
  BY DEF Init, PhaseInv, Phases, Starting
<1>3. HandlerInv
  BY DEF Init, HandlerInv
<1>4. NoHandleLeft /\ ServesOnlyMigrated /\ CleanExitCutsNobody
  BY <1>1 DEF Starting, NoHandleLeft, ServesOnlyMigrated, CleanExitCutsNobody
<1>. QED
  BY <1>2, <1>3, <1>4 DEF LifeInv

\* The end of the process keeps what is said about handlers.
LEMMA EndKeeps ==
  ASSUME LifeInv, EndProcess
  PROVE  /\ pc' \in [Conns -> {"idle", "call", "probe", "respond", "done", "cut"}]
         /\ \A c \in Conns : pc'[c] # "idle" => pc[c] # "idle"
         /\ (\A c \in Conns : pc[c] \in {"idle", "done"}) =>
              \A c \in Conns : pc'[c] \in {"idle", "done"}
  BY DEF LifeInv, HandlerInv, EndProcess, InFlight

\* What Accept answers by itself, under names: the provers count up to a status.
NoToken == Out(401, "unauthorized")
NoRoute == Out(404, "")
Refused(code) == Out(400, code)

\* What Accept does with a request.
LEMMA AcceptCases ==
  ASSUME NEW c, Accept(c)
  PROVE  \E r \in Requests :
           /\ req' = [req EXCEPT ![c] = r]
           /\ IF Unauthorized(auth, r) THEN Decide(c, NoToken)
              ELSE IF r.route = "unrouted" THEN Decide(c, NoRoute)
              ELSE IF Refusal(r) # "" THEN Decide(c, Refused(Refusal(r)))
              ELSE /\ pc' = [pc EXCEPT ![c] = IF r.route \in HealthRoutes THEN "probe" ELSE "call"]
                   /\ UNCHANGED resp
<1>1. PICK r \in Requests :
        /\ req' = [req EXCEPT ![c] = r]
        /\ IF Unauthorized(auth, r) THEN Decide(c, Out(401, "unauthorized"))
           ELSE IF r.route = "unrouted" THEN Decide(c, Out(404, ""))
           ELSE IF Refusal(r) # "" THEN Decide(c, Out(400, Refusal(r)))
           ELSE /\ pc' = [pc EXCEPT ![c] = IF r.route \in HealthRoutes THEN "probe" ELSE "call"]
                /\ UNCHANGED resp
  BY DEF Accept
<1>2. /\ IF Unauthorized(auth, r) THEN Decide(c, NoToken)
         ELSE IF r.route = "unrouted" THEN Decide(c, NoRoute)
         ELSE IF Refusal(r) # "" THEN Decide(c, Refused(Refusal(r)))
         ELSE /\ pc' = [pc EXCEPT ![c] = IF r.route \in HealthRoutes THEN "probe" ELSE "call"]
              /\ UNCHANGED resp
  BY <1>1 DEF NoToken, NoRoute, Refused
<1>. QED
  BY <1>1, <1>2

\* Accept answers a request or passes it on.
LEMMA AcceptGoesOn ==
  ASSUME NEW c \in Conns, Accept(c)
  PROVE  \E s \in {"respond", "probe", "call"} : pc' = [pc EXCEPT ![c] = s]
<1>1. PICK r \in Requests :
        IF Unauthorized(auth, r) THEN Decide(c, NoToken)
        ELSE IF r.route = "unrouted" THEN Decide(c, NoRoute)
        ELSE IF Refusal(r) # "" THEN Decide(c, Refused(Refusal(r)))
        ELSE pc' = [pc EXCEPT ![c] = IF r.route \in HealthRoutes THEN "probe" ELSE "call"]
  BY AcceptCases
<1>2. \/ pc' = [pc EXCEPT ![c] = "respond"]
      \/ pc' = [pc EXCEPT ![c] = IF r.route \in HealthRoutes THEN "probe" ELSE "call"]
  BY <1>1, Zenon DEF Decide
<1>. QED
  BY <1>2

LEMMA NextLife == LifeInv /\ [Next]_vars => LifeInv'
<1>. SUFFICES ASSUME LifeInv, [Next]_vars PROVE LifeInv'
  OBVIOUS
<1>. USE DEF LifeInv, PhaseInv, HandlerInv, NoHandleLeft, ServesOnlyMigrated,
             CleanExitCutsNobody, Phases, Starting, main, handler
<1>1. CASE UNCHANGED vars
  BY <1>1 DEF vars
<1>2. CASE LoadConfig
  BY <1>2 DEF LoadConfig, Enter, ReturnEarly
<1>3. CASE OpenStore
  BY <1>3 DEF OpenStore, Enter, ReturnEarly
<1>4. CASE BuildStore
  BY <1>4 DEF BuildStore, BuildFails, Enter, ReturnEarly
<1>5. CASE MigrateStore
  BY <1>5 DEF MigrateStore, Enter, ReturnEarly
<1>6. CASE WireHandlers
  BY <1>6 DEF WireHandlers, Enter, ServeReturns
<1>7. CASE ListenFails
  BY <1>7 DEF ListenFails, Enter, ServeReturns
<1>8. CASE Signal
  <2>1. CASE phase \in {"serving", "draining"} /\ UNCHANGED <<phase, handle, migrated, result, handler>>
    BY <2>1
  <2>2. CASE /\ phase \notin {"serving", "draining", "exited"}
             /\ result' = "killed" /\ EndProcess /\ UNCHANGED <<handle, migrated>>
    <3>1. phase' = "exited"
      BY <2>2 DEF EndProcess, Enter
    <3>. QED
      BY <2>2, <3>1, EndKeeps
  <2>. QED
    BY <1>8, <2>1, <2>2 DEF Signal
<1>9. CASE StartShutdown
  BY <1>9 DEF StartShutdown, Enter
<1>10. CASE ShutdownDone
  BY <1>10 DEF ShutdownDone, HandlersAreIdle, InFlight, ServeReturns, Enter
<1>11. CASE ShutdownTimeout
  BY <1>11 DEF ShutdownTimeout, ServeReturns, Enter
<1>12. CASE CloseStore
  BY <1>12 DEF CloseStore, Enter
<1>13. CASE Exit
  <2>1. phase = "closed" /\ phase' = "exited" /\ UNCHANGED <<handle, migrated, result>>
    BY <1>13 DEF Exit, EndProcess, Enter
  <2>. QED
    BY <1>13, <2>1, EndKeeps DEF Exit
<1>14. ASSUME NEW c \in Conns, Handle(c) PROVE LifeInv'
  <2>1. /\ UNCHANGED main
        /\ phase \notin Starting
        /\ pc' \in [Conns -> {"idle", "call", "probe", "respond", "done", "cut"}]
        /\ \A d \in Conns \ {c} : pc'[d] = pc[d]
        /\ pc'[c] # "cut"
        /\ phase \in {"serving", "draining"} \/ (InFlight(c) /\ phase # "exited")
    <3>1. CASE Accept(c)
      <4>1. PICK s \in {"respond", "probe", "call"} : pc' = [pc EXCEPT ![c] = s]
        BY <3>1, AcceptGoesOn
      <4>2. pc \in [Conns -> {"idle", "call", "probe", "respond", "done", "cut"}]
        BY DEF LifeInv, HandlerInv
      <4>3. UNCHANGED main /\ phase \in {"serving", "draining"} /\ phase \notin Starting
        BY <3>1 DEF Accept, Starting
      <4>. QED
        BY <4>1, <4>2, <4>3
    <3>2. CASE CallStore(c)
      BY <3>2 DEF CallStore, Decide, InFlight
    <3>3. CASE Probe(c)
      BY <3>3 DEF Probe, InFlight
    <3>4. CASE ReportHealth(c)
      BY <3>4 DEF ReportHealth, Decide, InFlight
    <3>5. CASE Respond(c)
      BY <3>5 DEF Respond, InFlight
    <3>. QED
      BY <1>14, <3>1, <3>2, <3>3, <3>4, <3>5 DEF Handle
  <2>2. ServesOnlyMigrated'
    BY <2>1 DEF InFlight
  <2>3. CleanExitCutsNobody'
    BY <2>1 DEF InFlight
  <2>. QED
    BY <2>1, <2>2, <2>3
<1>. QED
  BY <1>1, <1>2, <1>3, <1>4, <1>5, <1>6, <1>7, <1>8, <1>9, <1>10, <1>11, <1>12, <1>13, <1>14
  DEF Next, Stopping

LEMMA SpecLife == Spec => []LifeInv
  BY InitLife, NextLife, PTL DEF Spec

\* However run ends by itself, it leaves no open handle.
THEOREM NoHandleIsLeft == Spec => []NoHandleLeft
  BY SpecLife, PTL DEF LifeInv

\* Handlers run only on a store that has been opened and migrated.
THEOREM AlwaysServesMigrated == Spec => []ServesOnlyMigrated
  BY SpecLife, PTL DEF LifeInv

\* A process that reports success has cut off nobody.
THEOREM CleanExit == Spec => []CleanExitCutsNobody
  BY SpecLife, PTL DEF LifeInv

-----------------------------------------------------------------------------

\* The least member of a non-empty set of naturals is a member of it.
LEMMA MinIsMember ==
  ASSUME NEW S, S \subseteq Nat, S # {}
  PROVE  Min(S) \in S
<1>1. PICK x \in S : \A y \in S : ~(<<y, x>> \in OpToRel(<, Nat))
  BY NatLessThanWellFounded, WFMin, Zenon
<1>2. ASSUME NEW y \in S PROVE x =< y
  <2>1. x \in Nat /\ y \in Nat
    OBVIOUS
  <2>2. ~(y < x)
    <3>1. (y < x) => <<y, x>> \in OpToRel(<, Nat)
      BY <2>1 DEF OpToRel
    <3>. QED
      BY <1>1, <3>1
  <2>. QED
    BY <2>1, <2>2
<1>. QED
  BY <1>2 DEF Min

\* The code of a sequence of checks is that of one that fails, or there is none.
LEMMA FirstFlawIsOne ==
  ASSUME NEW checks, DOMAIN checks \subseteq Nat
  PROVE  \/ /\ \A i \in DOMAIN checks : ~checks[i].bad
            /\ FirstFlaw(checks) = ""
         \/ \E i \in DOMAIN checks : checks[i].bad /\ FirstFlaw(checks) = checks[i].code
<1>. DEFINE failing == {i \in DOMAIN checks : checks[i].bad}
<1>1. CASE failing = {}
  BY <1>1 DEF FirstFlaw
<1>2. CASE failing # {}
  <2>1. Min(failing) \in failing
    BY <1>2, MinIsMember
  <2>2. FirstFlaw(checks) = checks[Min(failing)].code
    BY <1>2 DEF FirstFlaw
  <2>. QED
    BY <2>1, <2>2
<1>. QED
  BY <1>1, <1>2

\* The fields of a check.
LEMMA CheckFields ==
  ASSUME NEW bad, NEW code
  PROVE  Check(bad, code).bad = bad /\ Check(bad, code).code = code
  BY DEF Check

\* What a search is refused with, and what one that is not refused has.
LEMMA SearchRefused ==
  ASSUME NEW r
  PROVE  LET code == FirstFlaw(SearchChecks(r)) IN
         /\ code \in {"", "invalid_json", "org_id_required", "query_required",
                      "limit_out_of_range", "alpha_out_of_range"}
         /\ code = "" => ~LimitIsBad(r.limit) /\ r.text # ""
         /\ (~BadOrg(r.org) /\ r.text # "") =>
              \/ code \in {"", "limit_out_of_range", "alpha_out_of_range"}
              \/ code = "invalid_json" /\ ~r.json
<1>1. PICK p1, p2, p3, p4, p5 :
        /\ p1 = Check(~r.json, "invalid_json")
        /\ p2 = Check(BadOrg(r.org), "org_id_required")
        /\ p3 = Check(r.text = "", "query_required")
        /\ p4 = Check(LimitIsBad(r.limit), "limit_out_of_range")
        /\ p5 = Check(AlphaIsBad(r.alpha), "alpha_out_of_range")
  BY Zenon
<1>2. PICK checks : checks = <<p1, p2, p3, p4, p5>>
  OBVIOUS
<1>3. SearchChecks(r) = checks
  BY <1>1, <1>2, Zenon DEF SearchChecks
<1>4. /\ p1.code = "invalid_json" /\ p2.code = "org_id_required"
      /\ p3.code = "query_required" /\ p4.code = "limit_out_of_range"
      /\ p5.code = "alpha_out_of_range"
  BY <1>1, CheckFields, Zenon
<1>5. /\ p1.bad = (~r.json)
      /\ p2.bad = BadOrg(r.org)
      /\ p3.bad = (r.text = "")
      /\ p4.bad = LimitIsBad(r.limit)
  BY <1>1, CheckFields, Zenon
<1>6. /\ DOMAIN checks = 1..5
      /\ checks[1] = p1 /\ checks[2] = p2 /\ checks[3] = p3 /\ checks[4] = p4 /\ checks[5] = p5
  BY <1>2
<1>7. \A i \in DOMAIN checks : i = 1 \/ i = 2 \/ i = 3 \/ i = 4 \/ i = 5
  BY <1>6
<1>8. \/ /\ \A i \in DOMAIN checks : ~checks[i].bad
         /\ FirstFlaw(checks) = ""
      \/ \E i \in DOMAIN checks : checks[i].bad /\ FirstFlaw(checks) = checks[i].code
  <2>1. DOMAIN checks \subseteq Nat
    BY <1>6
  <2>. QED
    BY <2>1, FirstFlawIsOne, Zenon
<1>9. \/ ~p1.bad /\ ~p2.bad /\ ~p3.bad /\ ~p4.bad /\ FirstFlaw(checks) = ""
      \/ p1.bad /\ FirstFlaw(checks) = p1.code
      \/ p2.bad /\ FirstFlaw(checks) = p2.code
      \/ p3.bad /\ FirstFlaw(checks) = p3.code
      \/ FirstFlaw(checks) \in {p4.code, p5.code}
  <2>1. 1 \in DOMAIN checks /\ 2 \in DOMAIN checks /\ 3 \in DOMAIN checks /\ 4 \in DOMAIN checks
    BY <1>6
  <2>2. CASE (\A i \in DOMAIN checks : ~checks[i].bad) /\ FirstFlaw(checks) = ""
    BY <1>6, <2>1, <2>2, Zenon
  <2>3. ASSUME NEW i \in DOMAIN checks, checks[i].bad, FirstFlaw(checks) = checks[i].code
        PROVE  \/ p1.bad /\ FirstFlaw(checks) = p1.code
               \/ p2.bad /\ FirstFlaw(checks) = p2.code
               \/ p3.bad /\ FirstFlaw(checks) = p3.code
               \/ FirstFlaw(checks) \in {p4.code, p5.code}
    BY <1>6, <1>7, <2>3, Zenon
  <2>. QED
    BY <1>8, <2>2, <2>3, Zenon
<1>. QED
  BY <1>3, <1>4, <1>5, <1>9, Zenon

\* Division by three, as toChunks numbers the checks of its chunks.
LEMMA Thirds ==
  ASSUME NEW n \in Nat, NEW k \in 1..(3 * n)
  PROVE  ((k - 1) \div 3) + 1 \in 1..n /\ ((k - 1) % 3) + 1 \in {1, 2, 3}
  OBVIOUS

\* The checks of a chunk have the codes of chunkInput.validate.
LEMMA ChunkCodes ==
  ASSUME NEW ch, NEW m \in {1, 2, 3}
  PROVE  ChunkChecks(ch)[m].code \in
           {"chunk_id_not_accepted", "external_id_invalid", "content_required"}
<1>1. PICK b1, b2, b3 :
        b1 = (ch.chunkId # Absent) /\ b2 = (ch.ext # Absent /\ ch.ext < 1) /\ b3 = (ch.content = "")
  BY Zenon
<1>2. PICK p1, p2, p3 :
        /\ p1 = Check(b1, "chunk_id_not_accepted")
        /\ p2 = Check(b2, "external_id_invalid")
        /\ p3 = Check(b3, "content_required")
  BY Zenon
<1>3. /\ p1.code = "chunk_id_not_accepted" /\ p2.code = "external_id_invalid"
      /\ p3.code = "content_required"
  <2>1. p1.code = "chunk_id_not_accepted"
    BY <1>2 DEF Check
  <2>2. p2.code = "external_id_invalid"
    BY <1>2 DEF Check
  <2>3. p3.code = "content_required"
    BY <1>2 DEF Check
  <2>. QED
    BY <2>1, <2>2, <2>3
<1>4. PICK q : q = <<p1, p2, p3>>
  OBVIOUS
<1>5. ChunkChecks(ch) = q
  BY <1>1, <1>2, <1>4, Zenon DEF ChunkChecks
<1>6. q[m] \in {p1, p2, p3}
  BY <1>4
<1>. QED
  BY <1>3, <1>5, <1>6, Zenon

\* A batch is checked as a whole and chunk by chunk, and for nothing else.
LEMMA PutChecksAre ==
  ASSUME NEW r, NEW n \in Nat, DOMAIN r.chunks = 1..n, Len(r.chunks) = n
  PROVE  LET checks == PutChecks(r) IN
         /\ DOMAIN checks \subseteq Nat
         /\ \A i \in DOMAIN checks :
              \/ checks[i] = Check(~r.json, "invalid_json")
              \/ checks[i] = Check(BadOrg(r.org), "org_id_required")
              \/ checks[i] = Check(r.chunks = <<>>, "chunks_required")
              \/ \E j \in 1..n, m \in {1, 2, 3} : checks[i] = ChunkChecks(r.chunks[j])[m]
<1>1. PICK p1, p2, p3 :
        /\ p1 = Check(~r.json, "invalid_json")
        /\ p2 = Check(BadOrg(r.org), "org_id_required")
        /\ p3 = Check(r.chunks = <<>>, "chunks_required")
  BY Zenon
<1>2. PICK cs : cs = r.chunks
  OBVIOUS
<1>3. PICK q : q = [k \in 1..(3 * n) |-> ChunkChecks(cs[((k - 1) \div 3) + 1])[((k - 1) % 3) + 1]]
  OBVIOUS
<1>4. PICK checks : checks = <<p1, p2, p3>> \o q
  OBVIOUS
<1>5. PutChecks(r) = checks
  BY <1>1, <1>2, <1>3, <1>4, Zenon DEF PutChecks
<1>6. q \in Seq({q[k] : k \in 1..(3 * n)}) /\ Len(q) = 3 * n
  <2>1. PICK m \in Nat : m = 3 * n
    OBVIOUS
  <2>2. DOMAIN q = 1..m /\ q \in [1..m -> {q[k] : k \in 1..m}]
    <3>1. DOMAIN q = 1..m
      BY <1>3, <2>1
    <3>2. q = [k \in 1..m |-> q[k]]
      BY <1>3, <2>1
    <3>. QED
      BY <3>1, <3>2
  <2>3. q \in Seq({q[k] : k \in 1..m}) /\ Len(q) = m
    BY <2>2
  <2>. QED
    BY <2>1, <2>3
<1>7. /\ DOMAIN checks = 1..(3 + 3 * n)
      /\ checks[1] = p1 /\ checks[2] = p2 /\ checks[3] = p3
      /\ \A i \in 4..(3 + 3 * n) : i - 3 \in 1..(3 * n) /\ checks[i] = q[i - 3]
  BY <1>4, <1>6
<1>8. ASSUME NEW i \in DOMAIN checks
      PROVE  \/ checks[i] \in {p1, p2, p3}
             \/ \E j \in 1..n, m \in {1, 2, 3} : checks[i] = ChunkChecks(cs[j])[m]
  <2>1. CASE i \in {1, 2, 3}
    BY <1>7, <2>1
  <2>2. CASE i \notin {1, 2, 3}
    <3>1. PICK k \in 1..(3 * n) : checks[i] = q[k]
      BY <1>7, <2>2
    <3>2. q[k] = ChunkChecks(cs[((k - 1) \div 3) + 1])[((k - 1) % 3) + 1]
      BY <1>3
    <3>. QED
      BY <3>1, <3>2, Thirds
  <2>. QED
    BY <2>1, <2>2
<1>9. DOMAIN checks \subseteq Nat
  BY <1>7
<1>. QED
  BY <1>1, <1>2, <1>5, <1>8, <1>9, Zenon

\* A request is refused with one of the codes of its checks.
LEMMA RefusalIsCode ==
  ASSUME NEW r \in Requests
  PROVE  Refusal(r) \in RefusalCodes
<1>0. "put" \notin DeleteRoutes /\ "search" \notin DeleteRoutes
  BY DEF DeleteRoutes
<1>1. CASE r.route = "put"
  <2>1. Refusal(r) = FirstFlaw(PutChecks(r))
    BY <1>0, <1>1, Zenon DEF Refusal
  <2>2. PICK n \in Nat : n = Len(r.chunks) /\ DOMAIN r.chunks = 1..n
    BY <1>1, ServerAssumption
  <2>3. PICK checks : checks = PutChecks(r)
    OBVIOUS
  <2>4. DOMAIN checks \subseteq Nat
    BY <2>2, <2>3, PutChecksAre
  <2>5. ASSUME NEW j, NEW m \in {1, 2, 3}
        PROVE  ChunkChecks(r.chunks[j])[m].code \in
                 {"chunk_id_not_accepted", "external_id_invalid", "content_required"}
    BY ChunkCodes
  <2>6. ASSUME NEW i \in DOMAIN checks
        PROVE  checks[i].code \in RefusalCodes
    <3>1. \/ checks[i] = Check(~r.json, "invalid_json")
          \/ checks[i] = Check(BadOrg(r.org), "org_id_required")
          \/ checks[i] = Check(r.chunks = <<>>, "chunks_required")
          \/ \E j \in 1..n, m \in {1, 2, 3} : checks[i] = ChunkChecks(r.chunks[j])[m]
      BY <2>2, <2>3, PutChecksAre
    <3>2. PICK b1, b2, b3 : b1 = (~r.json) /\ b2 = BadOrg(r.org) /\ b3 = (r.chunks = <<>>)
      BY Zenon
    <3>3. \/ checks[i] = Check(b1, "invalid_json")
          \/ checks[i] = Check(b2, "org_id_required")
          \/ checks[i] = Check(b3, "chunks_required")
          \/ \E j \in 1..n, m \in {1, 2, 3} : checks[i] = ChunkChecks(r.chunks[j])[m]
      BY <3>1, <3>2, Zenon
    <3>4. checks[i].code \in {"invalid_json", "org_id_required", "chunks_required",
                              "chunk_id_not_accepted", "external_id_invalid", "content_required"}
      <4>1. /\ Check(b1, "invalid_json").code = "invalid_json"
            /\ Check(b2, "org_id_required").code = "org_id_required"
            /\ Check(b3, "chunks_required").code = "chunks_required"
        BY CheckFields, Zenon
      <4>2. CASE \E j \in 1..n, m \in {1, 2, 3} : checks[i] = ChunkChecks(r.chunks[j])[m]
        <5>1. PICK j \in 1..n, m \in {1, 2, 3} : checks[i] = ChunkChecks(r.chunks[j])[m]
          BY <4>2
        <5>2. checks[i].code \in {"chunk_id_not_accepted", "external_id_invalid", "content_required"}
          BY <2>5, <5>1, Zenon
        <5>. QED
          BY <5>2, Zenon
      <4>. QED
        BY <3>3, <4>1, <4>2, Zenon
    <3>. QED
      BY <3>4, Zenon DEF RefusalCodes
  <2>7. \/ FirstFlaw(checks) = ""
        \/ \E i \in DOMAIN checks : FirstFlaw(checks) = checks[i].code
    BY <2>4, FirstFlawIsOne, Zenon
  <2>8. "" \in RefusalCodes
    BY DEF RefusalCodes
  <2>. QED
    BY <2>1, <2>3, <2>6, <2>7, <2>8, Zenon
<1>2. CASE r.route = "search"
  <2>1. Refusal(r) = FirstFlaw(SearchChecks(r))
    BY <1>0, <1>2, Zenon DEF Refusal
  <2>2. FirstFlaw(SearchChecks(r)) \in {"", "invalid_json", "org_id_required", "query_required",
                                        "limit_out_of_range", "alpha_out_of_range"}
    BY SearchRefused, Zenon
  <2>. QED
    BY <2>1, <2>2, Zenon DEF RefusalCodes
<1>3. CASE r.route \in DeleteRoutes
  <2>1. Refusal(r) = FirstFlaw(DeleteChecks(r))
    BY <1>0, <1>3, Zenon DEF Refusal
  <2>2. PICK p1, p2 : p1 = Check(BadOrg(r.org), "org_id_invalid") /\ p2 = Check(~r.id, "invalid_path_id")
    BY Zenon
  <2>3. PICK checks : checks = <<p1, p2>>
    OBVIOUS
  <2>4. DeleteChecks(r) = checks
    BY <2>2, <2>3, Zenon DEF DeleteChecks
  <2>5. p1.code = "org_id_invalid" /\ p2.code = "invalid_path_id"
    BY <2>2, CheckFields, Zenon
  <2>6. DOMAIN checks \subseteq Nat /\ \A i \in DOMAIN checks : checks[i] \in {p1, p2}
    BY <2>3
  <2>7. \/ FirstFlaw(checks) = ""
        \/ \E i \in DOMAIN checks : FirstFlaw(checks) = checks[i].code
    BY <2>6, FirstFlawIsOne, Zenon
  <2>8. FirstFlaw(checks) \in {"", "org_id_invalid", "invalid_path_id"}
    BY <2>5, <2>6, <2>7, Zenon
  <2>. QED
    BY <2>1, <2>4, <2>8, Zenon DEF RefusalCodes
<1>4. CASE r.route \notin {"put", "search"} /\ r.route \notin DeleteRoutes
  BY <1>4, Zenon DEF Refusal, RefusalCodes
<1>. QED
  BY <1>1, <1>2, <1>3, <1>4, Zenon

-----------------------------------------------------------------------------

\* What a request is answered that Accept does not pass on.
AtOnce(r) ==
  IF Unauthorized(auth, r) THEN NoToken
  ELSE IF r.route = "unrouted" THEN NoRoute
  ELSE Refused(Refusal(r))

\* What is refused before the call is refused with a status that says so.
LEMMA RefusalStatus ==
  ASSUME NEW r
  PROVE  AtOnce(r).status \in {400, 401, 404}
<1>. USE DEF AtOnce
<1>1. CASE Unauthorized(auth, r)
  BY <1>1 DEF Out, NoToken, NoRoute, Refused
<1>2. CASE ~Unauthorized(auth, r) /\ r.route = "unrouted"
  BY <1>2 DEF Out, NoToken, NoRoute, Refused
<1>3. CASE ~Unauthorized(auth, r) /\ r.route # "unrouted"
  <2>1. PICK code : code = Refusal(r)
    OBVIOUS
  <2>. QED
    BY <1>3, <2>1 DEF Out, NoToken, NoRoute, Refused
<1>. QED
  BY <1>1, <1>2, <1>3

\* What a response may be.
Answers == [status : Statuses, code : Codes]

LEMMA OutIsAnswer ==
  ASSUME NEW status \in Statuses, NEW code \in Codes
  PROVE  Out(status, code) \in Answers
  BY DEF Out, Answers

\* What the handler makes of an outcome is a response.
LEMMA MappedIsAnswer ==
  ASSUME NEW r, NEW outcome
  PROVE  Mapped(r, outcome) \in Answers
<1>. DEFINE errors == {"invalid_query", "embedder_mismatch", "tokenizer_mismatch", "unavailable"}
<1>1. CASE outcome = "ok"
  <2>1. Mapped(r, outcome) = Out(Success(r), "")
    BY <1>1 DEF Mapped
  <2>2. Success(r) \in Statuses /\ "" \in Codes
    BY DEF Success, Statuses, Codes, RefusalCodes
  <2>3. PICK status \in Statuses : status = Success(r)
    BY <2>2
  <2>4. Out(status, "") \in Answers
    BY <2>2, <2>3 DEF Out, Answers
  <2>. QED
    BY <2>1, <2>3, <2>4, Zenon
<1>2. CASE outcome \in errors
  <2>1. /\ 400 \in Statuses /\ 503 \in Statuses
        /\ "invalid_query" \in Codes /\ "embedder_mismatch" \in Codes
        /\ "tokenizer_mismatch" \in Codes /\ "embedder_unavailable" \in Codes
    BY DEF Statuses, Codes
  <2>2. CASE outcome = "invalid_query"
    <3>1. Mapped(r, outcome) = Out(400, "invalid_query")
      BY <2>2 DEF Mapped
    <3>2. Out(400, "invalid_query") \in Answers
      BY <2>1 DEF Out, Answers
    <3>. QED
      BY <3>1, <3>2, Zenon
  <2>3. CASE outcome = "embedder_mismatch"
    <3>1. Mapped(r, outcome) = Out(503, "embedder_mismatch")
      BY <2>3 DEF Mapped
    <3>2. Out(503, "embedder_mismatch") \in Answers
      BY <2>1 DEF Out, Answers
    <3>. QED
      BY <3>1, <3>2, Zenon
  <2>4. CASE outcome = "tokenizer_mismatch"
    <3>1. Mapped(r, outcome) = Out(503, "tokenizer_mismatch")
      BY <2>4 DEF Mapped
    <3>2. Out(503, "tokenizer_mismatch") \in Answers
      BY <2>1 DEF Out, Answers
    <3>. QED
      BY <3>1, <3>2, Zenon
  <2>5. CASE outcome = "unavailable"
    <3>1. Mapped(r, outcome) = Out(503, "embedder_unavailable")
      BY <2>5 DEF Mapped
    <3>2. Out(503, "embedder_unavailable") \in Answers
      BY <2>1 DEF Out, Answers
    <3>. QED
      BY <3>1, <3>2, Zenon
  <2>. QED
    BY <1>2, <2>2, <2>3, <2>4, <2>5, Zenon
<1>3. CASE outcome \notin {"ok"} \cup errors
  <2>1. Mapped(r, outcome) = Out(500, "internal")
    BY <1>3 DEF Mapped
  <2>2. 500 \in Statuses /\ "internal" \in Codes
    BY DEF Statuses, Codes
  <2>. QED
    BY <2>1, <2>2 DEF Out, Answers
<1>. QED
  BY <1>1, <1>2, <1>3

LEMMA RefusalIsAnswer ==
  ASSUME NEW r \in Requests
  PROVE  NoToken \in Answers /\ NoRoute \in Answers /\ Refused(Refusal(r)) \in Answers
<1>1. 400 \in Statuses /\ 401 \in Statuses /\ 404 \in Statuses
  BY DEF Statuses
<1>2. "" \in Codes /\ "unauthorized" \in Codes /\ RefusalCodes \subseteq Codes
  BY DEF Codes, RefusalCodes
<1>3. NoToken \in Answers
  BY <1>1, <1>2 DEF Out, Answers, NoToken, NoRoute, Refused
<1>4. NoRoute \in Answers
  BY <1>1, <1>2 DEF Out, Answers, NoToken, NoRoute, Refused
<1>5. PICK code : code = Refusal(r)
  OBVIOUS
<1>6. code \in RefusalCodes
  BY <1>5, RefusalIsCode, Zenon
<1>7. code \in Codes
  BY <1>2, <1>6
<1>8. Refused(code) \in Answers
  BY <1>1, <1>7 DEF Out, Answers, NoToken, NoRoute, Refused
<1>. QED
  BY <1>3, <1>4, <1>5, <1>8, Zenon

LEMMA HealthIsAnswer ==
  ASSUME NEW status \in {"ok", "degraded", "down"}
  PROVE  HealthAnswer(status) \in Answers
<1>1. 200 \in Statuses /\ 503 \in Statuses /\ status \in Codes
  BY DEF Codes, Statuses
<1>. QED
  BY <1>1, OutIsAnswer DEF HealthAnswer

\* TypeOK in two parts: the variables of the main goroutine and of the handlers.
MainTypes ==
  /\ auth \in BOOLEAN
  /\ phase \in Phases
  /\ handle \in {"none", "open", "closed"}
  /\ migrated \in BOOLEAN
  /\ signalled \in BOOLEAN
  /\ result \in {"none", "ok", "failed", "killed"}

HandlerTypes ==
  /\ pc \in [Conns -> {"idle", "call", "probe", "respond", "done", "cut"}]
  /\ req \in [Conns -> Requests \cup {NoRequest}]
  /\ probed \in [Conns -> 0..Len(Probes)]
  /\ failed \in [Conns -> SUBSET {"database", "embedder"}]
  /\ health \in [Conns -> {"ok", "degraded", "down"}]
  /\ effect \in [Conns -> BOOLEAN]
  /\ resp \in [Conns -> Answers]
  /\ got \in [Conns -> BOOLEAN]

\* Accept leaves connections and responses of their types.
LEMMA AcceptTypes ==
  ASSUME NEW c \in Conns, Accept(c),
         pc \in [Conns -> {"idle", "call", "probe", "respond", "done", "cut"}],
         resp \in [Conns -> Answers]
  PROVE  /\ pc' \in [Conns -> {"idle", "call", "probe", "respond", "done", "cut"}]
         /\ resp' \in [Conns -> Answers]
<1>1. PICK r \in Requests :
        /\ req' = [req EXCEPT ![c] = r]
        /\ IF Unauthorized(auth, r) THEN Decide(c, NoToken)
           ELSE IF r.route = "unrouted" THEN Decide(c, NoRoute)
           ELSE IF Refusal(r) # "" THEN Decide(c, Refused(Refusal(r)))
           ELSE /\ pc' = [pc EXCEPT ![c] = IF r.route \in HealthRoutes THEN "probe" ELSE "call"]
                /\ UNCHANGED resp
  BY AcceptCases
<1>2. /\ NoToken \in Answers /\ NoRoute \in Answers
      /\ Refused(Refusal(r)) \in Answers
  BY RefusalIsAnswer, Zenon
<1>3. ASSUME NEW answer \in Answers, Decide(c, answer)
      PROVE  /\ pc' \in [Conns -> {"idle", "call", "probe", "respond", "done", "cut"}]
             /\ resp' \in [Conns -> Answers]
  BY <1>3 DEF Decide
<1>4. CASE Unauthorized(auth, r)
  <2>1. Decide(c, NoToken)
    BY <1>1, <1>4, Zenon
  <2>. QED
    BY <1>2, <1>3, <2>1, Zenon
<1>5. CASE ~Unauthorized(auth, r)
  <2>1. CASE r.route = "unrouted"
    <3>1. Decide(c, NoRoute)
      BY <1>1, <1>5, <2>1, Zenon
    <3>. QED
      BY <1>2, <1>3, <3>1, Zenon
  <2>2. CASE r.route # "unrouted" /\ Refusal(r) # ""
    <3>1. Decide(c, Refused(Refusal(r)))
      BY <1>1, <1>5, <2>2, Zenon
    <3>. QED
      BY <1>2, <1>3, <3>1, Zenon
  <2>3. CASE r.route # "unrouted" /\ Refusal(r) = ""
    <3>1. /\ pc' = [pc EXCEPT ![c] = IF r.route \in HealthRoutes THEN "probe" ELSE "call"]
          /\ UNCHANGED resp
      BY <1>1, <1>5, <2>3, Zenon
    <3>. QED
      BY <3>1
  <2>. QED
    BY <2>1, <2>2, <2>3, Zenon
<1>. QED
  BY <1>4, <1>5, Zenon

LEMMA InitType == Init => MainTypes /\ HandlerTypes
<1>. SUFFICES ASSUME Init PROVE MainTypes /\ HandlerTypes
  OBVIOUS
<1>1. Out(0, "") \in Answers
  <2>1. 0 \in Statuses /\ "" \in Codes
    BY DEF Statuses, Codes, RefusalCodes
  <2>. QED
    BY <2>1 DEF Out, Answers
<1>2. Len(Probes) \in Nat
  BY ServerAssumption
<1>3. resp \in [Conns -> Answers]
  BY <1>1 DEF Init
<1>4. probed \in [Conns -> 0..Len(Probes)]
  <2>1. 0 \in 0..Len(Probes)
    BY <1>2
  <2>. QED
    BY <2>1 DEF Init
<1>5. MainTypes
  BY DEF Init, MainTypes, Phases, Starting
<1>. QED
  BY <1>3, <1>4, <1>5 DEF Init, HandlerTypes

LEMMA NextType == MainTypes /\ HandlerTypes /\ [Next]_vars => MainTypes' /\ HandlerTypes'
<1>. SUFFICES ASSUME MainTypes, HandlerTypes, [Next]_vars PROVE MainTypes' /\ HandlerTypes'
  OBVIOUS
<1>1. MainTypes'
  <2>. USE DEF MainTypes, Phases, Starting, main
  <2>1. CASE UNCHANGED main
    BY <2>1
  <2>2. CASE LoadConfig \/ OpenStore \/ BuildStore
    BY <2>2 DEF LoadConfig, OpenStore, BuildStore, BuildFails, ReturnEarly, Enter
  <2>3. CASE MigrateStore \/ WireHandlers \/ ListenFails
    BY <2>3 DEF MigrateStore, WireHandlers, ListenFails, ReturnEarly, ServeReturns, Enter
  <2>4. CASE Signal
    BY <2>4 DEF Signal, EndProcess, Enter
  <2>5. CASE Stopping
    BY <2>5 DEF Stopping, StartShutdown, ShutdownDone, ShutdownTimeout, CloseStore, Exit,
                EndProcess, ServeReturns, Enter
  <2>6. ASSUME NEW c \in Conns, Handle(c) PROVE UNCHANGED main
    BY <2>6 DEF Handle, Accept, CallStore, Probe, ReportHealth, Respond
  <2>. QED
    BY <2>1, <2>2, <2>3, <2>4, <2>5, <2>6 DEF Next, vars
<1>2. HandlerTypes'
  <2>. USE DEF HandlerTypes
  <2>1. CASE UNCHANGED handler
    BY <2>1 DEF handler
  <2>2. CASE EndProcess
    BY <2>2 DEF EndProcess
  <2>3. ASSUME NEW c \in Conns, Accept(c) PROVE HandlerTypes'
    <3>1. PICK r \in Requests : req' = [req EXCEPT ![c] = r]
      BY <2>3 DEF Accept
    <3>3. /\ pc' \in [Conns -> {"idle", "call", "probe", "respond", "done", "cut"}]
          /\ resp' \in [Conns -> Answers]
      BY <2>3, AcceptTypes
    <3>. QED
      BY <2>3, <3>1, <3>3 DEF Accept
  <2>4. ASSUME NEW c \in Conns, CallStore(c) PROVE HandlerTypes'
    <3>1. PICK outcome \in CallOutcomes(req[c]) :
            /\ Decide(c, Mapped(req[c], outcome))
            /\ \E e \in (CASE outcome = "ok" -> {TRUE}
                           [] outcome = "error" -> {TRUE, FALSE}
                           [] OTHER -> {FALSE}) :
                 effect' = [effect EXCEPT ![c] = e]
      BY <2>4 DEF CallStore
    <3>2. PICK e \in BOOLEAN : effect' = [effect EXCEPT ![c] = e]
      <4>1. CASE outcome = "ok"
        BY <3>1, <4>1
      <4>2. CASE outcome = "error"
        BY <3>1, <4>2
      <4>3. CASE outcome \notin {"ok", "error"}
        BY <3>1, <4>3
      <4>. QED
        BY <4>1, <4>2, <4>3
    <3>3. PICK answer \in Answers : Decide(c, answer)
      BY <3>1, MappedIsAnswer, Zenon
    <3>. QED
      BY <2>4, <3>2, <3>3 DEF CallStore, Decide
  <2>5. ASSUME NEW c \in Conns, Probe(c) PROVE HandlerTypes'
    <3>1. probed[c] \in 0..Len(Probes) /\ Len(Probes) \in Nat /\ probed[c] < Len(Probes)
      BY <2>5, ServerAssumption DEF Probe
    <3>2. Probes[probed[c] + 1] \in {"database", "embedder"}
      BY <3>1, ServerAssumption
    <3>3. probed' \in [Conns -> 0..Len(Probes)]
      BY <2>5, <3>1 DEF Probe
    <3>4. PICK probe \in {"database", "embedder"} :
            \/ UNCHANGED <<failed, health>>
            \/ /\ failed' = [failed EXCEPT ![c] = @ \cup {probe}]
               /\ health' = [health EXCEPT ![c] = AfterFailure(@, probe)]
      BY <2>5, <3>2 DEF Probe
    <3>5. AfterFailure(health[c], probe) \in {"ok", "degraded", "down"}
      BY DEF AfterFailure
    <3>6. /\ failed' \in [Conns -> SUBSET {"database", "embedder"}]
          /\ health' \in [Conns -> {"ok", "degraded", "down"}]
      <4>1. CASE UNCHANGED <<failed, health>>
        BY <4>1
      <4>2. CASE failed' = [failed EXCEPT ![c] = @ \cup {probe}]
                 /\ health' = [health EXCEPT ![c] = AfterFailure(@, probe)]
        <5>1. failed[c] \cup {probe} \in SUBSET {"database", "embedder"}
          OBVIOUS
        <5>. QED
          BY <3>5, <4>2, <5>1
      <4>. QED
        BY <3>4, <4>1, <4>2
    <3>. QED
      BY <2>5, <3>3, <3>6 DEF Probe
  <2>6. ASSUME NEW c \in Conns, ReportHealth(c) PROVE HandlerTypes'
    <3>1. PICK answer \in Answers : Decide(c, answer)
      BY <2>6, HealthIsAnswer DEF ReportHealth
    <3>. QED
      BY <2>6, <3>1 DEF ReportHealth, Decide
  <2>7. ASSUME NEW c \in Conns, Respond(c) PROVE HandlerTypes'
    BY <2>7, ServerAssumption DEF Respond
  <2>. QED
    BY <2>1, <2>2, <2>3, <2>4, <2>5, <2>6, <2>7
    DEF Next, vars, LoadConfig, OpenStore, BuildStore, MigrateStore, WireHandlers, ListenFails,
        Signal, Stopping, StartShutdown, ShutdownDone, ShutdownTimeout, CloseStore, Exit, Handle
<1>. QED
  BY <1>1, <1>2

LEMMA SpecType == Spec => [](MainTypes /\ HandlerTypes)
  BY InitType, NextType, PTL DEF Spec

\* Every variable keeps its type, and every response is one of the API.
THEOREM TypeCorrect == Spec => []TypeOK
<1>1. MainTypes /\ HandlerTypes => TypeOK
  BY DEF MainTypes, HandlerTypes, TypeOK, Answers
<1>. QED
  BY <1>1, SpecType, PTL

-----------------------------------------------------------------------------

\* The status an outcome is mapped to tells a success, and tells a call that
\* cannot have had an effect.
LEMMA MappedTells ==
  ASSUME NEW r, NEW outcome
  PROVE  /\ Mapped(r, outcome).status # 0
         /\ Mapped(r, outcome).status \in {200, 204} => outcome = "ok"
         /\ Mapped(r, outcome).status \in {400, 401, 404, 503} => outcome \notin {"ok", "error"}
<1>0. Success(r) \in {200, 204}
  BY DEF Success
<1>1. CASE outcome = "ok"
  <2>1. PICK answer : answer = Mapped(r, outcome)
    OBVIOUS
  <2>2. answer = Out(Success(r), "")
    BY <1>1, <2>1 DEF Mapped
  <2>3. answer.status = Success(r)
    BY <2>2 DEF Out
  <2>4. answer.status # 0 /\ answer.status \notin {400, 401, 404, 503}
    BY <1>0, <2>3
  <2>. QED
    BY <1>1, <2>1, <2>4
<1>2. CASE outcome = "error"
  BY <1>2 DEF Mapped, Out
<1>3. CASE outcome \in {"invalid_query", "embedder_mismatch", "tokenizer_mismatch", "unavailable"}
  BY <1>3 DEF Mapped, Out
<1>4. CASE outcome \notin {"ok", "error", "invalid_query", "embedder_mismatch",
                           "tokenizer_mismatch", "unavailable"}
  BY <1>4 DEF Mapped, Out
<1>. QED
  BY <1>1, <1>2, <1>3, <1>4

LEMMA InitAnswer == Init => AnswerInv
<1>. SUFFICES ASSUME Init PROVE AnswerInv
  OBVIOUS
<1>1. \A c \in Conns : /\ req[c].route = "none" /\ pc[c] = "idle"
                        /\ effect[c] = FALSE /\ resp[c].status = 0 /\ got[c] = FALSE
  BY DEF Init, NoRequest, Out
<1>2. "none" \notin HealthRoutes
  BY DEF HealthRoutes
<1>3. /\ effect \in [Conns -> BOOLEAN] /\ DOMAIN got = Conns
      /\ DOMAIN resp = Conns /\ DOMAIN pc = Conns /\ DOMAIN req = Conns
  BY DEF Init
<1>. QED
  BY <1>1, <1>2, <1>3 DEF AnswerInv

LEMMA NextAnswer == AnswerInv /\ [Next]_vars => AnswerInv'
<1>. SUFFICES ASSUME AnswerInv, [Next]_vars PROVE AnswerInv'
  OBVIOUS
<1>. USE DEF AnswerInv, handler
<1>1. CASE UNCHANGED <<pc, req, effect, resp, got>>
  BY <1>1
<1>2. CASE EndProcess
  BY <1>2 DEF EndProcess, InFlight
<1>3. ASSUME NEW c \in Conns, Accept(c) PROVE AnswerInv'
  <2>1. PICK r \in Requests :
          /\ req' = [req EXCEPT ![c] = r]
          /\ IF Unauthorized(auth, r) THEN Decide(c, NoToken)
             ELSE IF r.route = "unrouted" THEN Decide(c, NoRoute)
             ELSE IF Refusal(r) # "" THEN Decide(c, Refused(Refusal(r)))
             ELSE /\ pc' = [pc EXCEPT ![c] = IF r.route \in HealthRoutes THEN "probe" ELSE "call"]
                  /\ UNCHANGED resp
    BY <1>3, AcceptCases
  <2>. DEFINE refused == Unauthorized(auth, r) \/ r.route = "unrouted" \/ Refusal(r) # ""
  <2>2. PICK answer : answer = AtOnce(r)
    OBVIOUS
  <2>3. answer.status \in {400, 401, 404}
    BY <2>2, RefusalStatus
  <2>4. refused =>
          /\ resp' = [resp EXCEPT ![c] = answer]
          /\ pc' = [pc EXCEPT ![c] = "respond"]
    <3>1. CASE Unauthorized(auth, r)
      BY <2>1, <2>2, <3>1, Zenon DEF Decide, AtOnce
    <3>2. CASE ~Unauthorized(auth, r) /\ r.route = "unrouted"
      BY <2>1, <2>2, <3>2, Zenon DEF Decide, AtOnce
    <3>3. CASE ~Unauthorized(auth, r) /\ r.route # "unrouted" /\ Refusal(r) # ""
      BY <2>1, <2>2, <3>3, Zenon DEF Decide, AtOnce
    <3>. QED
      BY <3>1, <3>2, <3>3, Zenon
  <2>5. ~refused =>
          /\ resp' = resp
          /\ pc' = [pc EXCEPT ![c] = IF r.route \in HealthRoutes THEN "probe" ELSE "call"]
    BY <2>1, Zenon
  <2>6. /\ effect' = effect /\ ~effect[c] /\ pc[c] = "idle" /\ resp[c].status = 0
        /\ got' = got /\ ~got[c]
    BY <1>3 DEF Accept
  <2>8. req'[c] = r /\ (\A d \in Conns \ {c} : req'[d] = req[d]) /\ DOMAIN req' = Conns
    BY <2>1
  <2>9. CASE refused
    <3>0. /\ resp' = [resp EXCEPT ![c] = answer]
          /\ pc' = [pc EXCEPT ![c] = "respond"]
      BY <2>9, <2>4, Zenon
    <3>. HIDE DEF refused
    <3>1. resp'[c] = answer
      BY <3>0
    <3>2. /\ DOMAIN resp' = Conns /\ DOMAIN pc' = Conns
          /\ \A d \in Conns \ {c} : resp'[d] = resp[d] /\ pc'[d] = pc[d]
          /\ pc'[c] = "respond"
      BY <3>0
    <3>3. \A d \in Conns : req'[d].route \notin HealthRoutes =>
            /\ resp'[d].status \in {200, 204} => effect'[d]
            /\ resp'[d].status \in {400, 401, 404, 503} => ~effect'[d]
      BY <2>6, <2>8, <2>3, <3>1, <3>2
    <3>. QED
      BY <2>3, <2>6, <2>8, <3>1, <3>2, <3>3
  <2>10. CASE ~refused
    <3>. HIDE DEF refused
    <3>. QED
      BY <2>6, <2>8, <2>10, <2>5
  <2>. QED
    BY <2>9, <2>10
<1>4. ASSUME NEW c \in Conns, CallStore(c) PROVE AnswerInv'
  <2>1. PICK outcome \in CallOutcomes(req[c]) :
          /\ Decide(c, Mapped(req[c], outcome))
          /\ \E e \in (CASE outcome = "ok" -> {TRUE}
                         [] outcome = "error" -> {TRUE, FALSE}
                         [] OTHER -> {FALSE}) :
               effect' = [effect EXCEPT ![c] = e]
    BY <1>4 DEF CallStore
  <2>2. PICK e \in BOOLEAN :
          /\ effect' = [effect EXCEPT ![c] = e]
          /\ outcome = "ok" => e = TRUE
          /\ outcome \notin {"ok", "error"} => e = FALSE
    <3>1. CASE outcome = "ok"
      BY <2>1, <3>1
    <3>2. CASE outcome = "error"
      BY <2>1, <3>2
    <3>3. CASE outcome \notin {"ok", "error"}
      BY <2>1, <3>3
    <3>. QED
      BY <3>1, <3>2, <3>3
  <2>3. /\ req' = req
        /\ resp' = [resp EXCEPT ![c] = Mapped(req[c], outcome)]
        /\ pc' = [pc EXCEPT ![c] = "respond"]
    BY <1>4, <2>1 DEF CallStore, Decide
  <2>9. got' = got /\ pc[c] = "call" /\ req[c].route \notin HealthRoutes /\ ~got[c]
    BY <1>4 DEF CallStore
  <2>4. /\ effect' \in [Conns -> BOOLEAN]
        /\ DOMAIN resp' = Conns /\ DOMAIN pc' = Conns /\ DOMAIN req' = Conns /\ DOMAIN got' = Conns
    BY <2>2, <2>3, <2>9
  <2>5. \A d \in Conns : pc'[d] \in {"idle", "call", "probe"} => ~effect'[d] /\ resp'[d].status = 0
    BY <2>2, <2>3
  <2>6. ASSUME NEW d \in Conns, req'[d].route \notin HealthRoutes
        PROVE  /\ resp'[d].status \in {200, 204} => effect'[d]
               /\ resp'[d].status \in {400, 401, 404, 503} => ~effect'[d]
    <3>1. CASE d = c
      <4>1. resp'[d] = Mapped(req[c], outcome) /\ effect'[d] = e
        BY <2>2, <2>3, <3>1
      <4>. QED
        BY <2>2, <4>1, MappedTells
    <3>2. CASE d # c
      BY <2>2, <2>3, <2>6, <3>2
    <3>. QED
      BY <3>1, <3>2
  <2>7. ASSUME NEW d \in Conns
        PROVE  /\ pc'[d] = "probe" => req'[d].route \in HealthRoutes
               /\ req'[d].route \in HealthRoutes => pc'[d] # "call" /\ ~effect'[d]
               /\ got'[d] => pc'[d] = "done"
    BY <2>2, <2>3, <2>9
  <2>8. ASSUME NEW d \in Conns, pc'[d] \in {"respond", "done"} PROVE resp'[d].status # 0
    <3>1. CASE d = c
      <4>1. resp'[d] = Mapped(req[c], outcome)
        BY <2>3, <3>1
      <4>. QED
        BY <4>1, MappedTells
    <3>2. CASE d # c
      BY <2>3, <2>8, <3>2
    <3>. QED
      BY <3>1, <3>2
  <2>. QED
    BY <2>4, <2>5, <2>6, <2>7, <2>8
<1>5. ASSUME NEW c \in Conns, ReportHealth(c) PROVE AnswerInv'
  <2>1. /\ pc[c] = "probe" /\ effect' = effect /\ req' = req /\ got' = got
        /\ pc' = [pc EXCEPT ![c] = "respond"]
        /\ resp' = [resp EXCEPT ![c] = HealthAnswer(health[c])]
    BY <1>5 DEF ReportHealth, Decide
  <2>2. HealthAnswer(health[c]).status # 0
    BY DEF HealthAnswer, Out
  <2>. QED
    BY <2>1, <2>2
<1>6. ASSUME NEW c \in Conns, Respond(c) PROVE AnswerInv'
  BY <1>6 DEF Respond
<1>. QED
  BY <1>1, <1>2, <1>3, <1>4, <1>5, <1>6
  DEF Next, vars, LoadConfig, OpenStore, BuildStore, MigrateStore, WireHandlers, ListenFails, Signal,
      Stopping, StartShutdown, ShutdownDone, ShutdownTimeout, CloseStore, Exit, Handle, Probe

LEMMA SpecAnswer == Spec => []AnswerInv
  BY InitAnswer, NextAnswer, PTL DEF Spec

\* Whoever gets an answer knows what happened, except after a 500.
THEOREM AnswersAlwaysTell == Spec => []AnswerTellsEffect
<1>1. \A r : r \in Writes => r \notin HealthRoutes
  BY DEF Writes, DeleteRoutes, HealthRoutes
<1>2. AnswerInv => AnswerTellsEffect
  BY <1>1 DEF AnswerInv, AnswerTellsEffect
<1>. QED
  BY <1>2, SpecAnswer, PTL

-----------------------------------------------------------------------------

\* The state of health so far is the worst of the probes that have failed.
Worst(probes) == IF "database" \in probes THEN "down" ELSE IF probes # {} THEN "degraded" ELSE "ok"

\* A search that is not refused is not refused by the store either, and health is
\* judged by the probes that failed.
JudgeInv ==
  /\ \A c \in Conns : pc[c] = "call" /\ req[c].route = "search" => Refusal(req[c]) = ""
  /\ \A c \in Conns : req[c].route = "search" => resp[c].code # "invalid_query"
  /\ \A c \in Conns : pc[c] = "idle" => resp[c].code = ""
  /\ \A c \in Conns : health[c] = Worst(failed[c])
  /\ \A c \in Conns : req[c].route \in HealthRoutes /\ pc[c] = "respond" =>
       resp[c] = HealthAnswer(Worst(failed[c]))

\* One more probe fails.
LEMMA WorstGrows ==
  ASSUME NEW probes \in SUBSET {"database", "embedder"}, NEW probe \in {"database", "embedder"}
  PROVE  AfterFailure(Worst(probes), probe) = Worst(probes \cup {probe})
  BY DEF AfterFailure, Worst

\* Nothing is checked of a request for health.
LEMMA HealthIsOpen ==
  ASSUME NEW r, r.route \in HealthRoutes
  PROVE  ~Unauthorized(auth, r) /\ r.route # "unrouted" /\ Refusal(r) = ""
<1>1. /\ r.route \notin TokenRoutes /\ r.route # "unrouted"
      /\ r.route # "put" /\ r.route # "search" /\ r.route \notin DeleteRoutes
  BY DEF HealthRoutes, TokenRoutes, DeleteRoutes
<1>2. ~Unauthorized(auth, r)
  BY <1>1, Zenon DEF Unauthorized, NeedsToken
<1>3. Refusal(r) = ""
  BY <1>1, Zenon DEF Refusal
<1>. QED
  BY <1>1, <1>2, <1>3

LEMMA DefaultIsPositive == ~(10 < 1)
  OBVIOUS

\* What toQuery lets pass, the store takes.
LEMMA SearchPasses ==
  ASSUME NEW r, r.route = "search", Refusal(r) = ""
  PROVE  "invalid_query" \notin CallOutcomes(r)
<1>1. "search" # "put" /\ "search" \notin DeleteRoutes
  BY DEF DeleteRoutes
<1>2. Refusal(r) = FirstFlaw(SearchChecks(r))
  BY <1>1, Zenon DEF Refusal
<1>3. ~LimitIsBad(r.limit) /\ r.text # ""
  BY <1>2, SearchRefused, Zenon
<1>4. ~(LimitOf(r) < 1)
  <2>1. CASE r.limit = Absent
    <3>1. LimitOf(r) = 10
      BY <2>1, Zenon DEF LimitOf, DefaultLimit
    <3>. QED
      BY <3>1, DefaultIsPositive, Zenon
  <2>2. CASE r.limit # Absent
    BY <1>3, <2>2, Zenon DEF LimitIsBad, LimitOf
  <2>. QED
    BY <2>1, <2>2
<1>5. StoreRefusal(r) = ""
  BY <1>1, <1>3, <1>4, Zenon DEF StoreRefusal
<1>. QED
  BY <1>1, <1>5 DEF CallOutcomes

LEMMA MappedCode ==
  ASSUME NEW r, NEW outcome, outcome # "invalid_query"
  PROVE  Mapped(r, outcome).code # "invalid_query"
<1>1. CASE outcome = "ok"
  <2>1. PICK status : status = Success(r)
    OBVIOUS
  <2>2. Mapped(r, outcome) = Out(status, "")
    BY <1>1, <2>1, Zenon DEF Mapped
  <2>3. Out(status, "").code # "invalid_query"
    BY DEF Out
  <2>. QED
    BY <2>2, <2>3, Zenon
<1>2. CASE outcome # "ok"
  BY <1>2 DEF Mapped, Out
<1>. QED
  BY <1>1, <1>2

LEMMA InitJudge == Init => JudgeInv
<1>. SUFFICES ASSUME Init PROVE JudgeInv
  OBVIOUS
<1>1. \A c \in Conns : /\ req[c].route = "none" /\ pc[c] = "idle"
                        /\ health[c] = "ok" /\ failed[c] = {} /\ resp[c].code = ""
  BY DEF Init, NoRequest, Out
<1>2. "none" \notin HealthRoutes /\ Worst({}) = "ok"
  BY DEF HealthRoutes, Worst
<1>. QED
  BY <1>1, <1>2 DEF JudgeInv

LEMMA NextJudge == HandlerTypes /\ AnswerInv /\ JudgeInv /\ [Next]_vars => JudgeInv'
<1>. SUFFICES ASSUME HandlerTypes, AnswerInv, JudgeInv, [Next]_vars PROVE JudgeInv'
  OBVIOUS
<1>. USE DEF JudgeInv, handler
<1>1. CASE UNCHANGED handler
  BY <1>1
<1>2. CASE EndProcess
  BY <1>2 DEF EndProcess, InFlight, HandlerTypes
<1>3. ASSUME NEW c \in Conns, Accept(c) PROVE JudgeInv'
  <2>1. PICK r \in Requests :
          /\ req' = [req EXCEPT ![c] = r]
          /\ IF Unauthorized(auth, r) THEN Decide(c, Out(401, "unauthorized"))
             ELSE IF r.route = "unrouted" THEN Decide(c, Out(404, ""))
             ELSE IF Refusal(r) # "" THEN Decide(c, Out(400, Refusal(r)))
             ELSE /\ pc' = [pc EXCEPT ![c] = IF r.route \in HealthRoutes THEN "probe" ELSE "call"]
                  /\ UNCHANGED resp
    BY <1>3 DEF Accept
  <2>2. health' = health /\ failed' = failed /\ pc[c] = "idle"
    BY <1>3 DEF Accept
  <2>3. req'[c] = r /\ \A d \in Conns \ {c} : req'[d] = req[d]
    BY <2>1 DEF HandlerTypes
  <2>4. r.route = "search" => Refusal(r) # "invalid_query" /\ r.route \notin HealthRoutes
    <3>1. "search" # "put" /\ "search" \notin HealthRoutes /\ "search" \notin DeleteRoutes
      BY DEF HealthRoutes, DeleteRoutes
    <3>2. r.route = "search" => Refusal(r) = FirstFlaw(SearchChecks(r))
      BY <3>1, Zenon DEF Refusal
    <3>3. FirstFlaw(SearchChecks(r)) # "invalid_query"
      <4>1. PICK code : code = FirstFlaw(SearchChecks(r))
        OBVIOUS
      <4>2. code \in {"", "invalid_json", "org_id_required", "query_required",
                      "limit_out_of_range", "alpha_out_of_range"}
        BY <4>1, SearchRefused, Zenon
      <4>3. code # "invalid_query"
        BY <4>2
      <4>. QED
        BY <4>1, <4>3, Zenon
    <3>. QED
      BY <3>1, <3>2, <3>3, Zenon
  <2>. DEFINE says(answer) == /\ Decide(c, answer)
                              /\ r.route = "search" => answer.code # "invalid_query"
                              /\ r.route \notin HealthRoutes
              passes == /\ pc' = [pc EXCEPT ![c] = IF r.route \in HealthRoutes THEN "probe" ELSE "call"]
                        /\ UNCHANGED resp
                        /\ Refusal(r) = ""
  <2>5. ASSUME NEW answer, says(answer) PROVE JudgeInv'
    <3>1. /\ Decide(c, answer)
          /\ r.route = "search" => answer.code # "invalid_query"
          /\ r.route \notin HealthRoutes
      BY <2>5
    <3>2. /\ pc'[c] = "respond" /\ resp'[c] = answer
          /\ \A d \in Conns \ {c} : pc'[d] = pc[d] /\ resp'[d] = resp[d]
      BY <3>1 DEF Decide, HandlerTypes
    <3>. QED
      BY <2>2, <2>3, <3>1, <3>2
  <2>6. CASE passes
    <3>1. /\ pc'[c] \in {"probe", "call"}
          /\ \A d \in Conns \ {c} : pc'[d] = pc[d]
      BY <2>6 DEF HandlerTypes
    <3>2. resp' = resp
      BY <2>6
    <3>3. resp[c].code # "invalid_query"
      BY <2>2
    <3>. QED
      BY <2>2, <2>3, <2>6, <3>1, <3>2, <3>3
  <2>7. passes \/ \E answer : says(answer)
    <3>1. /\ Out(401, "unauthorized").code # "invalid_query"
          /\ Out(404, "").code # "invalid_query"
          /\ Out(400, Refusal(r)).code = Refusal(r)
      BY DEF Out
    <3>2. CASE r.route \in HealthRoutes
      <4>1. ~Unauthorized(auth, r) /\ r.route # "unrouted" /\ Refusal(r) = ""
        BY <3>2, HealthIsOpen
      <4>. QED
        BY <2>1, <4>1, Zenon
    <3>3. CASE r.route \notin HealthRoutes
      <4>1. CASE Unauthorized(auth, r)
        <5>1. says(Out(401, "unauthorized"))
          BY <2>1, <3>1, <3>3, <4>1, Zenon
        <5>. QED
          BY <5>1, Zenon
      <4>2. CASE ~Unauthorized(auth, r) /\ r.route = "unrouted"
        <5>1. says(Out(404, ""))
          BY <2>1, <3>1, <3>3, <4>2, Zenon
        <5>. QED
          BY <5>1, Zenon
      <4>3. CASE ~Unauthorized(auth, r) /\ r.route # "unrouted" /\ Refusal(r) # ""
        <5>1. Decide(c, Out(400, Refusal(r)))
          BY <2>1, <4>3, Zenon
        <5>2. says(Out(400, Refusal(r)))
          BY <2>4, <3>1, <3>3, <5>1, Zenon
        <5>. QED
          BY <5>2, Zenon
      <4>4. CASE ~Unauthorized(auth, r) /\ r.route # "unrouted" /\ Refusal(r) = ""
        BY <2>1, <4>4, Zenon
      <4>. HIDE DEF says, passes
      <4>. QED
        BY <4>1, <4>2, <4>3, <4>4, Zenon
    <3>. QED
      BY <3>2, <3>3
  <2>. HIDE DEF JudgeInv, handler, says, passes
  <2>. QED
    BY <2>5, <2>6, <2>7, Zenon
<1>4. ASSUME NEW c \in Conns, CallStore(c) PROVE JudgeInv'
  <2>1. PICK outcome \in CallOutcomes(req[c]) : Decide(c, Mapped(req[c], outcome))
    BY <1>4 DEF CallStore
  <2>2. /\ pc[c] = "call" /\ req' = req /\ health' = health /\ failed' = failed
        /\ pc'[c] = "respond" /\ resp'[c] = Mapped(req[c], outcome)
        /\ \A d \in Conns \ {c} : pc'[d] = pc[d] /\ resp'[d] = resp[d]
    BY <1>4, <2>1 DEF CallStore, Decide, HandlerTypes
  <2>3. req[c].route = "search" => Mapped(req[c], outcome).code # "invalid_query"
    BY <2>1, <2>2, SearchPasses, MappedCode
  <2>4. req[c].route \notin HealthRoutes
    BY <2>2 DEF AnswerInv
  <2>. QED
    BY <2>2, <2>3, <2>4
<1>5. ASSUME NEW c \in Conns, Probe(c) PROVE JudgeInv'
  <2>1. pc' = pc /\ req' = req /\ resp' = resp /\ pc[c] = "probe"
    BY <1>5 DEF Probe
  <2>2. Probes[probed[c] + 1] \in {"database", "embedder"}
    <3>1. probed[c] \in 0..Len(Probes)
      BY DEF HandlerTypes
    <3>2. probed[c] < Len(Probes)
      BY <1>5 DEF Probe
    <3>. HIDE DEF JudgeInv
    <3>. QED
      BY <3>1, <3>2, ServerAssumption
  <2>3. PICK probe \in {"database", "embedder"} :
          \/ UNCHANGED <<failed, health>>
          \/ /\ failed' = [failed EXCEPT ![c] = @ \cup {probe}]
             /\ health' = [health EXCEPT ![c] = AfterFailure(@, probe)]
    BY <1>5, <2>2 DEF Probe
  <2>4. health'[c] = Worst(failed'[c])
    <3>1. CASE UNCHANGED <<failed, health>>
      BY <3>1
    <3>2. CASE /\ failed' = [failed EXCEPT ![c] = @ \cup {probe}]
               /\ health' = [health EXCEPT ![c] = AfterFailure(@, probe)]
      <4>1. /\ failed'[c] = failed[c] \cup {probe}
            /\ health'[c] = AfterFailure(Worst(failed[c]), probe)
            /\ failed[c] \in SUBSET {"database", "embedder"}
        BY <3>2 DEF HandlerTypes
      <4>2. AfterFailure(Worst(failed[c]), probe) = Worst(failed[c] \cup {probe})
        BY <4>1, WorstGrows, Zenon
      <4>. QED
        BY <4>1, <4>2, Zenon
    <3>. QED
      BY <2>3, <3>1, <3>2
  <2>5. \A d \in Conns \ {c} : failed'[d] = failed[d] /\ health'[d] = health[d]
    BY <2>3 DEF HandlerTypes
  <2>. QED
    BY <2>1, <2>4, <2>5
<1>6. ASSUME NEW c \in Conns, ReportHealth(c) PROVE JudgeInv'
  <2>1. /\ pc[c] = "probe" /\ req' = req /\ failed' = failed /\ health' = health
        /\ pc'[c] = "respond" /\ resp'[c] = HealthAnswer(health[c])
        /\ \A d \in Conns \ {c} : pc'[d] = pc[d] /\ resp'[d] = resp[d]
    BY <1>6 DEF ReportHealth, Decide, HandlerTypes
  <2>2. HealthAnswer(health[c]).code # "invalid_query"
    <3>1. PICK state \in {"ok", "degraded", "down"} : state = health[c]
      BY DEF HandlerTypes
    <3>2. HealthAnswer(state).code # "invalid_query"
      BY <3>1 DEF HealthAnswer, Out
    <3>. QED
      BY <3>1, <3>2, Zenon
  <2>. QED
    BY <2>1, <2>2
<1>7. ASSUME NEW c \in Conns, Respond(c) PROVE JudgeInv'
  <2>1. /\ req' = req /\ resp' = resp /\ pc'[c] = "done" /\ failed'[c] = {} /\ health'[c] = "ok"
        /\ \A d \in Conns \ {c} : pc'[d] = pc[d] /\ failed'[d] = failed[d] /\ health'[d] = health[d]
    BY <1>7 DEF Respond, HandlerTypes
  <2>2. Worst({}) = "ok"
    BY DEF Worst
  <2>. QED
    BY <2>1, <2>2
<1>. QED
  BY <1>1, <1>2, <1>3, <1>4, <1>5, <1>6, <1>7
  DEF Next, vars, LoadConfig, OpenStore, BuildStore, MigrateStore, WireHandlers, ListenFails, Signal,
      Stopping, StartShutdown, ShutdownDone, ShutdownTimeout, CloseStore, Exit, Handle

LEMMA SpecJudge == Spec => []JudgeInv
  BY InitJudge, NextJudge, SpecType, SpecAnswer, PTL DEF Spec

\* A mismatch is never passed off as a result, and no search that gets past the
\* checks of the handler is refused by those of the store.
THEOREM SearchAlwaysHonest == Spec => []SearchIsHonest
<1>1. "search" \notin HealthRoutes
  BY DEF HealthRoutes
<1>2. AnswerInv /\ JudgeInv => SearchIsHonest
  <2>. SUFFICES ASSUME AnswerInv, JudgeInv, NEW c \in Conns, req[c].route = "search"
                PROVE  /\ resp[c].status = 200 => effect[c]
                       /\ resp[c].code # "invalid_query"
    BY DEF SearchIsHonest
  <2>1. req[c].route \notin HealthRoutes
    BY <1>1, Zenon
  <2>2. resp[c].status \in {200, 204} => effect[c]
    BY <2>1 DEF AnswerInv
  <2>3. resp[c].code # "invalid_query"
    BY DEF JudgeInv
  <2>. QED
    BY <2>2, <2>3
<1>. QED
  BY <1>2, SpecAnswer, SpecJudge, PTL

\* The reported state is the worst of what the probes found, for any number of
\* probes in any order.
THEOREM HealthAlwaysWorst == Spec => []HealthReportsWorst
<1>1. JudgeInv => HealthReportsWorst
  BY DEF JudgeInv, HealthReportsWorst, Worst
<1>. QED
  BY <1>1, SpecJudge, PTL
=============================================================================
