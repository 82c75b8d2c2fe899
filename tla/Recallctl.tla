------------------------------ MODULE Recallctl ------------------------------
(***************************************************************************)
(* cmd/recallctl: each invocation checks what it was given, sends one      *)
(* request to the server, waits for the answer no longer than its timeout  *)
(* and tells by its exit code how it went.                                 *)
(*                                                                         *)
(* Some connections of Server belong to it, the others to anybody.  Wording*)
(* and the layout of what is printed are left out; that printing may fail  *)
(* is not, nor that one line of an input may be wrong.  The weight -alpha  *)
(* is a float64 here and a float32 in the server: it is a member of some   *)
(* set, and Float32 says which number, in tenths, the server reads.        *)
(***************************************************************************)
EXTENDS Server

CONSTANTS
  Clients,      \* the connections of recallctl
  Invocations,  \* what it may be started with
  Float32,      \* by weight, the nearest float32; too large a weight has none
  NotInJSON     \* the weights that JSON cannot write: NaN and the infinities

ASSUME RecallctlAssumption ==
  /\ Clients \subseteq Conns
  /\ \A inv \in Invocations :
       /\ inv.command \in {"put", "search", "health"} \cup DeleteRoutes
       /\ inv.command = "put" =>
            Len(inv.lines) \in Nat /\ DOMAIN inv.lines = 1..Len(inv.lines)

ASSUME WeightAssumption ==
  /\ Float32 \in [DOMAIN Float32 -> Int]
  /\ Absent \notin DOMAIN Float32 \cup NotInJSON
  /\ DOMAIN Float32 \cap NotInJSON = {}

VARIABLE
  ctl           \* by client: where it is, its invocation, its exit code

ctlVars == <<vars, ctl>>

ExitOK      == 0
ExitUsage   == 1
ExitServer  == 2
ExitConnect == 3

NotInvoked == [at |-> "idle", inv |-> [command |-> "none"], code |-> ExitOK]

CtlInit == Init /\ ctl = [c \in Clients |-> NotInvoked]

-----------------------------------------------------------------------------
(* What is checked here, before anything is sent.                          *)

DefaultOrg == 1

\* The flag, the environment or the default; what is not a number is 0 here.
OrgOf(inv) == IF inv.org = Absent THEN DefaultOrg ELSE inv.org

\* Mutant: an external id of 0 stands for none.
LineIsBad_ZeroPasses(line) ==
  \/ ~line.json
  \/ line.chunk.chunkId # Absent
  \/ line.chunk.content = ""

\* parseChunkLine; the lines of an invocation are those that are not blank.
LineIsBad(line) ==
  \/ ~line.json
  \/ line.chunk.chunkId # Absent
  \/ line.chunk.ext # Absent /\ line.chunk.ext < 1
  \/ line.chunk.content = ""

\* readChunks: one JSON object per line, all of it in one request.
InputIsBad(inv) ==
  inv.lines = <<>> \/ \E i \in DOMAIN inv.lines : LineIsBad(inv.lines[i])

\* The words of the command line are joined to the query.
QueryIsBlank(inv) == inv.text = ""

\* parseIDCommand: exactly one integer, of any sign.
IdIsBad(inv) == ~inv.id

\* json.Marshal of a weight that is no number fails, and nothing is sent.
AlphaIsUnwritable(inv) == inv.alpha \in NotInJSON

\* The flags, the org and what each command takes.  The ranges of -limit and -alpha
\* are the server's business.
UsageError(inv) ==
  \/ inv.flags = "bad"
  \/ BadOrg(OrgOf(inv))
  \/ inv.command = "put" /\ InputIsBad(inv)
  \/ inv.command = "search" /\ (QueryIsBlank(inv) \/ AlphaIsUnwritable(inv))
  \/ inv.command \in DeleteRoutes /\ IdIsBad(inv)

\* -h: the usage is printed and nothing else happens.
AsksHelp(inv) == inv.flags = "help"

\* What the server makes of what each command sends.  A body is whole, or cut
\* where the server has waited for it too long or recallctl has gone.
PutRequest(inv, whole) ==
  [route |-> "put", token |-> inv.token, json |-> whole, org |-> OrgOf(inv),
   chunks |-> [i \in DOMAIN inv.lines |-> inv.lines[i].chunk]]

\* A number that no float32 holds fails the decoding of the whole body.
AlphaFits(alpha) == alpha = Absent \/ alpha \in DOMAIN Float32
DecodedAlpha(alpha) == IF alpha \in DOMAIN Float32 THEN Float32[alpha] ELSE Absent

SearchRequest(inv, whole) ==
  [route |-> "search", token |-> inv.token, json |-> whole /\ AlphaFits(inv.alpha),
   org |-> OrgOf(inv), text |-> inv.text, limit |-> inv.limit,
   alpha |-> DecodedAlpha(inv.alpha)]

DeleteRequest(inv) ==
  [route |-> inv.command, token |-> inv.token, org |-> OrgOf(inv), id |-> TRUE]

HealthRequest(inv) == [route |-> "healthz", token |-> inv.token]

RequestOf(inv, whole) ==
  CASE inv.command = "put" -> PutRequest(inv, whole)
    [] inv.command = "search" -> SearchRequest(inv, whole)
    [] inv.command = "health" -> HealthRequest(inv)
    [] OTHER -> DeleteRequest(inv)

-----------------------------------------------------------------------------
(* The exit code.                                                          *)

\* Mutant: every command may be answered 503.
Tolerates_Always(command, status) == status = 503

\* tolerateStatus: only health reads the body of a 503.
Tolerates(command, status) == command = "health" /\ status = 503

\* do.
ServerRefused(command, response) ==
  response.status >= 400 /\ ~Tolerates(command, response.status)

\* delete prints nothing.
Prints(command) == command # "deleteChunk"

\* The codes for a response that has arrived: printing what is in it may fail, and
\* a state other than "ok" is told after it has been printed.
ExitCodes(command, response) ==
  IF ServerRefused(command, response) THEN {ExitServer}
  ELSE (IF Prints(command) THEN {ExitUsage} ELSE {})
         \cup {IF command = "health" /\ response.code # "ok" THEN ExitServer ELSE ExitOK}

ExitWith(c, code) == ctl' = [ctl EXCEPT ![c].at = "exited", ![c].code = code]

-----------------------------------------------------------------------------
(* Its life.                                                               *)

\* main, dispatch and the command up to the call of do.
Invoke(c) ==
  /\ ctl[c].at = "idle"
  /\ \E inv \in Invocations :
       ctl' = [ctl EXCEPT ![c] =
         IF AsksHelp(inv) THEN [at |-> "exited", inv |-> inv, code |-> ExitOK]
         ELSE IF UsageError(inv) THEN [at |-> "exited", inv |-> inv, code |-> ExitUsage]
         ELSE [at |-> "sent", inv |-> inv, code |-> ExitOK]]
  /\ UNCHANGED vars

\* The server gets the request, with all of its body or a part.
Arrive(c) ==
  /\ ctl[c].at = "sent"
  /\ Accept(c)
  /\ \E whole \in BOOLEAN : req'[c] = RequestOf(ctl[c].inv, whole)
  /\ UNCHANGED ctl

\* There is nobody to connect to, -timeout is over or Ctrl-C was pressed, also
\* while the answer is read.  The handler may have begun, and goes on.
NotReached(c) ==
  /\ ctl[c].at = "sent"
  /\ ExitWith(c, ExitConnect)
  /\ UNCHANGED vars

\* The response is there.
Finish(c) ==
  /\ ctl[c].at = "sent" /\ got[c]
  /\ \E code \in ExitCodes(ctl[c].inv.command, resp[c]) : ExitWith(c, code)
  /\ UNCHANGED vars

ServerGoesOn ==
  \/ LoadConfig \/ OpenStore \/ BuildStore \/ MigrateStore \/ WireHandlers
  \/ ListenFails \/ Signal \/ Stopping
  \/ \E c \in Conns : CallStore(c) \/ Probe(c) \/ ReportHealth(c) \/ Respond(c)
  \/ \E c \in Conns \ Clients : Accept(c)

CtlNext ==
  \/ ServerGoesOn /\ UNCHANGED ctl
  \/ \E c \in Clients : Invoke(c) \/ Arrive(c) \/ NotReached(c) \/ Finish(c)

CtlSpec == CtlInit /\ [][CtlNext]_ctlVars

\* Server's fairness; of recallctl nothing is assumed.
CtlFairSpec == CtlSpec /\ WF_vars(Stopping)
-----------------------------------------------------------------------------
(* Properties.                                                              *)

\* What a script may conclude from the exit code.  0: the write took effect, the
\* search was answered, all dependencies are there, or it was -h.  2: the server answered, and
\* did nothing unless it said 500.  1: nothing was sent, or the server did what it
\* was asked and only the printing failed, so that 1 is not the sign of a mistake
\* in the input it is called.  3 says nothing (main.go: which failures can be tried
\* again; ADR 0016).
ExitTells ==
  \A c \in Clients : ctl[c].at = "exited" =>
    LET command == ctl[c].inv.command
        code == ctl[c].code
    IN  /\ code = ExitOK =>
             \/ AsksHelp(ctl[c].inv)
             \/ effect[c]
             \/ command = "health" /\ resp[c].code = "ok"
        /\ code = ExitServer => got[c] /\ (effect[c] => resp[c].status = 500)
        /\ code = ExitUsage =>
             \/ UsageError(ctl[c].inv) /\ pc[c] = "idle"
             \/ effect[c]
             \/ command = "health" /\ got[c]

\* The checks of recallctl and those of the server agree: the server refuses of its
\* requests only what recallctl leaves to it, so that every other flaw is reported
\* by the one that knows the line (chunks.go, parseChunkLine: the server answers
\* 400 too, but only the CLI can name the line).  A body is called invalid JSON
\* where it has not arrived whole, or for a weight out of the range of float32:
\* recallctl has sent nothing but valid JSON (search.go, line 37, against line 34
\* of httpapi/search.go).
AsksValidly ==
  \A c \in Clients : resp[c].status = 400 =>
    LET inv == ctl[c].inv
    IN  \/ resp[c].code \in {"limit_out_of_range", "alpha_out_of_range"}
        \/ /\ resp[c].code = "invalid_json"
           /\ \/ req[c] # RequestOf(inv, TRUE)
              \/ inv.command = "search" /\ ~AlphaFits(inv.alpha)
=============================================================================
