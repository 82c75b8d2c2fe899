----------------------------- MODULE MCRecallctl -----------------------------
(***************************************************************************)
(* An instance of Recallctl for TLC: one connection is recallctl's, one is *)
(* anybody's, with the requests of MCServer.                               *)
(***************************************************************************)
EXTENDS MCServer, Recallctl

CONSTANT c1

Line(json, chunk) == [json |-> json, chunk |-> chunk]
Good == Line(TRUE, Chunk(Absent, 7, "a"))

PutFrom(token, org, lines) ==
  [command |-> "put", flags |-> "good", token |-> token, org |-> org, lines |-> lines]
SearchFor(org, text, limit, alpha) ==
  [command |-> "search", flags |-> "good", token |-> "right", org |-> org, text |-> text,
   limit |-> limit, alpha |-> alpha]
DeleteBy(command, org, id) ==
  [command |-> command, flags |-> "good", token |-> "right", org |-> org, id |-> id]
Health(flags) == [command |-> "health", flags |-> flags, token |-> "none", org |-> Absent]

\* The first is beyond 1 as a float64 and 1 as a float32; no float32 is near 1e39.
Weights == ("1.00000001" :> 10) @@ ("1.1" :> 11)
NoNumbers == {"NaN"}

Sent ==
  {PutFrom("right", Absent, <<Good, Line(TRUE, Chunk(Absent, Absent, "b"))>>),
   PutFrom("none", 1, <<Good>>), PutFrom("right", 1, <<Good, Good>>),
   SearchFor(1, "q", 101, Absent),
   SearchFor(1, "q", Absent, "1.00000001"), SearchFor(1, "q", Absent, "1.1"),
   SearchFor(1, "q", Absent, "1e39"),
   DeleteBy("deleteChunk", 1, TRUE), DeleteBy("deleteBySource", 1, TRUE), Health("good")}

NotSent ==
  {PutFrom("right", 0, <<Good>>), PutFrom("right", 1, <<>>),
   PutFrom("right", 1, <<Good, Line(FALSE, Chunk(Absent, Absent, ""))>>),
   PutFrom("right", 1, <<Line(TRUE, Chunk(5, Absent, "a"))>>),
   PutFrom("right", 1, <<Line(TRUE, Chunk(Absent, 0, "a"))>>),
   PutFrom("right", 1, <<Line(TRUE, Chunk(Absent, 7, ""))>>),
   SearchFor(1, "", Absent, Absent), SearchFor(1, "q", Absent, "NaN"), DeleteBy("deleteChunk", 1, FALSE), Health("bad"), Health("help")}

AllInvocations == Sent \cup NotSent

CtlRequests ==
  AllRequests \cup {RequestOf(inv, whole) : inv \in AllInvocations, whole \in BOOLEAN}
=============================================================================
