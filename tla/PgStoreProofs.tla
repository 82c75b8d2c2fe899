---------------------------- MODULE PgStoreProofs ---------------------------
(***************************************************************************)
(* Proofs about PgStore, and about the identity check PgSpace audits, for  *)
(* every set of calls, processes and requests.                             *)
(***************************************************************************)
EXTENDS PgSpace, FiniteSetTheorems, TLAPS

\* What the program counter of a call says about its request.
PcInv ==
  \A c \in Calls :
    /\ pc[c] = "new" <=> job[c] = NoJob
    /\ pc[c] \in {"embed", "insert"} => IsPut(Req(c))
    /\ pc[c] \in {"scan", "delete"} => IsDelete(Req(c))
    /\ pc[c] \in {"check", "query"} => IsSearch(Req(c))

\* Only finitely many rows exist, so that a DELETE can count what it removed.
FinInv ==
  /\ IsFiniteSet(rows)
  /\ \A c \in Calls : IsFiniteSet(written[c])

TInv == TypeOK /\ PcInv /\ FinInv

-----------------------------------------------------------------------------

\* A request with op "put" has the fields of a put.
LEMMA PutShape ==
  ASSUME NEW r \in Requests, IsPut(r)
  PROVE  r \in PutRequest
  BY RequestsAssumption DEF IsPut, PutRequest, DeleteRequest, SearchRequest

\* The INSERT binds values of the columns' types.
LEMMA RowOfType ==
  ASSUME NEW id \in Nat, NEW o \in Nat, NEW ch \in ChunkInput,
         NEW emb \in STRING, NEW tok \in STRING
  PROVE  RowOf(id, o, ch, emb, tok) \in Row
  BY DEF RowOf, Row, ChunkInput

\* The next chunk of a batch that is being inserted.
LEMMA NextChunk ==
  ASSUME TInv, NEW c \in Calls, pc[c] = "insert", Len(ids[c]) < Len(Batch(c))
  PROVE  /\ Req(c).org \in Nat
         /\ Batch(c) \in Seq(ChunkInput)
         /\ Len(ids[c]) + 1 \in 1..Len(Batch(c))
         /\ Batch(c)[Len(ids[c]) + 1] \in ChunkInput
         /\ Emb(c) \in STRING
         /\ Tok(c) \in STRING
<1>1. job[c] \in Job /\ IsPut(Req(c))
  BY DEF TInv, TypeOK, PcInv
<1>2. Req(c) \in PutRequest
  BY <1>1, PutShape DEF Job, Req
<1>3. Req(c).org \in Nat /\ Batch(c) \in Seq(ChunkInput)
  BY <1>2 DEF PutRequest, Req, Batch
<1>4. Len(ids[c]) \in Nat
  BY DEF TInv, TypeOK
<1>5. Len(ids[c]) + 1 \in 1..Len(Batch(c))
  BY <1>3, <1>4
<1>6. Batch(c)[Len(ids[c]) + 1] \in ChunkInput
  BY <1>3, <1>5
<1>7. Emb(c) \in STRING /\ Tok(c) \in STRING
  BY <1>1, ProcsAssumption DEF Job, Emb, Tok
<1>. QED
  BY <1>3, <1>5, <1>6, <1>7

-----------------------------------------------------------------------------
(* Every step is one of eight kinds; the proofs below split on them.       *)

\* c goes on to its next statement and only its program counter moves.
Advance(c) ==
  /\ Foreign(c) = {}
  /\ \/ pc[c] = "embed" /\ pc' = [pc EXCEPT ![c] = "insert"]
     \/ pc[c] = "check" /\ pc' = [pc EXCEPT ![c] = "query"]
  /\ UNCHANGED <<rows, nextId, job, written, locked, ids, seen, ans, hits>>

AbortWith(c) ==
  /\ pc[c] \notin {"new", "answered"}
  /\ \E s \in Errors : Abort(c, s)

Kinds(c) ==
  \/ Receive(c)
  \/ AbortWith(c)
  \/ Advance(c)
  \/ InsertChunk(c)
  \/ CommitPut(c)
  \/ ScanRows(c)
  \/ DeleteRow(c)
  \/ CommitDelete(c)
  \/ QueryRows(c)

LEMMA StepKinds ==
  ASSUME NEW c \in Calls, Receive(c) \/ Progress(c) \/ StatementFails(c)
  PROVE  Kinds(c)
<1>1. CASE Receive(c)
  BY <1>1 DEF Kinds
<1>2. ASSUME pc[c] \notin {"new", "answered"}, ReportMismatch(c)
      PROVE  AbortWith(c)
  BY <1>2 DEF ReportMismatch, AbortWith, Errors
<1>3. CASE EmbedFails(c) \/ StatementFails(c)
  BY <1>3 DEF EmbedFails, StatementFails, AbortWith, Errors, Kinds
<1>4. CASE BeginPut(c)
  BY <1>2, <1>4 DEF BeginPut, Advance, Kinds
<1>5. CASE CheckSearch(c)
  BY <1>2, <1>5 DEF CheckSearch, Advance, Kinds
<1>6. CASE BreakDeadlock(c)
  <2>1. WaitsFor(c) # {}
    BY <1>6 DEF BreakDeadlock, WaitCycle
  <2>2. pc[c] = "insert" \/ pc[c] = "delete"
    BY <2>1 DEF WaitsFor
  <2>. QED
    BY <1>6, <2>2 DEF BreakDeadlock, AbortWith, Errors, Kinds
<1>. QED
  BY <1>1, <1>3, <1>4, <1>5, <1>6 DEF Progress, Kinds

-----------------------------------------------------------------------------
(* Type correctness.                                                       *)

LEMMA SayType ==
  ASSUME NEW s \in {"none", "ok", "lost"} \cup Errors
  PROVE  Say(s) \in Answer
  BY DEF Say, Answer

\* A call that is aborted leaves the types alone.
LEMMA AbortTInv ==
  ASSUME TInv, NEW c \in Calls, NEW s \in Errors, pc[c] # "new", Abort(c, s)
  PROVE  TInv'
<1>1. Say(s) \in Answer
  BY SayType
<1>. QED
  BY <1>1, FS_EmptySet
  DEF TInv, TypeOK, PcInv, FinInv, Abort, AnswerWith, EndTx, PCs, Req, Errors

LEMMA InitTInv == Init => TInv
<1>1. Say("none") \in Answer
  BY SayType
<1>. QED
  BY <1>1, FS_EmptySet DEF Init, TInv, TypeOK, PcInv, FinInv, PCs

LEMMA ReceiveTInv ==
  ASSUME TInv, NEW c \in Calls, Receive(c)
  PROVE  TInv'
<1>1. PICK p \in Procs, r \in Requests :
        /\ job' = [job EXCEPT ![c] = [made |-> TRUE, proc |-> p, req |-> r]]
        /\ IF Valid(r)
           THEN /\ pc' = [pc EXCEPT ![c] = IF IsPut(r) THEN "embed"
                                           ELSE IF IsDelete(r) THEN "scan"
                                           ELSE "check"]
                /\ UNCHANGED ans
           ELSE AnswerWith(c, Say("rejected"))
  BY DEF Receive
<1>2. [made |-> TRUE, proc |-> p, req |-> r] \in Job
  BY DEF Job
<1>3. [made |-> TRUE, proc |-> p, req |-> r] # NoJob
  BY DEF NoJob
<1>4. ~IsPut(r) /\ ~IsDelete(r) => IsSearch(r)
  BY RequestsAssumption
  DEF IsPut, IsDelete, IsSearch, PutRequest, DeleteRequest, SearchRequest
<1>5. Say("rejected") \in Answer
  BY SayType DEF Errors
<1>6. TypeOK'
  <2>1. job' \in [Calls -> Job \cup {NoJob}]
    BY <1>1, <1>2 DEF TInv, TypeOK
  <2>2. pc' \in [Calls -> PCs] /\ ans' \in [Calls -> Answer]
    <3>1. CASE Valid(r)
      BY <1>1, <3>1 DEF TInv, TypeOK, PCs
    <3>2. CASE ~Valid(r)
      BY <1>1, <1>5, <3>2 DEF TInv, TypeOK, AnswerWith, PCs
    <3>. QED
      BY <3>1, <3>2
  <2>3. UNCHANGED <<rows, nextId, written, locked, ids, seen, hits>>
    BY DEF Receive
  <2>. QED
    BY <2>1, <2>2, <2>3 DEF TInv, TypeOK
<1>7. PcInv'
  BY <1>1, <1>2, <1>3, <1>4 DEF TInv, TypeOK, PcInv, Receive, AnswerWith, PCs, Req
<1>8. FinInv'
  BY DEF TInv, FinInv, Receive
<1>. QED
  BY <1>6, <1>7, <1>8 DEF TInv

LEMMA InsertTInv ==
  ASSUME TInv, NEW c \in Calls, InsertChunk(c)
  PROVE  TInv'
<1>. DEFINE ch  == Batch(c)[Len(ids[c]) + 1]
            o   == Req(c).org
            old == Stored(c, o, ch.ext)
<1>1. /\ pc[c] = "insert" /\ Len(ids[c]) < Len(Batch(c))
      /\ nextId' = nextId + 1
      /\ UNCHANGED <<rows, pc, job, seen, ans, hits>>
  BY DEF InsertChunk
<1>2. PICK id \in ReturnedIds(old) :
        /\ ids' = [ids EXCEPT ![c] = Append(@, id)]
        /\ written' = [written EXCEPT ![c] =
                         {row \in @ : row.id # id} \cup
                         {RowOf(id, o, ch, Emb(c), Tok(c))}]
        /\ locked' = [locked EXCEPT ![c] = IF old = {} THEN @ ELSE @ \cup {id}]
  BY DEF InsertChunk
<1>3. id \in Nat
  <2>1. old \subseteq Row
    BY DEF Stored, TInv, TypeOK
  <2>. QED
    BY <2>1 DEF ReturnedIds, TInv, TypeOK, Row
<1>4. RowOf(id, o, ch, Emb(c), Tok(c)) \in Row
  BY <1>1, <1>3, NextChunk, RowOfType
<1>5. Append(ids[c], id) \in Seq(Nat)
  BY <1>3 DEF TInv, TypeOK
<1>6. TypeOK'
  BY <1>1, <1>2, <1>3, <1>4, <1>5 DEF TInv, TypeOK
<1>7. PcInv'
  BY <1>1 DEF TInv, PcInv, Req
<1>8. FinInv'
  <2>1. IsFiniteSet({row \in written[c] : row.id # id} \cup
                    {RowOf(id, o, ch, Emb(c), Tok(c))})
    <3>1. IsFiniteSet({row \in written[c] : row.id # id})
      BY FS_Subset DEF TInv, FinInv
    <3>. QED
      BY <3>1, FS_AddElement
  <2>. QED
    BY <1>1, <1>2, <2>1 DEF TInv, TypeOK, FinInv
<1>. QED
  BY <1>6, <1>7, <1>8 DEF TInv

\* What COMMIT installs is a finite set of rows, and so is what it removes.
LEMMA CommitRowsType ==
  ASSUME TInv, NEW c \in Calls
  PROVE  /\ CommitRows(c) \subseteq Row
         /\ IsFiniteSet(CommitRows(c))
         /\ RowsAffected(c) \in Nat
<1>1. CommitRows(c) \subseteq Row
  BY DEF CommitRows, TInv, TypeOK
<1>2. IsFiniteSet({row \in rows : row.id \notin locked[c]})
  BY FS_Subset DEF TInv, FinInv
<1>3. IsFiniteSet(CommitRows(c))
  BY <1>2, FS_Union DEF CommitRows, TInv, FinInv
<1>4. IsFiniteSet(rows \ CommitRows(c))
  BY FS_Subset DEF TInv, FinInv
<1>. QED
  BY <1>1, <1>3, <1>4, FS_CardinalityType DEF RowsAffected

LEMMA CommitTInv ==
  ASSUME TInv, NEW c \in Calls, CommitPut(c) \/ CommitDelete(c)
  PROVE  TInv'
<1>1. PICK a \in Answer : AnswerWith(c, a)
  <2>1. Say("lost") \in Answer
    BY SayType
  <2>2. [status |-> "ok", ids |-> ids[c], count |-> Len(ids[c])] \in Answer
    BY DEF TInv, TypeOK, Answer
  <2>3. [status |-> "ok", ids |-> <<>>, count |-> RowsAffected(c)] \in Answer
    BY CommitRowsType DEF Answer
  <2>. QED
    BY <2>1, <2>2, <2>3 DEF CommitPut, CommitDelete
<1>2. /\ pc[c] \in {"insert", "delete"}
      /\ rows' = CommitRows(c)
      /\ EndTx(c)
      /\ UNCHANGED <<nextId, job, hits>>
  BY DEF CommitPut, CommitDelete
<1>3. TypeOK'
  BY <1>1, <1>2, CommitRowsType DEF TInv, TypeOK, AnswerWith, EndTx, PCs
<1>4. PcInv'
  BY <1>1, <1>2 DEF TInv, TypeOK, PcInv, AnswerWith, Req
<1>5. FinInv'
  BY <1>2, CommitRowsType, FS_EmptySet DEF TInv, TypeOK, FinInv, EndTx
<1>. QED
  BY <1>3, <1>4, <1>5 DEF TInv

LEMMA DeleteRowTInv ==
  ASSUME TInv, NEW c \in Calls, DeleteRow(c)
  PROVE  TInv'
<1>1. PICK row \in Unvisited(c) :
        /\ locked' = [locked EXCEPT ![c] = @ \cup {row.id}]
        /\ IF StillMatches(c, row)
           THEN UNCHANGED written
           ELSE written' = [written EXCEPT ![c] = @ \cup {row}]
  BY DEF DeleteRow
<1>2. row \in Row /\ row.id \in Nat
  BY DEF Unvisited, TInv, TypeOK, Row
<1>3. UNCHANGED <<rows, nextId, pc, job, ids, seen, ans, hits>>
  BY DEF DeleteRow
<1>4. locked' \in [Calls -> SUBSET Nat]
  BY <1>1, <1>2 DEF TInv, TypeOK
<1>5. /\ written' \in [Calls -> SUBSET Row]
      /\ \A d \in Calls : IsFiniteSet(written'[d])
  <2>1. CASE written' = written
    BY <2>1 DEF TInv, TypeOK, FinInv
  <2>2. CASE written' = [written EXCEPT ![c] = @ \cup {row}]
    <3>1. IsFiniteSet(written[c] \cup {row})
      BY FS_AddElement DEF TInv, FinInv
    <3>. QED
      BY <1>2, <2>2, <3>1 DEF TInv, TypeOK, FinInv
  <2>. QED
    BY <1>1, <2>1, <2>2
<1>6. TypeOK'
  BY <1>3, <1>4, <1>5 DEF TInv, TypeOK
<1>7. PcInv'
  BY <1>3 DEF TInv, PcInv, Req
<1>8. FinInv'
  BY <1>3, <1>5 DEF TInv, FinInv
<1>. QED
  BY <1>6, <1>7, <1>8 DEF TInv

LEMMA ScanTInv ==
  ASSUME TInv, NEW c \in Calls, ScanRows(c)
  PROVE  TInv'
  BY DEF TInv, TypeOK, PcInv, FinInv, ScanRows, PCs, Req, Row

LEMMA QueryTInv ==
  ASSUME TInv, NEW c \in Calls, QueryRows(c)
  PROVE  TInv'
<1>1. Say("ok") \in Answer
  BY SayType
<1>2. PICK top \in SUBSET rows : hits' = [hits EXCEPT ![c] = top]
  BY DEF QueryRows
<1>. QED
  BY <1>1, <1>2
  DEF TInv, TypeOK, PcInv, FinInv, QueryRows, AnswerWith, PCs, Req

LEMMA AdvanceTInv ==
  ASSUME TInv, NEW c \in Calls, Advance(c)
  PROVE  TInv'
  BY DEF TInv, TypeOK, PcInv, FinInv, Advance, PCs, Req

LEMMA NextTInv == TInv /\ [Next]_vars => TInv'
<1>. SUFFICES ASSUME TInv, [Next]_vars PROVE TInv'
  OBVIOUS
<1>1. CASE UNCHANGED vars
  BY <1>1 DEF vars, TInv, TypeOK, PcInv, FinInv, Req
<1>2. ASSUME NEW c \in Calls, Receive(c) \/ Progress(c) \/ StatementFails(c)
      PROVE  TInv'
  <2>1. Kinds(c)
    BY <1>2, StepKinds
  <2>2. CASE AbortWith(c)
    BY <2>2, AbortTInv DEF AbortWith
  <2>. QED
    BY <2>1, <2>2, ReceiveTInv, AdvanceTInv, InsertTInv, CommitTInv, ScanTInv,
       DeleteRowTInv, QueryTInv DEF Kinds
<1>. QED
  BY <1>1, <1>2 DEF Next

LEMMA TInvHolds == Spec => []TInv
  BY InitTInv, NextTInv, PTL DEF Spec

\* The variables of PgStore keep their types, and a bulk delete never answers a
\* count that is not one, whatever fails and in whatever order handlers run.
THEOREM TypeCorrect == Spec => []TypeOK
  BY TInvHolds, PTL DEF TInv

-----------------------------------------------------------------------------
(* Ids and external ids are unique.                                        *)

\* Two row versions stand for the same chunk.
Collide(v, w) == v.id = w.id \/ SameKey(w, v.org, v.ext)

\* The sequence is ahead of every id in use.
IdsBehind ==
  /\ \A row \in rows : row.id < nextId
  /\ \A c \in Calls :
       /\ \A v \in written[c] : v.id < nextId
       /\ \A id \in locked[c] : id < nextId

\* A transaction writes a chunk at most once, and no other one writes it too.
WritesApart ==
  \A c, d \in Calls : \A v \in written[c], w \in written[d] :
    Collide(v, w) => c = d /\ v = w

\* No two transactions hold the same row, nor one a row the other has inserted.
LocksApart ==
  \A c, d \in Calls : c # d =>
    /\ locked[c] \cap locked[d] = {}
    /\ \A v \in written[c] : v.id \notin locked[d]

\* A version that collides with a committed row replaces it: it has its id and
\* its key, and its transaction holds the lock.
WritesHoldRows ==
  \A c \in Calls : \A v \in written[c], row \in rows :
    Collide(v, row) =>
      /\ row.id = v.id /\ row.org = v.org /\ row.ext = v.ext
      /\ row.id \in locked[c]

KeyInv == UniqueKeys /\ IdsBehind /\ WritesApart /\ LocksApart /\ WritesHoldRows

LEMMA CollideSymmetric ==
  ASSUME NEW v \in Row, NEW w \in Row
  PROVE  Collide(v, w) <=> Collide(w, v)
  BY DEF Collide, SameKey

LEMMA InitKeyInv == Init => KeyInv
  BY DEF Init, KeyInv, UniqueKeys, IdsBehind, WritesApart, LocksApart, WritesHoldRows

\* A step that leaves the table, the sequence and the transactions alone.
LEMMA IdleKeyInv ==
  ASSUME KeyInv, UNCHANGED <<rows, nextId, written, locked>>
  PROVE  KeyInv'
  BY DEF KeyInv, UniqueKeys, IdsBehind, WritesApart, LocksApart, WritesHoldRows

LEMMA AbortKeyInv ==
  ASSUME TInv, KeyInv, NEW c \in Calls, NEW s \in Errors, Abort(c, s)
  PROVE  KeyInv'
  BY DEF TInv, TypeOK, KeyInv, UniqueKeys, IdsBehind, WritesApart, LocksApart,
         WritesHoldRows, Abort, EndTx

\* What an INSERT may assume of the versions its key collides with.
LEMMA StoredFacts ==
  ASSUME TInv, KeyInv, NEW c \in Calls, NEW o, NEW ext,
         KeyHolders(c, o, ext) = {},
         NEW e \in Stored(c, o, ext)
  PROVE  /\ \A f \in Stored(c, o, ext) : f.id = e.id
         /\ e.org = o /\ e.ext = ext /\ e.id < nextId /\ e.id \in Nat
         /\ \A d \in Calls \ {c} :
              /\ e.id \notin locked[d]
              /\ \A w \in written[d] : w.id # e.id /\ ~SameKey(w, o, ext)
         /\ \A row \in rows : row.id = e.id => row.org = o /\ row.ext = ext
<1>1. e \in Row /\ e.id \in Nat /\ SameKey(e, o, ext)
  BY DEF Stored, TInv, TypeOK, Row
<1>2. e.org = o /\ e.ext = ext
  BY <1>1 DEF SameKey
<1>3. e.id < nextId
  BY DEF Stored, KeyInv, IdsBehind
<1>4. ASSUME NEW f \in Stored(c, o, ext) PROVE f.id = e.id
  <2>1. SameKey(f, o, ext) /\ Collide(f, e) /\ Collide(e, f)
    BY <1>1, <1>2 DEF Stored, Collide, SameKey
  <2>. QED
    BY <2>1 DEF Stored, KeyInv, UniqueKeys, WritesApart, WritesHoldRows, Collide
<1>5. ASSUME NEW d \in Calls \ {c}
      PROVE  /\ e.id \notin locked[d]
             /\ \A w \in written[d] : w.id # e.id /\ ~SameKey(w, o, ext)
  <2>1. /\ \A w \in written[d] : ~SameKey(w, o, ext)
        /\ \A row \in rows : SameKey(row, o, ext) => row.id \notin locked[d]
    BY DEF KeyHolders
  <2>2. e.id \notin locked[d]
    BY <1>1, <2>1 DEF Stored, KeyInv, LocksApart
  <2>3. ASSUME NEW w \in written[d], w.id = e.id PROVE FALSE
    <3>1. Collide(w, e) /\ Collide(e, w)
      BY <2>3 DEF Collide
    <3>2. CASE e \in rows
      BY <3>1, <3>2, <2>2 DEF KeyInv, WritesHoldRows
    <3>3. CASE e \in written[c]
      BY <3>1, <3>3 DEF KeyInv, WritesApart
    <3>. QED
      BY <3>2, <3>3 DEF Stored
  <2>. QED
    BY <2>1, <2>2, <2>3
<1>6. ASSUME NEW row \in rows, row.id = e.id PROVE row.org = o /\ row.ext = ext
  <2>1. CASE e \in rows
    BY <1>2, <1>6, <2>1 DEF KeyInv, UniqueKeys
  <2>2. CASE e \in written[c]
    BY <1>2, <1>6, <2>2 DEF KeyInv, WritesHoldRows, Collide
  <2>. QED
    BY <2>1, <2>2 DEF Stored
<1>. QED
  BY <1>1, <1>2, <1>3, <1>4, <1>5, <1>6

LEMMA InsertKeyInv ==
  ASSUME TInv, KeyInv, NEW c \in Calls, InsertChunk(c)
  PROVE  KeyInv'
<1>. DEFINE ch  == Batch(c)[Len(ids[c]) + 1]
            o   == Req(c).org
            old == Stored(c, o, ch.ext)
<1>1. /\ KeyHolders(c, o, ch.ext) = {}
      /\ nextId' = nextId + 1
      /\ nextId \in Nat
      /\ UNCHANGED rows
  BY DEF InsertChunk, TInv, TypeOK
<1>2. PICK id \in ReturnedIds(old) :
        /\ written' = [written EXCEPT ![c] =
                         {row \in @ : row.id # id} \cup
                         {RowOf(id, o, ch, Emb(c), Tok(c))}]
        /\ locked' = [locked EXCEPT ![c] = IF old = {} THEN @ ELSE @ \cup {id}]
  BY DEF InsertChunk
<1>. DEFINE v == RowOf(id, o, ch, Emb(c), Tok(c))
<1>3. v.id = id /\ v.org = o /\ v.ext = ch.ext
  BY DEF RowOf
<1>4. /\ id \in Nat /\ id < nextId'
      /\ \A d \in Calls \ {c} :
           /\ id \notin locked[d]
           /\ \A w \in written[d] : w.id # id /\ ~SameKey(w, o, ch.ext)
      /\ \A row \in rows :
           Collide(v, row) => /\ row.id = id /\ row.org = o /\ row.ext = ch.ext
                              /\ old # {}
      /\ \A w \in written[c] : Collide(v, w) => w.id = id
  <2>1. CASE old = {}
    <3>1. id = nextId
      BY <1>2, <2>1 DEF ReturnedIds
    <3>2. \A d \in Calls :
            /\ id \notin locked[d]
            /\ \A w \in written[d] : w.id # id
      BY <3>1, <1>1 DEF KeyInv, IdsBehind
    <3>3. \A row \in rows : row.id # id
      BY <3>1, <1>1 DEF KeyInv, IdsBehind
    <3>4. \A d \in Calls \ {c} : \A w \in written[d] : ~SameKey(w, o, ch.ext)
      BY <1>1 DEF KeyHolders
    <3>5. \A row \in rows \cup written[c] : ~SameKey(row, o, ch.ext)
      BY <2>1 DEF Stored
    <3>. QED
      BY <1>1, <1>3, <3>1, <3>2, <3>3, <3>4, <3>5 DEF Collide
  <2>2. CASE old # {}
    <3>1. PICK e \in old : id = e.id
      BY <1>2, <2>2 DEF ReturnedIds
    <3>2. /\ \A f \in old : f.id = id
          /\ id < nextId /\ id \in Nat
          /\ \A d \in Calls \ {c} :
               /\ id \notin locked[d]
               /\ \A w \in written[d] : w.id # id /\ ~SameKey(w, o, ch.ext)
          /\ \A row \in rows : row.id = id => row.org = o /\ row.ext = ch.ext
      BY <1>1, <3>1, StoredFacts
    <3>3. \A row \in rows \cup written[c] : Collide(v, row) => row.id = id
      BY <1>3, <3>2 DEF Collide, Stored
    <3>. QED
      BY <1>1, <2>2, <3>2, <3>3
  <2>. QED
    BY <2>1, <2>2
<1>5. /\ written'[c] = {row \in written[c] : row.id # id} \cup {v}
      /\ \A d \in Calls \ {c} : written'[d] = written[d] /\ locked'[d] = locked[d]
      /\ locked'[c] = IF old = {} THEN locked[c] ELSE locked[c] \cup {id}
  BY <1>2 DEF TInv, TypeOK
<1>6. IdsBehind'
  <2>1. \A n \in Nat : n < nextId => n < nextId'
    BY <1>1
  <2>2. /\ \A row \in rows : row.id \in Nat
        /\ \A d \in Calls : /\ \A w \in written[d] : w.id \in Nat
                          /\ \A n \in locked[d] : n \in Nat
    BY DEF TInv, TypeOK, Row
  <2>3. \A row \in rows : row.id < nextId'
    BY <2>1, <2>2 DEF KeyInv, IdsBehind
  <2>4. \A d \in Calls : \A w \in written'[d] : w.id < nextId'
    BY <1>3, <1>4, <1>5, <2>1, <2>2 DEF KeyInv, IdsBehind
  <2>5. \A d \in Calls : \A n \in locked'[d] : n < nextId'
    BY <1>4, <1>5, <2>1, <2>2 DEF KeyInv, IdsBehind
  <2>. QED
    BY <1>1, <2>3, <2>4, <2>5 DEF IdsBehind
<1>7. WritesApart'
  <2>. SUFFICES ASSUME NEW a \in Calls, NEW b \in Calls,
                       NEW x \in written'[a], NEW y \in written'[b], Collide(x, y)
                PROVE  a = b /\ x = y
    BY DEF WritesApart, Collide, SameKey
  <2>1. CASE x = v /\ a = c /\ y = v /\ b = c
    BY <2>1
  <2>2. CASE x \in written[a] /\ y \in written[b]
    BY <2>2 DEF KeyInv, WritesApart
  <2>3. ASSUME NEW z, NEW d \in Calls, z \in written[d], d = c => z.id # id,
               Collide(v, z) \/ Collide(z, v)
        PROVE  FALSE
    <3>1. Collide(v, z)
      BY <2>3 DEF Collide, SameKey
    <3>. QED
      BY <1>3, <1>4, <2>3, <3>1 DEF Collide
  <2>4. /\ (x = v /\ a = c) \/ (x \in written[a] /\ (a = c => x.id # id))
        /\ (y = v /\ b = c) \/ (y \in written[b] /\ (b = c => y.id # id))
    BY <1>5
  <2>. QED
    BY <2>1, <2>2, <2>3, <2>4
<1>8. LocksApart'
  BY <1>3, <1>4, <1>5 DEF KeyInv, LocksApart
<1>9. WritesHoldRows'
  BY <1>1, <1>3, <1>4, <1>5 DEF KeyInv, WritesHoldRows, Collide, SameKey
<1>. QED
  BY <1>1, <1>6, <1>7, <1>8, <1>9 DEF KeyInv, UniqueKeys

LEMMA CommitKeyInv ==
  ASSUME TInv, KeyInv, NEW c \in Calls, CommitPut(c) \/ CommitDelete(c)
  PROVE  KeyInv'
<1>1. /\ rows' = {row \in rows : row.id \notin locked[c]} \cup written[c]
      /\ nextId' = nextId
      /\ written'[c] = {} /\ locked'[c] = {}
      /\ \A d \in Calls \ {c} : written'[d] = written[d] /\ locked'[d] = locked[d]
  BY DEF CommitPut, CommitDelete, CommitRows, EndTx, TInv, TypeOK
<1>2. UniqueKeys'
  <2>. SUFFICES ASSUME NEW x \in rows', NEW y \in rows', Collide(x, y)
                PROVE  x = y
    BY DEF UniqueKeys, Collide, SameKey
  <2>1. x \in Row /\ y \in Row /\ Collide(y, x)
    BY <1>1, CollideSymmetric DEF TInv, TypeOK
  <2>2. CASE x \in rows /\ y \in rows
    BY <2>2 DEF KeyInv, UniqueKeys, Collide
  <2>3. CASE x \in written[c] /\ y \in written[c]
    BY <2>3 DEF KeyInv, WritesApart
  <2>4. CASE x \in written[c] /\ y \in rows /\ y.id \notin locked[c]
    BY <2>4 DEF KeyInv, WritesHoldRows
  <2>5. CASE y \in written[c] /\ x \in rows /\ x.id \notin locked[c]
    BY <2>1, <2>5 DEF KeyInv, WritesHoldRows
  <2>. QED
    BY <1>1, <2>2, <2>3, <2>4, <2>5
<1>3. IdsBehind'
  BY <1>1 DEF KeyInv, IdsBehind
<1>4. WritesApart' /\ LocksApart'
  BY <1>1 DEF KeyInv, WritesApart, LocksApart
<1>5. WritesHoldRows'
  <2>. SUFFICES ASSUME NEW d \in Calls \ {c}, NEW w \in written[d], NEW row \in rows',
                       Collide(w, row)
                PROVE  /\ row.id = w.id /\ row.org = w.org /\ row.ext = w.ext
                       /\ row.id \in locked[d]
    BY <1>1 DEF WritesHoldRows, Collide, SameKey
  <2>1. CASE row \in rows
    BY <2>1 DEF KeyInv, WritesHoldRows
  <2>2. CASE row \in written[c]
    BY <2>2 DEF KeyInv, WritesApart
  <2>. QED
    BY <1>1, <2>1, <2>2
<1>. QED
  BY <1>2, <1>3, <1>4, <1>5 DEF KeyInv

LEMMA DeleteRowKeyInv ==
  ASSUME TInv, KeyInv, NEW c \in Calls, DeleteRow(c)
  PROVE  KeyInv'
<1>1. PICK row \in Unvisited(c) :
        /\ RowHolders(c, row.id) = {}
        /\ locked' = [locked EXCEPT ![c] = @ \cup {row.id}]
        /\ \/ UNCHANGED written
           \/ written' = [written EXCEPT ![c] = @ \cup {row}]
  BY DEF DeleteRow
<1>2. /\ row \in rows /\ row \in Row /\ row.id \notin locked[c] /\ row.id < nextId
      /\ UNCHANGED <<rows, nextId>>
  BY DEF Unvisited, DeleteRow, TInv, TypeOK, KeyInv, IdsBehind
<1>3. \A d \in Calls \ {c} : row.id \notin locked[d]
  BY <1>1 DEF RowHolders
<1>4. \A d \in Calls : \A w \in written[d] : ~Collide(w, row) /\ ~Collide(row, w)
  <2>. TAKE d \in Calls
  <2>. TAKE w \in written[d]
  <2>1. w \in Row
    BY DEF TInv, TypeOK
  <2>2. ~Collide(w, row)
    BY <1>2, <1>3 DEF KeyInv, WritesHoldRows
  <2>. QED
    BY <1>2, <2>1, <2>2, CollideSymmetric
<1>5. /\ locked'[c] = locked[c] \cup {row.id}
      /\ written'[c] \subseteq written[c] \cup {row}
      /\ \A d \in Calls \ {c} : written'[d] = written[d] /\ locked'[d] = locked[d]
  BY <1>1 DEF TInv, TypeOK
<1>6. IdsBehind'
  BY <1>2, <1>5 DEF KeyInv, IdsBehind
<1>7. WritesApart'
  BY <1>4, <1>5 DEF KeyInv, WritesApart, Collide, SameKey
<1>8. LocksApart'
  BY <1>3, <1>4, <1>5 DEF KeyInv, LocksApart, Collide
<1>9. WritesHoldRows'
  BY <1>2, <1>5 DEF KeyInv, WritesHoldRows, UniqueKeys, Collide, SameKey
<1>. QED
  BY <1>2, <1>6, <1>7, <1>8, <1>9 DEF KeyInv, UniqueKeys

LEMMA NextKeyInv == TInv /\ KeyInv /\ [Next]_vars => KeyInv'
<1>. SUFFICES ASSUME TInv, KeyInv, [Next]_vars PROVE KeyInv'
  OBVIOUS
<1>1. CASE UNCHANGED vars
  BY <1>1, IdleKeyInv DEF vars
<1>2. ASSUME NEW c \in Calls, Receive(c) \/ Progress(c) \/ StatementFails(c)
      PROVE  KeyInv'
  <2>1. Kinds(c)
    BY <1>2, StepKinds
  <2>2. CASE AbortWith(c)
    BY <2>2, AbortKeyInv DEF AbortWith
  <2>3. CASE Receive(c) \/ Advance(c) \/ ScanRows(c) \/ QueryRows(c)
    BY <2>3, IdleKeyInv DEF Receive, Advance, ScanRows, QueryRows
  <2>. QED
    BY <2>1, <2>2, <2>3, InsertKeyInv, CommitKeyInv, DeleteRowKeyInv DEF Kinds
<1>. QED
  BY <1>1, <1>2 DEF Next

LEMMA KeyInvHolds == Spec => []KeyInv
  BY InitKeyInv, NextKeyInv, TInvHolds, PTL DEF Spec

\* However many handlers write, wait for one another and fail, an id names one
\* row and an external id one row of its organisation.
THEOREM KeysUnique == Spec => []UniqueKeys
  BY KeyInvHolds, PTL DEF KeyInv

-----------------------------------------------------------------------------
(* Ids that callers were given.                                            *)

\* The ids of c's chunks that are known so far: to the transaction while it
\* runs, to the caller once it is answered.
Got(c) == IF pc[c] = "answered" THEN ans[c].ids ELSE ids[c]

Versions == rows \cup UNION {written[c] : c \in Calls}

\* Only Puts that passed the validation have ids, at most one per chunk.
GotInv ==
  \A c \in Calls :
    /\ pc[c] # "insert" => ids[c] = <<>>
    /\ pc[c] # "answered" => ans[c].ids = <<>>
    /\ pc[c] \in {"embed", "insert"} => Valid(Req(c))
    /\ Got(c) # <<>> => IsPut(Req(c)) /\ Valid(Req(c)) /\ Len(Got(c)) <= Len(Batch(c))

\* An id that is known belongs to every version stored under it.
NamesFit ==
  \A c \in Calls : \A i \in 1..Len(Got(c)) :
    /\ Got(c)[i] < nextId
    /\ \A v \in Versions : v.id = Got(c)[i] =>
         v.org = Req(c).org /\ v.ext = Batch(c)[i].ext

\* Two chunks that know the same id are submissions of the same external id.
NamesApart ==
  \A c, d \in Calls : \A i \in 1..Len(Got(c)), j \in 1..Len(Got(d)) :
    Got(c)[i] = Got(d)[j] =>
      \/ c = d /\ i = j
      \/ /\ c # d
         /\ Req(c).org = Req(d).org
         /\ Batch(c)[i].ext = Batch(d)[j].ext
         /\ Batch(c)[i].ext # NoExt

NameInv == GotInv /\ NamesFit /\ NamesApart

LEMMA InitNameInv == Init => NameInv
  BY DEF Init, NameInv, GotInv, NamesFit, NamesApart, Got, Say

\* A step that adds no version and teaches no call a new id.
LEMMA ShrinkNames ==
  ASSUME TInv, NameInv, nextId' = nextId,
         Versions' \subseteq Versions,
         \A d \in Calls : Got(d)' = <<>> \/ (Got(d)' = Got(d) /\ Req(d)' = Req(d)
                                            /\ Batch(d)' = Batch(d))
  PROVE  NamesFit' /\ NamesApart'
<1>1. \A d \in Calls : \A i \in 1..Len(Got(d)') :
        /\ i \in 1..Len(Got(d))
        /\ Got(d)' = Got(d) /\ Req(d)' = Req(d) /\ Batch(d)' = Batch(d)
  OBVIOUS
<1>2. NamesFit'
  BY <1>1 DEF NameInv, NamesFit
<1>3. NamesApart'
  BY <1>1 DEF NameInv, NamesApart
<1>. QED
  BY <1>2, <1>3

LEMMA AbortNameInv ==
  ASSUME TInv, NameInv, NEW c \in Calls, NEW s \in Errors, Abort(c, s)
  PROVE  NameInv'
<1>1. /\ pc'[c] = "answered" /\ ans'[c].ids = <<>> /\ ids'[c] = <<>>
      /\ written'[c] = {}
      /\ \A d \in Calls \ {c} : /\ pc'[d] = pc[d] /\ ans'[d] = ans[d] /\ ids'[d] = ids[d]
                              /\ written'[d] = written[d]
      /\ UNCHANGED <<rows, nextId, job>>
  BY DEF Abort, AnswerWith, EndTx, Say, TInv, TypeOK
<1>2. \A d \in Calls : Got(d)' = <<>> \/ (Got(d)' = Got(d) /\ Req(d)' = Req(d)
                                         /\ Batch(d)' = Batch(d))
  BY <1>1 DEF Got, Req, Batch
<1>3. Versions' \subseteq Versions
  BY <1>1 DEF Versions
<1>4. GotInv'
  BY <1>1 DEF NameInv, GotInv, Got, Req, Batch
<1>. QED
  BY <1>1, <1>2, <1>3, <1>4, ShrinkNames DEF NameInv

LEMMA ReceiveNameInv ==
  ASSUME TInv, NameInv, NEW c \in Calls, Receive(c)
  PROVE  NameInv'
<1>1. PICK p \in Procs, r \in Requests :
        /\ job' = [job EXCEPT ![c] = [made |-> TRUE, proc |-> p, req |-> r]]
        /\ IF Valid(r)
           THEN /\ pc' = [pc EXCEPT ![c] = IF IsPut(r) THEN "embed"
                                           ELSE IF IsDelete(r) THEN "scan"
                                           ELSE "check"]
                /\ UNCHANGED ans
           ELSE AnswerWith(c, Say("rejected"))
  BY DEF Receive
<1>2. /\ ids[c] = <<>> /\ ans[c].ids = <<>> /\ ans'[c].ids = <<>>
      /\ pc'[c] # "insert" /\ (pc'[c] = "embed" => Valid(r))
      /\ job'[c].req = r
      /\ \A d \in Calls \ {c} : pc'[d] = pc[d] /\ ans'[d] = ans[d] /\ job'[d] = job[d]
      /\ UNCHANGED <<rows, nextId, written, ids>>
  BY <1>1 DEF Receive, NameInv, GotInv, TInv, TypeOK, AnswerWith, Say
<1>3. \A d \in Calls : Got(d)' = <<>> \/ (Got(d)' = Got(d) /\ Req(d)' = Req(d)
                                         /\ Batch(d)' = Batch(d))
  BY <1>2 DEF Got, Req, Batch
<1>4. Versions' \subseteq Versions
  BY <1>2 DEF Versions
<1>5. GotInv'
  BY <1>2 DEF NameInv, GotInv, Got, Req, Batch
<1>. QED
  BY <1>2, <1>3, <1>4, <1>5, ShrinkNames DEF NameInv

LEMMA QuietNameInv ==
  ASSUME TInv, NameInv, NEW c \in Calls,
         Advance(c) \/ ScanRows(c) \/ DeleteRow(c) \/ QueryRows(c)
  PROVE  NameInv'
<1>1. /\ ids' = ids
      /\ pc[c] # "answered" /\ ans'[c].ids = <<>> /\ ans[c].ids = <<>>
      /\ pc'[c] \in {"insert", "query", "delete", "answered"}
      /\ pc'[c] = "insert" => pc[c] = "embed"
      /\ pc[c] # "insert"
      /\ \A d \in Calls \ {c} : pc'[d] = pc[d] /\ ans'[d] = ans[d]
      /\ UNCHANGED <<rows, nextId, job>>
  BY DEF Advance, ScanRows, DeleteRow, QueryRows, AnswerWith, Say, NameInv, GotInv,
         TInv, TypeOK
<1>2. \A d \in Calls : Got(d)' = <<>> \/ (Got(d)' = Got(d) /\ Req(d)' = Req(d)
                                         /\ Batch(d)' = Batch(d))
  BY <1>1 DEF Got, Req, Batch, NameInv, GotInv
<1>3. Versions' \subseteq Versions
  <2>1. CASE UNCHANGED written
    BY <1>1, <2>1 DEF Versions
  <2>2. CASE DeleteRow(c)
    <3>1. PICK row \in rows :
            UNCHANGED written \/ written' = [written EXCEPT ![c] = @ \cup {row}]
      BY <2>2 DEF DeleteRow, Unvisited
    <3>2. \A d \in Calls : written'[d] \subseteq written[d] \cup rows
      BY <3>1 DEF TInv, TypeOK
    <3>. QED
      BY <1>1, <3>2 DEF Versions
  <2>. QED
    BY <2>1, <2>2 DEF Advance, ScanRows, QueryRows
<1>4. GotInv'
  BY <1>1 DEF NameInv, GotInv, Got, Req, Batch
<1>. QED
  BY <1>1, <1>2, <1>3, <1>4, ShrinkNames DEF NameInv

LEMMA CommitNameInv ==
  ASSUME TInv, NameInv, NEW c \in Calls, CommitPut(c) \/ CommitDelete(c)
  PROVE  NameInv'
<1>1. /\ pc[c] \in {"insert", "delete"} /\ pc'[c] = "answered" /\ ids'[c] = <<>>
      /\ ans'[c].ids = <<>> \/ ans'[c].ids = ids[c]
      /\ rows' \subseteq rows \cup written[c] /\ written'[c] = {}
      /\ \A d \in Calls \ {c} : /\ pc'[d] = pc[d] /\ ans'[d] = ans[d] /\ ids'[d] = ids[d]
                              /\ written'[d] = written[d]
      /\ UNCHANGED <<nextId, job>>
  <2>1. CASE CommitPut(c)
    BY <2>1 DEF CommitPut, CommitRows, EndTx, AnswerWith, Say, TInv, TypeOK
  <2>2. CASE CommitDelete(c)
    BY <2>2 DEF CommitDelete, CommitRows, EndTx, AnswerWith, Say, TInv, TypeOK
  <2>. QED
    BY <2>1, <2>2
<1>2. \A d \in Calls : Got(d)' = <<>> \/ (Got(d)' = Got(d) /\ Req(d)' = Req(d)
                                         /\ Batch(d)' = Batch(d))
  BY <1>1 DEF Got, Req, Batch
<1>3. Versions' \subseteq Versions
  BY <1>1 DEF Versions
<1>4. GotInv'
  BY <1>1, <1>2 DEF NameInv, GotInv, Got, Req, Batch
<1>. QED
  BY <1>1, <1>2, <1>3, <1>4, ShrinkNames DEF NameInv

LEMMA Apart ==
  ASSUME NameInv, NEW a \in Calls, NEW b \in Calls,
         NEW i \in 1..Len(Got(a)), NEW j \in 1..Len(Got(b)), Got(a)[i] = Got(b)[j]
  PROVE  \/ a = b /\ i = j
         \/ /\ a # b
            /\ Req(a).org = Req(b).org
            /\ Batch(a)[i].ext = Batch(b)[j].ext
            /\ Batch(a)[i].ext # NoExt
  BY DEF NameInv, NamesApart

LEMMA InsertNameInv ==
  ASSUME TInv, KeyInv, NameInv, NEW c \in Calls, InsertChunk(c)
  PROVE  NameInv'
<1>. DEFINE k   == Len(ids[c]) + 1
            ch  == Batch(c)[k]
            o   == Req(c).org
            old == Stored(c, o, ch.ext)
<1>1. /\ pc[c] = "insert" /\ Len(ids[c]) < Len(Batch(c))
      /\ KeyHolders(c, o, ch.ext) = {}
      /\ nextId' = nextId + 1
      /\ UNCHANGED <<rows, pc, job, seen, ans, hits>>
  BY DEF InsertChunk
<1>2. PICK id \in ReturnedIds(old) :
        /\ ids' = [ids EXCEPT ![c] = Append(@, id)]
        /\ written' = [written EXCEPT ![c] =
                         {row \in @ : row.id # id} \cup
                         {RowOf(id, o, ch, Emb(c), Tok(c))}]
  BY DEF InsertChunk
<1>. DEFINE v == RowOf(id, o, ch, Emb(c), Tok(c))
<1>3. v.id = id /\ v.org = o /\ v.ext = ch.ext
  BY DEF RowOf
<1>4. /\ ids[c] \in Seq(Nat) /\ Len(ids[c]) \in Nat /\ nextId \in Nat
      /\ Batch(c) \in Seq(ChunkInput) /\ k \in 1..Len(Batch(c))
      /\ \A row \in rows \cup written[c] : row.id \in Nat
      /\ \A d \in Calls : \A i \in 1..Len(Got(d)) : Got(d)[i] \in Nat
  <2>1. \A d \in Calls : ids[d] \in Seq(Nat) /\ ans[d] \in Answer
    BY DEF TInv, TypeOK
  <2>2. \A d \in Calls : Got(d) \in Seq(Nat)
    BY <2>1 DEF Got, Answer
  <2>3. \A row \in rows \cup written[c] : row.id \in Nat
    BY DEF TInv, TypeOK, Row
  <2>4. nextId \in Nat
    BY DEF TInv, TypeOK
  <2>5. Batch(c) \in Seq(ChunkInput) /\ k \in 1..Len(Batch(c))
    BY <1>1, NextChunk
  <2>. QED
    BY <2>1, <2>2, <2>3, <2>4, <2>5
<1>5. Got(c) = ids[c] /\ IsPut(Req(c)) /\ Valid(Req(c))
  BY <1>1 DEF NameInv, GotInv, Got, TInv, PcInv
<1>6. /\ id \in Nat /\ id < nextId'
      /\ \A d \in Calls \ {c} : \A w \in written[d] : w.id # id
      /\ \A row \in rows : row.id = id => row.org = o /\ row.ext = ch.ext
  <2>1. CASE old = {}
    BY <1>1, <1>2, <1>4, <2>1 DEF ReturnedIds, KeyInv, IdsBehind
  <2>2. CASE old # {}
    <3>1. PICK e \in old : id = e.id
      BY <1>2, <2>2 DEF ReturnedIds
    <3>. QED
      BY <1>1, <1>4, <3>1, StoredFacts
  <2>. QED
    BY <2>1, <2>2
<1>7. ASSUME NEW d \in Calls, NEW j \in 1..Len(Got(d)), Got(d)[j] = id
      PROVE  /\ d # c
             /\ Req(d).org = o /\ Batch(d)[j].ext = ch.ext /\ ch.ext # NoExt
  <2>1. id < nextId
    BY <1>7 DEF NameInv, NamesFit
  <2>2. old # {}
    BY <1>2, <1>4, <2>1 DEF ReturnedIds
  <2>3. PICK e \in old : id = e.id
    BY <1>2, <2>2 DEF ReturnedIds
  <2>4. e \in Versions /\ SameKey(e, o, ch.ext)
    BY <2>3 DEF Stored, Versions
  <2>5. Req(d).org = o /\ Batch(d)[j].ext = ch.ext /\ ch.ext # NoExt
    BY <1>7, <2>3, <2>4 DEF NameInv, NamesFit, SameKey
  <2>6. CASE d = c
    <3>1. ExternalIDsAreDistinct(Batch(c))
      BY <1>5 DEF Valid, ValidBatch, IsPut, IsDelete, IsSearch, Req, Batch
    <3>2. j \in 1..Len(Batch(c)) /\ j # k
      BY <1>1, <1>4, <1>5, <2>6
    <3>. QED
      BY <1>4, <2>5, <2>6, <3>1, <3>2 DEF ExternalIDsAreDistinct
  <2>. QED
    BY <2>5, <2>6
<1>8. /\ Got(c)' = Append(ids[c], id)
      /\ \A d \in Calls \ {c} : Got(d)' = Got(d)
      /\ \A d \in Calls : Req(d)' = Req(d) /\ Batch(d)' = Batch(d)
  BY <1>1, <1>2 DEF Got, Req, Batch, TInv, TypeOK
<1>9. /\ Len(Got(c)') = k /\ Got(c)'[k] = id
      /\ \A i \in 1..Len(Got(c)') : i # k => i \in 1..Len(Got(c)) /\ Got(c)'[i] = Got(c)[i]
  BY <1>4, <1>5, <1>6, <1>8
<1>10. /\ written'[c] = {row \in written[c] : row.id # id} \cup {v}
       /\ \A d \in Calls \ {c} : written'[d] = written[d]
  BY <1>2 DEF TInv, TypeOK
<1>11. \A row \in Versions' :
         /\ row = v \/ row \in Versions
         /\ row.id = id => row.org = o /\ row.ext = ch.ext
  BY <1>1, <1>3, <1>6, <1>10 DEF Versions
<1>12. \A d \in Calls : \A i \in 1..Len(Got(d)') :
         \/ d = c /\ i = k /\ Got(d)'[i] = id
         \/ i \in 1..Len(Got(d)) /\ Got(d)'[i] = Got(d)[i]
  BY <1>8, <1>9
<1>13. GotInv'
  BY <1>1, <1>2, <1>4, <1>5, <1>8, <1>9 DEF NameInv, GotInv, TInv, TypeOK
<1>14. NamesFit'
  <2>. SUFFICES ASSUME NEW d \in Calls, NEW i \in 1..Len(Got(d)')
                PROVE  /\ Got(d)'[i] < nextId'
                       /\ \A row \in Versions' : row.id = Got(d)'[i] =>
                            row.org = Req(d).org /\ row.ext = Batch(d)[i].ext
    BY <1>8 DEF NamesFit
  <2>1. CASE d = c /\ i = k /\ Got(d)'[i] = id
    BY <1>6, <1>11, <2>1
  <2>2. CASE i \in 1..Len(Got(d)) /\ Got(d)'[i] = Got(d)[i]
    <3>1. Got(d)[i] < nextId'
      BY <1>1, <1>4, <2>2 DEF NameInv, NamesFit
    <3>2. ASSUME NEW row \in Versions', row.id = Got(d)[i]
          PROVE  row.org = Req(d).org /\ row.ext = Batch(d)[i].ext
      <4>1. CASE row \in Versions
        BY <2>2, <3>2, <4>1 DEF NameInv, NamesFit
      <4>2. CASE row = v
        BY <1>3, <1>7, <2>2, <3>2, <4>2
      <4>. QED
        BY <1>11, <4>1, <4>2
    <3>. QED
      BY <2>2, <3>1, <3>2
  <2>. QED
    BY <1>12, <2>1, <2>2
<1>15. NamesApart'
  <2>. SUFFICES ASSUME NEW a \in Calls, NEW b \in Calls,
                       NEW i \in 1..Len(Got(a)'), NEW j \in 1..Len(Got(b)'),
                       Got(a)'[i] = Got(b)'[j]
                PROVE  \/ a = b /\ i = j
                       \/ /\ a # b
                          /\ Req(a).org = Req(b).org
                          /\ Batch(a)[i].ext = Batch(b)[j].ext
                          /\ Batch(a)[i].ext # NoExt
    BY <1>8 DEF NamesApart
  <2>1. CASE a = c /\ i = k /\ Got(a)'[i] = id
    <3>1. CASE b = c /\ j = k
      BY <2>1, <3>1
    <3>2. CASE j \in 1..Len(Got(b)) /\ Got(b)'[j] = Got(b)[j]
      BY <1>7, <2>1, <3>2
    <3>. QED
      BY <1>12, <3>1, <3>2
  <2>2. CASE i \in 1..Len(Got(a)) /\ Got(a)'[i] = Got(a)[i]
    <3>1. CASE b = c /\ j = k /\ Got(b)'[j] = id
      BY <1>7, <2>2, <3>1
    <3>2. CASE j \in 1..Len(Got(b)) /\ Got(b)'[j] = Got(b)[j]
      <4>1. Got(a)[i] = Got(b)[j]
        BY <2>2, <3>2
      <4>. QED
        BY <2>2, <3>2, <4>1, Apart
    <3>. QED
      BY <1>12, <3>1, <3>2
  <2>. QED
    BY <1>12, <2>1, <2>2
<1>. QED
  BY <1>13, <1>14, <1>15 DEF NameInv

LEMMA NextNameInv == TInv /\ KeyInv /\ NameInv /\ [Next]_vars => NameInv'
<1>. SUFFICES ASSUME TInv, KeyInv, NameInv, [Next]_vars PROVE NameInv'
  OBVIOUS
<1>1. CASE UNCHANGED vars
  BY <1>1 DEF vars, NameInv, GotInv, NamesFit, NamesApart, Got, Versions, Req, Batch
<1>2. ASSUME NEW c \in Calls, Receive(c) \/ Progress(c) \/ StatementFails(c)
      PROVE  NameInv'
  <2>1. Kinds(c)
    BY <1>2, StepKinds
  <2>2. CASE AbortWith(c)
    BY <2>2, AbortNameInv DEF AbortWith
  <2>. QED
    BY <2>1, <2>2, ReceiveNameInv, QuietNameInv, InsertNameInv, CommitNameInv DEF Kinds
<1>. QED
  BY <1>1, <1>2 DEF Next

LEMMA NamesAnswered ==
  ASSUME NameInv
  PROVE  IdNamesOneChunk
<1>1. \A c \in Calls : ans[c].ids = Got(c) \/ ans[c].ids = <<>>
  BY DEF NameInv, GotInv, Got
<1>2. \A c \in Calls : \A i \in 1..Len(ans[c].ids) :
        i \in 1..Len(Got(c)) /\ ans[c].ids[i] = Got(c)[i]
  BY <1>1
<1>3. ASSUME NEW c \in Calls, NEW d \in Calls,
             NEW i \in 1..Len(ans[c].ids), NEW j \in 1..Len(ans[d].ids),
             ans[c].ids[i] = ans[d].ids[j]
      PROVE  \/ c = d /\ i = j
             \/ /\ c # d
                /\ Req(c).org = Req(d).org
                /\ Batch(c)[i].ext = Batch(d)[j].ext
                /\ Batch(c)[i].ext # NoExt
  <2>1. /\ i \in 1..Len(Got(c)) /\ j \in 1..Len(Got(d))
        /\ Got(c)[i] = Got(d)[j]
    BY <1>2, <1>3
  <2>. QED
    BY <2>1, Apart
<1>4. ASSUME NEW c \in Calls, NEW i \in 1..Len(ans[c].ids), NEW row \in rows,
             row.id = ans[c].ids[i]
      PROVE  row.org = Req(c).org /\ row.ext = Batch(c)[i].ext
  <2>1. i \in 1..Len(Got(c)) /\ row.id = Got(c)[i] /\ row \in Versions
    BY <1>2, <1>4 DEF Versions
  <2>. QED
    BY <2>1 DEF NameInv, NamesFit
<1>. QED
  BY <1>3, <1>4 DEF IdNamesOneChunk

\* An id a Put has answered names that chunk for good: ids are never used for a
\* second chunk, neither after a delete nor by a Put that failed half-way.
THEOREM IdsNameOneChunk == Spec => []IdNamesOneChunk
<1>1. Spec => []NameInv
  BY InitNameInv, NextNameInv, TInvHolds, KeyInvHolds, PTL DEF Spec
<1>. QED
  BY <1>1, NamesAnswered, PTL


-----------------------------------------------------------------------------
(* What a transaction has done so far, and what its COMMIT will make of it. *)

\* The version that c's transaction has written for chunk i of its batch.
NewRow(c, i) == RowOf(ids[c][i], Req(c).org, Batch(c)[i], Emb(c), Tok(c))

\* Chunk i replaces a committed row, which the transaction holds ...
Replaces(c, i) ==
  /\ ids[c][i] \in locked[c]
  /\ \E row \in rows : SameKey(row, Req(c).org, Batch(c)[i].ext) /\ row.id = ids[c][i]

\* ... or it is new, under an id that nobody has seen.
Adds(c, i) ==
  /\ ids[c][i] \notin locked[c]
  /\ \A row \in rows : row.id # ids[c][i] /\ ~SameKey(row, Req(c).org, Batch(c)[i].ext)
  /\ \A d \in Calls : \A j \in 1..Len(ans[d].ids) : ans[d].ids[j] # ids[c][i]

PutTx(c) ==
  LET n == Len(ids[c])
  IN  /\ n <= Len(Batch(c))
      /\ \A i, j \in 1..n : ids[c][i] = ids[c][j] => i = j
      /\ written[c] = {NewRow(c, i) : i \in 1..n}
      /\ \A id \in locked[c] : \E i \in 1..n : id = ids[c][i]
      /\ \A i \in 1..n : Replaces(c, i) \/ Adds(c, i)

\* A DELETE puts the rows back that it holds and that match no more.
DeleteTx(c) ==
  /\ locked[c] \subseteq seen[c]
  /\ written[c] = {row \in rows : row.id \in locked[c] /\ ~DeleteMatches(Req(c), row)}

TxInv ==
  \A c \in Calls :
    /\ pc[c] = "insert" => PutTx(c)
    /\ pc[c] = "delete" => DeleteTx(c)
    /\ pc[c] \notin {"insert", "delete"} => written[c] = {} /\ locked[c] = {}

\* A call that runs was valid and has no answer; only searches have hits.
CallInv ==
  \A c \in Calls :
    /\ pc[c] # "answered" => ans[c] = Say("none") /\ hits[c] = {}
    /\ pc[c] \notin {"new", "answered"} => Valid(Req(c))
    /\ \A row \in hits[c] : row.org = Req(c).org

NoDeletes == \A c \in Calls : job[c] # NoJob => ~IsDelete(Req(c))

\* While nobody deletes, an answered id goes on naming the row of its chunk.
KeptInv ==
  NoDeletes =>
    \A c \in Calls : \A i \in 1..Len(ans[c].ids) :
      Batch(c)[i].ext # NoExt =>
        \E row \in rows : /\ SameKey(row, Req(c).org, Batch(c)[i].ext)
                          /\ row.id = ans[c].ids[i]

TxsInv == TxInv /\ CallInv /\ KeptInv


OthersStay(c) ==
  \A d \in Calls \ {c} :
    /\ pc'[d] = pc[d] /\ job'[d] = job[d] /\ written'[d] = written[d]
    /\ locked'[d] = locked[d] /\ ids'[d] = ids[d] /\ seen'[d] = seen[d]
    /\ ans'[d] = ans[d] /\ hits'[d] = hits[d]

LEMMA OthersAreLeft ==
  ASSUME TInv, NEW c \in Calls, Kinds(c)
  PROVE  OthersStay(c)
<1>1. CASE Receive(c)
  BY <1>1 DEF Receive, AnswerWith, OthersStay, TInv, TypeOK
<1>2. CASE AbortWith(c)
  BY <1>2 DEF AbortWith, Abort, AnswerWith, EndTx, OthersStay, TInv, TypeOK
<1>3. CASE Advance(c)
  BY <1>3 DEF Advance, OthersStay, TInv, TypeOK
<1>4. CASE InsertChunk(c)
  BY <1>4 DEF InsertChunk, OthersStay, TInv, TypeOK
<1>5. CASE CommitPut(c)
  BY <1>5 DEF CommitPut, AnswerWith, EndTx, OthersStay, TInv, TypeOK
<1>6. CASE ScanRows(c)
  BY <1>6 DEF ScanRows, OthersStay, TInv, TypeOK
<1>7. CASE DeleteRow(c)
  BY <1>7 DEF DeleteRow, OthersStay, TInv, TypeOK
<1>8. CASE CommitDelete(c)
  BY <1>8 DEF CommitDelete, AnswerWith, EndTx, OthersStay, TInv, TypeOK
<1>9. CASE QueryRows(c)
  BY <1>9 DEF QueryRows, AnswerWith, OthersStay, TInv, TypeOK
<1>. QED
  BY <1>1, <1>2, <1>3, <1>4, <1>5, <1>6, <1>7, <1>8, <1>9 DEF Kinds

\* What a step does to the table and to the answers as other calls see them.
LEMMA StepShows ==
  ASSUME TInv, NEW c \in Calls, Kinds(c)
  PROVE  /\ \/ rows' = rows
            \/ pc[c] \in {"insert", "delete"} /\ rows' = CommitRows(c)
         /\ \/ ans'[c].ids = <<>>
            \/ ans'[c] = ans[c]
            \/ pc[c] = "insert" /\ ans'[c].ids = ids[c]
<1>1. CASE Receive(c) \/ Advance(c) \/ InsertChunk(c) \/ ScanRows(c) \/ DeleteRow(c)
           \/ QueryRows(c) \/ AbortWith(c)
  BY <1>1 DEF Receive, Advance, InsertChunk, ScanRows, DeleteRow, QueryRows, AbortWith,
              Abort, AnswerWith, Say, TInv, TypeOK
<1>2. CASE CommitPut(c)
  BY <1>2 DEF CommitPut, AnswerWith, Say, TInv, TypeOK
<1>3. CASE CommitDelete(c)
  BY <1>3 DEF CommitDelete, AnswerWith, Say, TInv, TypeOK
<1>. QED
  BY <1>1, <1>2, <1>3 DEF Kinds

LEMMA InitTxsInv == Init => TxsInv
<1>1. Init => TxInv /\ CallInv
  BY DEF Init, TxInv, CallInv
<1>2. Init => KeptInv
  BY DEF Init, KeptInv, Say
<1>. QED
  BY <1>1, <1>2 DEF TxsInv

\* A chunk that is written has a row version in its transaction.
LEMMA NewRowFields ==
  ASSUME NEW c \in Calls, NEW i
  PROVE  /\ NewRow(c, i).id = ids[c][i] /\ NewRow(c, i).org = Req(c).org
         /\ NewRow(c, i).ext = Batch(c)[i].ext
  BY DEF NewRow, RowOf

\* The COMMIT of c neither takes away nor brings in a row that d holds, and what
\* the two have written is of different chunks.
LEMMA CommitsApart ==
  ASSUME TInv, KeyInv, NEW c \in Calls, NEW d \in Calls, c # d
  PROVE  /\ \A row \in rows : row.id \in locked[d] => row \in CommitRows(c)
         /\ \A row \in CommitRows(c) : row.id \in locked[d] => row \in rows
         /\ \A v \in written[d], w \in written[c] : ~Collide(v, w)
<1>1. \A v \in written[d], w \in written[c] : ~Collide(v, w)
  BY DEF KeyInv, WritesApart
<1>2. \A row \in rows : row.id \in locked[d] => row \in CommitRows(c)
  BY DEF KeyInv, LocksApart, CommitRows
<1>3. \A row \in CommitRows(c) : row.id \in locked[d] => row \in rows
  BY DEF KeyInv, LocksApart, CommitRows
<1>. QED
  BY <1>1, <1>2, <1>3

\* A step of c leaves what d's transaction stands for as it is.
LEMMA OtherTx ==
  ASSUME TInv, KeyInv, NameInv, TxInv, NEW c \in Calls, Kinds(c), NEW d \in Calls, c # d
  PROVE  /\ pc'[d] = "insert" => PutTx(d)'
         /\ pc'[d] = "delete" => DeleteTx(d)'
         /\ pc'[d] \notin {"insert", "delete"} => written'[d] = {} /\ locked'[d] = {}
<1>1. /\ pc'[d] = pc[d] /\ job'[d] = job[d] /\ written'[d] = written[d]
      /\ locked'[d] = locked[d] /\ ids'[d] = ids[d] /\ seen'[d] = seen[d]
  BY OthersAreLeft DEF OthersStay
<1>2. /\ Req(d)' = Req(d) /\ Batch(d)' = Batch(d) /\ Emb(d)' = Emb(d) /\ Tok(d)' = Tok(d)
  BY <1>1 DEF Req, Batch, Emb, Tok
<1>3. /\ \A row \in rows : row.id \in locked[d] => row \in rows'
      /\ \A row \in rows' : row.id \in locked[d] => row \in rows
      /\ \A row \in rows' : row \in rows \/ (\A v \in written[d] : ~Collide(v, row))
  BY StepShows, CommitsApart DEF CommitRows
<1>4. ASSUME pc[d] = "insert" PROVE PutTx(d)'
  <2>. DEFINE n == Len(ids[d])
  <2>1. /\ n <= Len(Batch(d))
        /\ \A i, j \in 1..n : ids[d][i] = ids[d][j] => i = j
        /\ written[d] = {NewRow(d, i) : i \in 1..n}
        /\ \A id \in locked[d] : \E i \in 1..n : id = ids[d][i]
        /\ \A i \in 1..n : Replaces(d, i) \/ Adds(d, i)
    BY <1>4 DEF TxInv, PutTx
  <2>2. {NewRow(d, i) : i \in 1..n}
          = {RowOf(ids'[d][i], Req(d)'.org, Batch(d)'[i], Emb(d)', Tok(d)') : i \in 1..n}
    BY <1>1, <1>2 DEF NewRow
  <2>3. ASSUME NEW i \in 1..n
        PROVE  \/ /\ ids[d][i] \in locked[d]
                  /\ \E row \in rows' : /\ SameKey(row, Req(d).org, Batch(d)[i].ext)
                                        /\ row.id = ids[d][i]
               \/ /\ ids[d][i] \notin locked[d]
                  /\ \A row \in rows' : /\ row.id # ids[d][i]
                                        /\ ~SameKey(row, Req(d).org, Batch(d)[i].ext)
                  /\ \A e \in Calls : \A j \in 1..Len(ans'[e].ids) : ans'[e].ids[j] # ids[d][i]
    <3>1. CASE Replaces(d, i)
      BY <1>3, <3>1 DEF Replaces
    <3>2. CASE Adds(d, i)
      <4>1. NewRow(d, i) \in written[d]
        BY <2>1
      <4>2. \A row \in rows' : /\ row.id # ids[d][i]
                               /\ ~SameKey(row, Req(d).org, Batch(d)[i].ext)
        <5>1. TAKE row \in rows'
        <5>2. CASE row \in rows
          BY <3>2, <5>2 DEF Adds
        <5>3. CASE ~Collide(NewRow(d, i), row)
          BY <5>3, NewRowFields DEF Collide
        <5>. QED
          BY <1>3, <4>1, <5>2, <5>3
      <4>3. ASSUME NEW j \in 1..Len(ids[c]), pc[c] = "insert", ids[c][j] = ids[d][i]
            PROVE  FALSE
        <5>1. NewRow(c, j) \in written[c]
          BY <4>3 DEF TxInv, PutTx
        <5>2. Collide(NewRow(d, i), NewRow(c, j))
          BY <4>3, NewRowFields DEF Collide
        <5>. QED
          BY <4>1, <5>1, <5>2, CommitsApart
      <4>4. ASSUME NEW e \in Calls, NEW j \in 1..Len(ans'[e].ids), ans'[e].ids[j] = ids[d][i]
            PROVE  FALSE
        <5>1. CASE ans'[e] = ans[e]
          BY <3>2, <4>4, <5>1 DEF Adds
        <5>2. CASE e = c /\ ans'[c].ids = <<>>
          BY <4>4, <5>2
        <5>3. CASE e = c /\ pc[c] = "insert" /\ ans'[c].ids = ids[c]
          BY <4>3, <4>4, <5>3
        <5>4. e # c => ans'[e] = ans[e]
          BY OthersAreLeft DEF OthersStay
        <5>. QED
          BY <5>1, <5>2, <5>3, <5>4, StepShows
      <4>. QED
        BY <3>2, <4>2, <4>4 DEF Adds
    <3>. QED
      BY <2>1, <3>1, <3>2
  <2>. HIDE DEF n
  <2>4. n = Len(ids'[d])
    BY <1>1 DEF n
  <2>. QED
    BY <1>1, <1>2, <2>1, <2>2, <2>3, <2>4 DEF PutTx, NewRow, Replaces, Adds
<1>5. ASSUME pc[d] = "delete" PROVE DeleteTx(d)'
  <2>1. {row \in rows' : row.id \in locked[d] /\ ~DeleteMatches(Req(d), row)}
          = {row \in rows : row.id \in locked[d] /\ ~DeleteMatches(Req(d), row)}
    BY <1>3
  <2>. QED
    BY <1>1, <1>2, <1>5, <2>1 DEF TxInv, DeleteTx
<1>. QED
  BY <1>1, <1>4, <1>5 DEF TxInv


\* The steps after which c has written nothing, or nothing yet.
LEMMA IdleTxInv ==
  ASSUME TInv, KeyInv, NameInv, TxInv, NEW c \in Calls, Kinds(c),
         Receive(c) \/ AbortWith(c) \/ Advance(c) \/ ScanRows(c) \/ QueryRows(c)
           \/ CommitPut(c) \/ CommitDelete(c)
  PROVE  TxInv'
<1>1. /\ written'[c] = {} /\ locked'[c] = {}
      /\ pc'[c] = "insert" => ids'[c] = <<>>
  <2>1. CASE Receive(c) \/ Advance(c) \/ ScanRows(c) \/ QueryRows(c)
    BY <2>1 DEF Receive, Advance, ScanRows, QueryRows, AnswerWith, TInv, TypeOK, TxInv,
                NameInv, GotInv
  <2>2. CASE AbortWith(c) \/ CommitPut(c) \/ CommitDelete(c)
    BY <2>2 DEF AbortWith, Abort, CommitPut, CommitDelete, AnswerWith, EndTx, TInv, TypeOK
  <2>. QED
    BY <2>1, <2>2
<1>2. ASSUME pc'[c] = "insert" PROVE PutTx(c)'
  <2>1. Batch(c)' \in Seq(ChunkInput)
    <3>1. Advance(c) /\ pc[c] = "embed"
      BY <1>2 DEF Receive, AbortWith, Abort, Advance, ScanRows, QueryRows, CommitPut,
                  CommitDelete, AnswerWith, TInv, TypeOK
    <3>2. job[c] \in Job /\ IsPut(Req(c))
      BY <3>1 DEF TInv, TypeOK, PcInv
    <3>3. Req(c) \in PutRequest
      BY <3>2, PutShape DEF Job, Req
    <3>. QED
      BY <3>1, <3>3 DEF Advance, Batch, PutRequest, Req
  <2>2. Len(ids'[c]) = 0 /\ Len(Batch(c)') \in Nat
    BY <1>1, <1>2, <2>1
  <2>. QED
    BY <1>1, <2>2 DEF PutTx
<1>3. ASSUME pc'[c] = "delete" PROVE DeleteTx(c)'
  BY <1>1 DEF DeleteTx
<1>4. ASSUME NEW d \in Calls
      PROVE  /\ pc'[d] = "insert" => PutTx(d)'
             /\ pc'[d] = "delete" => DeleteTx(d)'
             /\ pc'[d] \notin {"insert", "delete"} => written'[d] = {} /\ locked'[d] = {}
  BY <1>1, <1>2, <1>3, OtherTx
<1>. QED
  BY <1>4 DEF TxInv

LEMMA DeleteRowTxInv ==
  ASSUME TInv, KeyInv, NameInv, TxInv, NEW c \in Calls, Kinds(c), DeleteRow(c)
  PROVE  TxInv'
<1>1. PICK row \in Unvisited(c) :
        /\ locked' = [locked EXCEPT ![c] = @ \cup {row.id}]
        /\ IF StillMatches(c, row)
           THEN UNCHANGED written
           ELSE written' = [written EXCEPT ![c] = @ \cup {row}]
  BY DEF DeleteRow
<1>2. /\ pc[c] = "delete" /\ UNCHANGED <<rows, pc, job, seen>>
      /\ row \in rows /\ row.id \in seen[c]
  BY DEF DeleteRow, Unvisited
<1>3. /\ locked'[c] = locked[c] \cup {row.id}
      /\ written'[c] = IF StillMatches(c, row) THEN written[c] ELSE written[c] \cup {row}
  BY <1>1 DEF TInv, TypeOK
<1>4. \A r \in rows : r.id = row.id => r = row
  BY <1>2 DEF KeyInv, UniqueKeys
<1>5. DeleteTx(c)
  BY <1>2 DEF TxInv
<1>6. written'[c] = {r \in rows : r.id \in locked'[c] /\ ~DeleteMatches(Req(c), r)}
  BY <1>2, <1>3, <1>4, <1>5 DEF DeleteTx, StillMatches
<1>7. DeleteTx(c)'
  BY <1>2, <1>3, <1>5, <1>6 DEF DeleteTx, Req
<1>8. ASSUME NEW d \in Calls
      PROVE  /\ pc'[d] = "insert" => PutTx(d)'
             /\ pc'[d] = "delete" => DeleteTx(d)'
             /\ pc'[d] \notin {"insert", "delete"} => written'[d] = {} /\ locked'[d] = {}
  BY <1>2, <1>7, OtherTx
<1>. QED
  BY <1>8 DEF TxInv


\* The id an INSERT returns is not yet one of its batch, and is either that of
\* the committed row it replaces or one that nobody has seen.
LEMMA InsertedId ==
  ASSUME TInv, KeyInv, NameInv, TxInv, NEW c \in Calls, InsertChunk(c),
         NEW id \in ReturnedIds(Stored(c, Req(c).org, Batch(c)[Len(ids[c]) + 1].ext))
  PROVE  LET k   == Len(ids[c]) + 1
             ext == Batch(c)[k].ext
         IN  /\ \A i \in 1..Len(ids[c]) : ids[c][i] # id
             /\ \/ /\ Stored(c, Req(c).org, ext) # {}
                   /\ \E row \in rows : SameKey(row, Req(c).org, ext) /\ row.id = id
                \/ /\ Stored(c, Req(c).org, ext) = {}
                   /\ id \notin locked[c]
                   /\ \A row \in rows : row.id # id /\ ~SameKey(row, Req(c).org, ext)
                   /\ \A d \in Calls : \A j \in 1..Len(ans[d].ids) : ans[d].ids[j] # id
<1>. DEFINE n   == Len(ids[c])
            k   == Len(ids[c]) + 1
            o   == Req(c).org
            ext == Batch(c)[k].ext
            old == Stored(c, o, ext)
<1>1. /\ pc[c] = "insert" /\ PutTx(c) /\ Got(c) = ids[c]
      /\ n \in Nat /\ k = n + 1 /\ k \in 1..Len(Batch(c)) /\ Len(Batch(c)) \in Nat
  <2>1. pc[c] = "insert" /\ Len(ids[c]) < Len(Batch(c))
    BY DEF InsertChunk
  <2>2. Batch(c) \in Seq(ChunkInput) /\ k \in 1..Len(Batch(c))
    BY <2>1, NextChunk
  <2>. QED
    BY <2>1, <2>2 DEF TxInv, Got, TInv, TypeOK
<1>2. \A i \in 1..n : Batch(c)[i].ext = ext => ext = NoExt
  <2>1. Valid(Req(c)) /\ IsPut(Req(c))
    BY <1>1 DEF NameInv, GotInv, TInv, PcInv
  <2>2. ExternalIDsAreDistinct(Batch(c))
    BY <2>1 DEF Valid, ValidBatch, IsPut, IsDelete, IsSearch, Req, Batch
  <2>3. TAKE i \in 1..n
  <2>4. i \in 1..Len(Batch(c)) /\ i # k
    BY <1>1
  <2>. QED
    BY <1>1, <2>2, <2>4 DEF ExternalIDsAreDistinct
<1>3. nextId \in Nat /\ \A i \in 1..n : ids[c][i] \in Nat /\ ids[c][i] < nextId
  BY <1>1 DEF NameInv, NamesFit, TInv, TypeOK
<1>. HIDE DEF n, k
<1>4. \A e \in old : e \in rows /\ SameKey(e, o, ext)
  <2>1. SUFFICES ASSUME NEW e \in written[c], SameKey(e, o, ext) PROVE FALSE
    BY DEF Stored
  <2>2. PICK i \in 1..n : e = NewRow(c, i)
    BY <1>1 DEF PutTx, n
  <2>. QED
    BY <1>2, <2>1, <2>2, NewRowFields DEF SameKey
<1>5. CASE old = {}
  <2>1. id = nextId
    BY <1>5 DEF ReturnedIds, k
  <2>2. \A i \in 1..n : ids[c][i] # id
    BY <1>3, <2>1
  <2>3. id \notin locked[c] /\ \A row \in rows : row.id # id
    BY <1>3, <2>1 DEF KeyInv, IdsBehind
  <2>4. \A row \in rows : ~SameKey(row, o, ext)
    BY <1>5 DEF Stored
  <2>5. ASSUME NEW d \in Calls, NEW j \in 1..Len(ans[d].ids), ans[d].ids[j] = id
        PROVE  FALSE
    <3>1. Got(d) = ans[d].ids
      BY <2>5 DEF NameInv, GotInv, Got
    <3>2. ans[d].ids[j] < nextId
      BY <2>5, <3>1 DEF NameInv, NamesFit
    <3>. QED
      BY <1>3, <2>1, <2>5, <3>2
  <2>. QED
    BY <1>5, <2>2, <2>3, <2>4, <2>5 DEF n, k
<1>6. CASE old # {}
  <2>1. PICK e \in old : id = e.id
    BY <1>6 DEF ReturnedIds, k
  <2>2. e \in rows /\ SameKey(e, o, ext)
    BY <1>4, <2>1
  <2>3. ASSUME NEW i \in 1..n, ids[c][i] = id PROVE FALSE
    <3>1. CASE Replaces(c, i)
      <4>1. PICK row \in rows : SameKey(row, o, Batch(c)[i].ext) /\ row.id = ids[c][i]
        BY <3>1 DEF Replaces
      <4>2. row = e
        BY <2>1, <2>2, <2>3, <4>1 DEF KeyInv, UniqueKeys
      <4>. QED
        BY <1>2, <2>2, <4>1, <4>2 DEF SameKey
    <3>2. CASE Adds(c, i)
      BY <2>1, <2>2, <2>3, <3>2 DEF Adds
    <3>. QED
      BY <1>1, <3>1, <3>2 DEF PutTx, n
  <2>. QED
    BY <1>6, <2>1, <2>2, <2>3 DEF n, k
<1>. QED
  BY <1>5, <1>6

LEMMA InsertTxInv ==
  ASSUME TInv, KeyInv, NameInv, TxInv, NEW c \in Calls, Kinds(c), InsertChunk(c)
  PROVE  TxInv'
<1>. DEFINE n   == Len(ids[c])
            k   == Len(ids[c]) + 1
            o   == Req(c).org
            ext == Batch(c)[k].ext
            old == Stored(c, o, ext)
<1>1. /\ pc[c] = "insert" /\ UNCHANGED <<rows, pc, job, ans>>
      /\ PutTx(c)
  BY DEF InsertChunk, TxInv
<1>2. PICK id \in ReturnedIds(old) :
        /\ ids' = [ids EXCEPT ![c] = Append(@, id)]
        /\ written' = [written EXCEPT ![c] =
                         {row \in @ : row.id # id} \cup
                         {RowOf(id, o, Batch(c)[k], Emb(c), Tok(c))}]
        /\ locked' = [locked EXCEPT ![c] = IF old = {} THEN @ ELSE @ \cup {id}]
  BY DEF InsertChunk
<1>. DEFINE v == RowOf(id, o, Batch(c)[k], Emb(c), Tok(c))
<1>3. /\ ids'[c] = Append(ids[c], id)
      /\ written'[c] = {row \in written[c] : row.id # id} \cup {v}
      /\ locked'[c] = IF old = {} THEN locked[c] ELSE locked[c] \cup {id}
  BY <1>2 DEF TInv, TypeOK
<1>4. /\ n \in Nat /\ k = n + 1 /\ k <= Len(Batch(c)) /\ k \in 1..k
      /\ Len(ids'[c]) = k
      /\ \A i \in 1..n : ids'[c][i] = ids[c][i]
      /\ ids'[c][k] = id
      /\ \A i \in 1..k : i \in 1..n \/ i = k
      /\ \A i \in 1..n : i \in 1..k
  <2>1. ids[c] \in Seq(Nat) /\ Batch(c) \in Seq(ChunkInput) /\ k \in 1..Len(Batch(c))
    BY NextChunk DEF TInv, TypeOK, InsertChunk
  <2>. QED
    BY <1>3, <2>1
<1>5. /\ \A i \in 1..n : ids[c][i] # id
      /\ \/ /\ old # {}
            /\ \E row \in rows : SameKey(row, o, ext) /\ row.id = id
         \/ /\ old = {}
            /\ id \notin locked[c]
            /\ \A row \in rows : row.id # id /\ ~SameKey(row, o, ext)
            /\ \A d \in Calls : \A j \in 1..Len(ans[d].ids) : ans[d].ids[j] # id
  BY <1>2, InsertedId
<1>6. /\ \A i, j \in 1..n : ids[c][i] = ids[c][j] => i = j
      /\ written[c] = {NewRow(c, i) : i \in 1..n}
      /\ \A x \in locked[c] : \E i \in 1..n : x = ids[c][i]
      /\ \A i \in 1..n : Replaces(c, i) \/ Adds(c, i)
  BY <1>1 DEF PutTx
<1>. HIDE DEF n, k, o, ext, old
<1>7. /\ Req(c)' = Req(c) /\ Batch(c)' = Batch(c) /\ Emb(c)' = Emb(c) /\ Tok(c)' = Tok(c)
  BY <1>1 DEF Req, Batch, Emb, Tok
<1>8. PutTx(c)'
  <2>1. \A i, j \in 1..k : ids'[c][i] = ids'[c][j] => i = j
    BY <1>4, <1>5, <1>6
  <2>2. written'[c] = {RowOf(ids'[c][i], o, Batch(c)[i], Emb(c), Tok(c)) : i \in 1..k}
    <3>. DEFINE R(i) == RowOf(ids'[c][i], o, Batch(c)[i], Emb(c), Tok(c))
    <3>1. {row \in written[c] : row.id # id} = written[c]
      BY <1>5, <1>6, NewRowFields
    <3>2. \A i \in 1..n : i \in 1..k /\ R(i) = NewRow(c, i)
      BY <1>4 DEF NewRow, o
    <3>3. k \in 1..k /\ R(k) = v
      BY <1>4
    <3>. HIDE DEF R, v
    <3>4. {R(i) : i \in 1..k} = {NewRow(c, i) : i \in 1..n} \cup {v}
      BY <1>4, <3>2, <3>3
    <3>5. written'[c] = {R(i) : i \in 1..k}
      BY <1>3, <1>6, <3>1, <3>4
    <3>. QED
      BY <3>5 DEF R
  <2>3. \A x \in locked'[c] : \E i \in 1..k : x = ids'[c][i]
    BY <1>3, <1>4, <1>6
  <2>4. ASSUME NEW i \in 1..k
        PROVE  \/ /\ ids'[c][i] \in locked'[c]
                  /\ \E row \in rows' : /\ SameKey(row, o, Batch(c)[i].ext)
                                        /\ row.id = ids'[c][i]
               \/ /\ ids'[c][i] \notin locked'[c]
                  /\ \A row \in rows' : /\ row.id # ids'[c][i]
                                        /\ ~SameKey(row, o, Batch(c)[i].ext)
                  /\ \A d \in Calls : \A j \in 1..Len(ans'[d].ids) :
                       ans'[d].ids[j] # ids'[c][i]
    <3>1. CASE i = k
      BY <1>1, <1>3, <1>4, <1>5, <3>1 DEF ext
    <3>2. CASE i \in 1..n /\ Replaces(c, i)
      BY <1>1, <1>3, <1>4, <3>2 DEF Replaces, o
    <3>3. CASE i \in 1..n /\ Adds(c, i)
      BY <1>1, <1>3, <1>4, <1>5, <3>3 DEF Adds, o
    <3>. QED
      BY <1>4, <1>6, <3>1, <3>2, <3>3
  <2>. QED
    BY <1>4, <1>7, <2>1, <2>2, <2>3, <2>4 DEF PutTx, NewRow, Replaces, Adds, o
<1>9. ASSUME NEW d \in Calls
      PROVE  /\ pc'[d] = "insert" => PutTx(d)'
             /\ pc'[d] = "delete" => DeleteTx(d)'
             /\ pc'[d] \notin {"insert", "delete"} => written'[d] = {} /\ locked'[d] = {}
  BY <1>1, <1>8, OtherTx
<1>. QED
  BY <1>9 DEF TxInv


LEMMA NextTxInv ==
  ASSUME TInv, KeyInv, NameInv, TxInv, NEW c \in Calls, Kinds(c)
  PROVE  TxInv'
  BY IdleTxInv, DeleteRowTxInv, InsertTxInv DEF Kinds

LEMMA NextCallInv ==
  ASSUME TInv, CallInv, NEW c \in Calls, Kinds(c)
  PROVE  CallInv'
<1>1. \A d \in Calls \ {c} : /\ pc'[d] = pc[d] /\ ans'[d] = ans[d] /\ hits'[d] = hits[d]
                             /\ Req(d)' = Req(d)
  BY OthersAreLeft DEF OthersStay, Req
<1>2. /\ pc'[c] # "answered" => ans'[c] = Say("none") /\ hits'[c] = {}
      /\ pc'[c] \notin {"new", "answered"} => Valid(job'[c].req)
      /\ \A row \in hits'[c] : row.org = job'[c].req.org
  <2>1. CASE Receive(c)
    <3>1. PICK p \in Procs, r \in Requests :
            /\ job' = [job EXCEPT ![c] = [made |-> TRUE, proc |-> p, req |-> r]]
            /\ IF Valid(r)
               THEN /\ pc' = [pc EXCEPT ![c] = IF IsPut(r) THEN "embed"
                                               ELSE IF IsDelete(r) THEN "scan"
                                               ELSE "check"]
                    /\ UNCHANGED ans
               ELSE AnswerWith(c, Say("rejected"))
      BY <2>1 DEF Receive
    <3>2. job'[c].req = r /\ hits'[c] = {} /\ ans[c] = Say("none")
      BY <2>1, <3>1 DEF Receive, CallInv, TInv, TypeOK
    <3>3. \/ Valid(r) /\ ans' = ans
          \/ pc'[c] = "answered"
      BY <3>1 DEF AnswerWith, TInv, TypeOK
    <3>. QED
      BY <3>2, <3>3
  <2>2. CASE QueryRows(c)
    <3>1. PICK top \in SUBSET {row \in rows : SearchMatches(Req(c), row)} :
            hits' = [hits EXCEPT ![c] = top]
      BY <2>2 DEF QueryRows
    <3>2. pc'[c] = "answered" /\ job' = job
      BY <2>2 DEF QueryRows, AnswerWith, TInv, TypeOK
    <3>3. hits'[c] = top
      BY <3>1 DEF TInv, TypeOK
    <3>. QED
      BY <3>2, <3>3 DEF SearchMatches, Req
  <2>3. CASE AbortWith(c) \/ CommitPut(c) \/ CommitDelete(c)
    <3>1. pc'[c] = "answered" /\ job' = job /\ hits' = hits
      BY <2>3 DEF AbortWith, Abort, CommitPut, CommitDelete, AnswerWith, TInv, TypeOK
    <3>. QED
      BY <3>1 DEF CallInv, Req
  <2>4. CASE Advance(c) \/ InsertChunk(c) \/ ScanRows(c) \/ DeleteRow(c)
    <3>1. pc[c] \notin {"new", "answered"} /\ UNCHANGED <<job, ans, hits>>
      BY <2>4 DEF Advance, InsertChunk, ScanRows, DeleteRow
    <3>. QED
      BY <3>1 DEF CallInv, Req
  <2>. QED
    BY <2>1, <2>2, <2>3, <2>4 DEF Kinds
<1>3. ASSUME NEW d \in Calls
      PROVE  /\ pc'[d] # "answered" => ans'[d] = Say("none") /\ hits'[d] = {}
             /\ pc'[d] \notin {"new", "answered"} => Valid(job'[d].req)
             /\ \A row \in hits'[d] : row.org = job'[d].req.org
  <2>1. CASE d = c
    BY <1>2, <2>1
  <2>2. CASE d # c
    BY <1>1, <2>2 DEF CallInv, Req
  <2>. QED
    BY <2>1, <2>2
<1>. QED
  BY <1>3 DEF CallInv, Req

\* A Put removes no row without storing another one of that id and key.
LEMMA PutKeepsRows ==
  ASSUME TInv, KeyInv, TxInv, NEW c \in Calls, CommitPut(c), NEW row \in rows
  PROVE  \E new \in rows' : new.id = row.id /\ new.org = row.org /\ new.ext = row.ext
<1>1. PutTx(c) /\ rows' = CommitRows(c)
  BY DEF CommitPut, TxInv
<1>2. CASE row.id \notin locked[c]
  BY <1>1, <1>2 DEF CommitRows
<1>3. CASE row.id \in locked[c]
  <2>1. PICK i \in 1..Len(ids[c]) : row.id = ids[c][i]
    BY <1>1, <1>3 DEF PutTx
  <2>2. Replaces(c, i)
    BY <1>1, <1>3, <2>1 DEF PutTx, Adds
  <2>3. PICK r \in rows : SameKey(r, Req(c).org, Batch(c)[i].ext) /\ r.id = ids[c][i]
    BY <2>2 DEF Replaces
  <2>4. r = row
    BY <2>1, <2>3 DEF KeyInv, UniqueKeys
  <2>5. NewRow(c, i) \in rows'
    BY <1>1 DEF PutTx, CommitRows
  <2>. QED
    BY <2>1, <2>3, <2>4, <2>5, NewRowFields DEF SameKey
<1>. QED
  BY <1>2, <1>3

LEMMA NextKeptInv ==
  ASSUME TInv, KeyInv, TxInv, CallInv, KeptInv, NEW c \in Calls, Kinds(c)
  PROVE  KeptInv'
<1>. SUFFICES ASSUME NoDeletes',
                     NEW d \in Calls, NEW i \in 1..Len(ans'[d].ids),
                     Batch(d)'[i].ext # NoExt
              PROVE  \E row \in rows' : /\ SameKey(row, Req(d)'.org, Batch(d)'[i].ext)
                                        /\ row.id = ans'[d].ids[i]
  BY DEF KeptInv
<1>1. /\ job'[c] = job[c] \/ (job[c] = NoJob /\ pc[c] = "new")
      /\ \A e \in Calls \ {c} : job'[e] = job[e]
  BY OthersAreLeft DEF OthersStay, Kinds, AbortWith, Abort, Receive, Advance, InsertChunk,
     CommitPut, ScanRows, DeleteRow, CommitDelete, QueryRows, TInv, PcInv
<1>2. NoDeletes
  BY <1>1 DEF NoDeletes, Req
<1>3. pc[c] # "delete" /\ pc[c] # "scan"
  BY <1>2 DEF NoDeletes, TInv, PcInv
<1>4. \A row \in rows : \E new \in rows' :
        new.id = row.id /\ new.org = row.org /\ new.ext = row.ext
  <2>1. CASE rows' = rows
    BY <2>1
  <2>2. CASE CommitPut(c)
    BY <2>2, PutKeepsRows
  <2>. QED
    BY <1>3, <2>1, <2>2 DEF Kinds, AbortWith, Abort, Receive, Advance, InsertChunk, ScanRows,
       DeleteRow, CommitDelete, QueryRows
<1>5. CASE ans'[d] = ans[d] /\ job'[d] = job[d]
  <2>1. /\ Req(d)' = Req(d) /\ Batch(d)' = Batch(d)
        /\ i \in 1..Len(ans[d].ids) /\ ans'[d].ids[i] = ans[d].ids[i]
    BY <1>5 DEF Req, Batch
  <2>2. PICK row \in rows : SameKey(row, Req(d).org, Batch(d)[i].ext) /\ row.id = ans[d].ids[i]
    BY <1>2, <2>1 DEF KeptInv
  <2>3. PICK new \in rows' : new.id = row.id /\ new.org = row.org /\ new.ext = row.ext
    BY <1>4
  <2>. QED
    BY <2>1, <2>2, <2>3 DEF SameKey
<1>6. CASE d = c /\ CommitPut(c)
  <2>1. PutTx(c) /\ rows' = CommitRows(c) /\ job' = job
    BY <1>6 DEF CommitPut, TxInv
  <2>2. ans'[c].ids = ids[c] \/ ans'[c].ids = <<>>
    BY <1>6 DEF CommitPut, AnswerWith, Say, TInv, TypeOK
  <2>3. i \in 1..Len(ids[c]) /\ ans'[c].ids[i] = ids[c][i]
    BY <1>6, <2>2
  <2>4. NewRow(c, i) \in rows'
    BY <2>1, <2>3 DEF PutTx, CommitRows
  <2>5. Req(c)' = Req(c) /\ Batch(c)' = Batch(c)
    BY <2>1 DEF Req, Batch
  <2>. QED
    BY <1>6, <2>3, <2>4, <2>5, NewRowFields DEF SameKey
<1>7. ~(d = c /\ CommitPut(c)) => ans'[d] = ans[d] /\ job'[d] = job[d]
  <2>1. CASE d # c
    BY <2>1, OthersAreLeft DEF OthersStay
  <2>2. CASE d = c /\ ~CommitPut(c)
    <3>1. ans'[c].ids # <<>>
      BY <2>2
    <3>2. CASE Receive(c)
      <4>1. ans[c].ids = <<>>
        BY <3>2 DEF Receive, CallInv, Say
      <4>. QED
        BY <3>1, <3>2, <4>1 DEF Receive, AnswerWith, Say, TInv, TypeOK
    <3>3. CASE ~Receive(c)
      BY <1>3, <2>2, <3>1, <3>3 DEF Kinds, AbortWith, Abort, Advance, InsertChunk, ScanRows,
         DeleteRow, CommitDelete, QueryRows, AnswerWith, Say, TInv, TypeOK
    <3>. QED
      BY <3>2, <3>3
  <2>. QED
    BY <2>1, <2>2
<1>. QED
  BY <1>5, <1>6, <1>7


PgInv == TInv /\ KeyInv /\ NameInv /\ TxsInv

LEMMA PgInvHolds == Spec => []PgInv
<1>1. TInv /\ KeyInv /\ NameInv /\ TxsInv /\ [Next]_vars => TxsInv'
  <2>1. SUFFICES ASSUME TInv, KeyInv, NameInv, TxsInv, [Next]_vars PROVE TxsInv'
    OBVIOUS
  <2>2. CASE UNCHANGED vars
    BY <2>1, <2>2 DEF vars, TxsInv, TxInv, CallInv, KeptInv, NoDeletes, PutTx, DeleteTx,
       NewRow, Replaces, Adds, Req, Batch, Emb, Tok
  <2>3. ASSUME NEW c \in Calls, Receive(c) \/ Progress(c) \/ StatementFails(c)
        PROVE  TxsInv'
    <3>1. Kinds(c)
      BY <2>3, StepKinds
    <3>. QED
      BY <2>1, <3>1, NextTxInv, NextCallInv, NextKeptInv DEF TxsInv
  <2>. QED
    BY <2>1, <2>2, <2>3 DEF Next
<1>2. Init /\ [][Next]_vars => []NameInv
  BY InitNameInv, NextNameInv, TInvHolds, KeyInvHolds, PTL DEF Spec
<1>. QED
  BY <1>1, <1>2, InitTxsInv, TInvHolds, KeyInvHolds, PTL DEF Spec, PgInv

\* As long as nobody deletes, a submission that is repeated is answered the ids
\* of the first time, whatever happens between the two.
THEOREM RetriesKeepIds == Spec => []RetrySameIds
<1>1. PgInv => RetrySameIds
  <2>1. SUFFICES ASSUME PgInv, NoDeletes, NEW c \in Calls, NEW d \in Calls,
                        NEW i \in 1..Len(ans[c].ids), NEW j \in 1..Len(ans[d].ids),
                        Req(c).org = Req(d).org, Batch(c)[i].ext = Batch(d)[j].ext,
                        Batch(c)[i].ext # NoExt
                 PROVE  ans[c].ids[i] = ans[d].ids[j]
    BY DEF RetrySameIds, NoDeletes
  <2>2. PICK v \in rows : SameKey(v, Req(c).org, Batch(c)[i].ext) /\ v.id = ans[c].ids[i]
    BY <2>1 DEF PgInv, TxsInv, KeptInv
  <2>3. PICK w \in rows : SameKey(w, Req(d).org, Batch(d)[j].ext) /\ w.id = ans[d].ids[j]
    BY <2>1 DEF PgInv, TxsInv, KeptInv
  <2>4. SameKey(w, v.org, v.ext)
    BY <2>1, <2>2, <2>3 DEF SameKey
  <2>. QED
    BY <2>1, <2>2, <2>3, <2>4 DEF PgInv, KeyInv, UniqueKeys
<1>. QED
  BY <1>1, PgInvHolds, PTL

-----------------------------------------------------------------------------
(* What a COMMIT makes of the table.                                       *)

LEMMA PutCommitted ==
  ASSUME PgInv, NEW c \in Calls, CommitPut(c)
  PROVE  /\ Len(ids[c]) = Len(Batch(c)) /\ Len(Batch(c)) \in Nat
         /\ rows' = {row \in rows : \A i \in 1..Len(Batch(c)) : ids[c][i] # row.id}
                      \cup {NewRow(c, i) : i \in 1..Len(Batch(c))}
         /\ \A row \in rows : row.id \in locked[c] => row.org = Req(c).org
<1>. DEFINE n == Len(ids[c])
<1>1. PutTx(c) /\ rows' = CommitRows(c) /\ pc[c] = "insert" /\ Len(ids[c]) >= Len(Batch(c))
  BY DEF CommitPut, AllInserted, PgInv, TxsInv, TxInv
<1>2. n = Len(Batch(c)) /\ n \in Nat
  <2>1. job[c] \in Job /\ IsPut(Req(c))
    BY <1>1 DEF PgInv, TInv, TypeOK, PcInv
  <2>2. Req(c) \in PutRequest
    BY <2>1, PutShape DEF Job, Req
  <2>3. Batch(c) \in Seq(ChunkInput) /\ ids[c] \in Seq(Nat)
    BY <2>2 DEF PutRequest, Req, Batch, PgInv, TInv, TypeOK
  <2>4. Len(ids[c]) <= Len(Batch(c))
    BY <1>1 DEF PutTx
  <2>. QED
    BY <1>1, <2>3, <2>4
<1>. HIDE DEF n
<1>3. ASSUME NEW row \in rows
      PROVE  /\ row.id \in locked[c] => row.org = Req(c).org
             /\ row.id \in locked[c] <=> \E i \in 1..n : ids[c][i] = row.id
  <2>1. ASSUME NEW i \in 1..n, ids[c][i] = row.id
        PROVE  row.id \in locked[c] /\ row.org = Req(c).org
    <3>1. Replaces(c, i)
      BY <1>1, <2>1 DEF PutTx, Adds, n
    <3>2. PICK r \in rows : SameKey(r, Req(c).org, Batch(c)[i].ext) /\ r.id = ids[c][i]
      BY <3>1 DEF Replaces
    <3>3. r = row
      BY <2>1, <3>2 DEF PgInv, KeyInv, UniqueKeys
    <3>. QED
      BY <2>1, <3>1, <3>2, <3>3 DEF Replaces, SameKey
  <2>2. row.id \in locked[c] => \E i \in 1..n : ids[c][i] = row.id
    BY <1>1 DEF PutTx, n
  <2>. QED
    BY <2>1, <2>2
<1>4. /\ rows' = {row \in rows : row.id \notin locked[c]} \cup written[c]
      /\ written[c] = {NewRow(c, i) : i \in 1..n}
  BY <1>1 DEF CommitRows, PutTx, n
<1>5. {row \in rows : row.id \notin locked[c]}
        = {row \in rows : \A i \in 1..n : ids[c][i] # row.id}
  BY <1>3
<1>6. rows' = {row \in rows : \A i \in 1..n : ids[c][i] # row.id} \cup {NewRow(c, i) : i \in 1..n}
  BY <1>4, <1>5
<1>. QED
  BY <1>2, <1>3, <1>6 DEF n

\* The rows a DELETE is due to remove: those of its snapshot that match still.
Due(c) == {row \in rows : row.id \in seen[c] /\ DeleteMatches(Req(c), row)}

LEMMA DeleteCommitted ==
  ASSUME PgInv, NEW c \in Calls, CommitDelete(c)
  PROVE  rows' = rows \ Due(c) /\ RowsAffected(c) = Cardinality(Due(c))
<1>1. /\ DeleteTx(c) /\ rows' = CommitRows(c)
      /\ \A row \in rows : row.id \in seen[c] => row.id \in locked[c]
  BY DEF CommitDelete, Unvisited, PgInv, TxsInv, TxInv
<1>2. CommitRows(c) = rows \ Due(c)
  <2>1. \A row \in rows : row.id \in locked[c] <=> row.id \in seen[c]
    BY <1>1 DEF DeleteTx
  <2>. QED
    BY <1>1, <2>1 DEF CommitRows, DeleteTx, Due
<1>3. rows \ CommitRows(c) = Due(c)
  BY <1>2 DEF Due
<1>. QED
  BY <1>1, <1>2, <1>3 DEF RowsAffected

\* Only a COMMIT changes the table.
LEMMA OnlyCommits ==
  ASSUME NEW c \in Calls, Kinds(c), ~CommitPut(c), ~CommitDelete(c)
  PROVE  rows' = rows
  BY DEF Kinds, AbortWith, Abort, Receive, Advance, InsertChunk, ScanRows, DeleteRow, QueryRows

\* Nobody sees a part of a batch: it appears as a whole when its call ends.
THEOREM BatchesAppearWhole == Spec => BatchIsAtomic
<1>. DEFINE Whole(row) ==
       \E c \in Calls :
         /\ pc[c] # "answered" /\ pc'[c] = "answered"
         /\ ans'[c].status \in {"ok", "lost"}
         /\ \A i \in 1..Len(Batch(c)) :
              \E new \in rows' :
                new = RowOf(new.id, Req(c).org, Batch(c)[i], Emb(c), Tok(c))
         /\ \E i \in 1..Len(Batch(c)) : row.content = Batch(c)[i].content
<1>1. PgInv /\ [Next]_vars => \A row \in rows' \ rows : Whole(row)
  <2>1. SUFFICES ASSUME PgInv, [Next]_vars, NEW row \in rows' \ rows PROVE Whole(row)
    OBVIOUS
  <2>2. PICK c \in Calls : Kinds(c)
    BY <2>1, StepKinds DEF Next, vars
  <2>3. CommitPut(c)
    BY <2>1, <2>2, OnlyCommits, DeleteCommitted
  <2>4. /\ pc[c] = "insert" /\ pc'[c] = "answered" /\ ans'[c].status \in {"ok", "lost"}
    BY <2>1, <2>3 DEF CommitPut, AnswerWith, Say, PgInv, TInv, TypeOK
  <2>5. \A i \in 1..Len(Batch(c)) : NewRow(c, i) \in rows'
    BY <2>1, <2>3, PutCommitted
  <2>6. \A i \in 1..Len(Batch(c)) :
          NewRow(c, i) = RowOf(NewRow(c, i).id, Req(c).org, Batch(c)[i], Emb(c), Tok(c))
    BY NewRowFields DEF NewRow
  <2>7. PICK i \in 1..Len(Batch(c)) : row = NewRow(c, i)
    BY <2>1, <2>3, PutCommitted
  <2>8. row.content = Batch(c)[i].content
    BY <2>7 DEF NewRow, RowOf
  <2>. QED
    BY <2>4, <2>5, <2>6, <2>8
<1>. QED
  BY <1>1, PgInvHolds, PTL DEF Spec, BatchIsAtomic

\* A delete removes the rows of its snapshot that match still, no others, and
\* answers their number, whoever writes those rows while it waits.
THEOREM DeletesAreExact == Spec => DeleteExact
<1>. DEFINE Exact(c) ==
       pc[c] = "delete" /\ pc'[c] = "answered" /\ ans'[c].status \in {"ok", "lost"} =>
         /\ rows' = rows \ Due(c)
         /\ ans'[c].status = "ok" => ans'[c].count = Cardinality(Due(c))
<1>1. PgInv /\ [Next]_vars => \A c \in Calls : Exact(c)
  <2>1. SUFFICES ASSUME PgInv, [Next]_vars, NEW c \in Calls, pc[c] = "delete",
                        pc'[c] = "answered", ans'[c].status \in {"ok", "lost"}
                 PROVE  /\ rows' = rows \ Due(c)
                        /\ ans'[c].status = "ok" => ans'[c].count = Cardinality(Due(c))
    OBVIOUS
  <2>2. PICK d \in Calls : Kinds(d)
    BY <2>1, StepKinds DEF Next, vars
  <2>3. d = c
    BY <2>1, <2>2, OthersAreLeft DEF OthersStay, PgInv
  <2>4. CommitDelete(c)
    <3>1. ~AbortWith(c)
      BY <2>1 DEF AbortWith, Abort, AnswerWith, Errors, Say, PgInv, TInv, TypeOK
    <3>. QED
      BY <2>1, <2>2, <2>3, <3>1
      DEF Kinds, Receive, Advance, InsertChunk, CommitPut, ScanRows, DeleteRow, QueryRows
  <2>5. ans'[c].status = "ok" => ans'[c].count = RowsAffected(c)
    BY <2>1, <2>4 DEF CommitDelete, AnswerWith, Say, PgInv, TInv, TypeOK
  <2>. QED
    BY <2>1, <2>4, <2>5, DeleteCommitted
<1>2. PgInv /\ [Next]_vars => \A c \in Calls :
        pc[c] = "delete" /\ pc'[c] = "answered" /\ ans'[c].status \in {"ok", "lost"} =>
         LET due == {row \in rows : row.id \in seen[c] /\ DeleteMatches(Req(c), row)}
         IN  /\ rows' = rows \ due
             /\ ans'[c].status = "ok" => ans'[c].count = Cardinality(due)
  BY <1>1 DEF Due
<1>. QED
  BY <1>2, PgInvHolds, PTL DEF Spec, DeleteExact

\* No step changes, and no search shows, a row of an organisation that the
\* request it works on is not of.
THEOREM OrgsAreIsolated == Spec => OrgIsolation
<1>. DEFINE ByOrg(row) == \E c \in Calls : pc'[c] # pc[c] /\ Req(c).org = row.org
            HitsOf(c)  == \A row \in hits'[c] : row.org = job'[c].req.org
<1>1. PgInv /\ [Next]_vars => \A row \in (rows \ rows') \cup (rows' \ rows) : ByOrg(row)
  <2>1. SUFFICES ASSUME PgInv, [Next]_vars, NEW row \in (rows \ rows') \cup (rows' \ rows)
                 PROVE  ByOrg(row)
    OBVIOUS
  <2>2. PICK c \in Calls : Kinds(c)
    BY <2>1, StepKinds DEF Next, vars
  <2>3. CASE CommitPut(c)
    <3>1. pc'[c] # pc[c] /\ rows' = CommitRows(c)
      BY <2>1, <2>3 DEF CommitPut, AnswerWith, PgInv, TInv, TypeOK
    <3>2. CASE row \in rows \ rows'
      BY <2>1, <2>3, <3>1, <3>2, PutCommitted DEF CommitRows
    <3>3. CASE row \in rows' \ rows
      BY <2>1, <2>3, <3>1, <3>3, PutCommitted, NewRowFields
    <3>. QED
      BY <3>2, <3>3
  <2>4. CASE CommitDelete(c)
    <3>1. pc'[c] # pc[c]
      BY <2>1, <2>4 DEF CommitDelete, AnswerWith, PgInv, TInv, TypeOK
    <3>2. DeleteMatches(Req(c), row)
      BY <2>1, <2>4, DeleteCommitted DEF Due
    <3>. QED
      BY <3>1, <3>2 DEF DeleteMatches
  <2>. QED
    BY <2>1, <2>2, <2>3, <2>4, OnlyCommits
<1>2. PgInv' => \A c \in Calls : HitsOf(c)
  BY DEF PgInv, TxsInv, CallInv, Req
<1>. QED
  BY <1>1, <1>2, PgInvHolds, PTL DEF Spec, OrgIsolation


-----------------------------------------------------------------------------
(* PgStore implements ChunkStore: the step that ends a call is the one in   *)
(* which it takes effect, the others change nothing a caller can see.       *)

\* The data of both modules are the same.
LEMMA SameWords ==
  /\ Store!Errors = Errors /\ Store!NoJob = NoJob
  /\ \A s : Store!Say(s) = Say(s)
  /\ \A id, o, ch, emb, tok : Store!RowOf(id, o, ch, emb, tok) = RowOf(id, o, ch, emb, tok)
  /\ \A row, o, ext : Store!SameKey(row, o, ext) <=> SameKey(row, o, ext)
  /\ \A r, row : Store!DeleteMatches(r, row) <=> DeleteMatches(r, row)
  /\ \A r : /\ Store!IsPut(r) <=> IsPut(r)
            /\ Store!IsDelete(r) <=> IsDelete(r)
            /\ Store!IsSearch(r) <=> IsSearch(r)
<1>1. Store!Errors = Errors /\ Store!NoJob = NoJob /\ \A s : Store!Say(s) = Say(s)
  BY DEF Store!Errors, Errors, Store!NoJob, NoJob, Store!Say, Say
<1>2. \A id, o, ch, emb, tok : Store!RowOf(id, o, ch, emb, tok) = RowOf(id, o, ch, emb, tok)
  BY DEF Store!RowOf, RowOf
<1>3. \A row, o, ext : Store!SameKey(row, o, ext) <=> SameKey(row, o, ext)
  BY DEF Store!SameKey, SameKey
<1>4. \A r, row : Store!DeleteMatches(r, row) <=> DeleteMatches(r, row)
  BY DEF Store!DeleteMatches, DeleteMatches
<1>5. \A r : /\ Store!IsPut(r) <=> IsPut(r)
             /\ Store!IsDelete(r) <=> IsDelete(r)
             /\ Store!IsSearch(r) <=> IsSearch(r)
  BY DEF Store!IsPut, IsPut, Store!IsDelete, IsDelete, Store!IsSearch, IsSearch
<1>. QED
  BY <1>1, <1>2, <1>3, <1>4, <1>5

LEMMA SameValid == \A r : Store!Valid(r) <=> Valid(r)
<1>1. \A o : Store!ValidOrg(o) <=> ValidOrg(o)
  BY DEF Store!ValidOrg, ValidOrg
<1>2. \A ch, o : Store!ValidChunk(ch, o) <=> ValidChunk(ch, o)
  BY DEF Store!ValidChunk, ValidChunk
<1>3. \A b : Store!ExternalIDsAreDistinct(b) <=> ExternalIDsAreDistinct(b)
  BY DEF Store!ExternalIDsAreDistinct, ExternalIDsAreDistinct
<1>4. \A o, b : Store!ValidBatch(o, b) <=> ValidBatch(o, b)
  BY <1>1, <1>2, <1>3, Zenon DEF Store!ValidBatch, ValidBatch
<1>5. \A q : Store!ValidQuery(q) <=> ValidQuery(q)
  BY <1>1, Zenon DEF Store!ValidQuery, ValidQuery
<1>. QED
  BY <1>1, <1>4, <1>5, SameWords, Zenon DEF Store!Valid, Valid

LEMMA OpenCalls ==
  ASSUME PgInv, NEW c \in Calls, pc[c] \notin {"new", "answered"}
  PROVE  Store!Open(c) /\ Valid(job[c].req)
<1>1. job[c] \in Job /\ ans[c] = Say("none") /\ Valid(job[c].req)
  BY DEF PgInv, TInv, TypeOK, PcInv, TxsInv, CallInv, Req
<1>2. job[c].made # NoJob.made
  BY <1>1 DEF Job, NoJob
<1>3. job[c] # NoJob
  BY <1>2
<1>4. ans[c].status = "none"
  BY <1>1 DEF Say
<1>. QED
  BY <1>1, <1>3, <1>4, SameWords DEF Store!Open

LEMMA AbortIsFail ==
  ASSUME PgInv, NEW c \in Calls, AbortWith(c)
  PROVE  Store!FailCall(c)
<1>1. PICK s \in Errors : ans' = [ans EXCEPT ![c] = Say(s)] /\ rows' = rows /\ job' = job
  BY DEF AbortWith, Abort, AnswerWith
<1>2. ans' = [ans EXCEPT ![c] = Store!Say(s)] /\ s \in Store!Errors
  BY <1>1, SameWords
<1>. QED
  BY <1>1, <1>2, OpenCalls DEF Store!FailCall, AbortWith

LEMMA ReceiveIsStart ==
  ASSUME PgInv, NEW c \in Calls, Receive(c)
  PROVE  Store!Start(c)
<1>1. PICK p \in Procs, r \in Requests :
        /\ job' = [job EXCEPT ![c] = [made |-> TRUE, proc |-> p, req |-> r]]
        /\ IF Valid(r)
           THEN /\ pc' = [pc EXCEPT ![c] = IF IsPut(r) THEN "embed"
                                           ELSE IF IsDelete(r) THEN "scan"
                                           ELSE "check"]
                /\ UNCHANGED ans
           ELSE AnswerWith(c, Say("rejected"))
  BY DEF Receive
<1>2. job[c] = Store!NoJob /\ rows' = rows
  BY SameWords DEF Receive, PgInv, TInv, PcInv
<1>3. CASE Valid(r)
  BY <1>1, <1>2, <1>3, SameValid DEF Store!Start
<1>4. CASE ~Valid(r)
  <2>1. ans' = [ans EXCEPT ![c] = Store!Say("rejected")]
    BY <1>1, <1>4, SameWords DEF AnswerWith
  <2>. QED
    BY <1>1, <1>2, <1>4, <2>1, SameValid DEF Store!Start
<1>. QED
  BY <1>3, <1>4

LEMMA CommitIsPut ==
  ASSUME PgInv, NEW c \in Calls, CommitPut(c)
  PROVE  Store!PutBatch(c)
<1>. DEFINE r == job[c].req
            p == job[c].proc
            n == Len(r.batch)
<1>1. /\ pc[c] = "insert" /\ job' = job
      /\ \E a \in {[status |-> "ok", ids |-> ids[c], count |-> Len(ids[c])], Say("lost")} :
           AnswerWith(c, a)
  BY DEF CommitPut
<1>2. Store!Open(c) /\ Store!IsPut(r) /\ Store!Valid(r)
  BY <1>1, OpenCalls, SameWords, SameValid DEF PgInv, TInv, PcInv, Req
<1>3. /\ r = Req(c) /\ r.batch = Batch(c) /\ n = Len(Batch(c)) /\ n \in Nat /\ Len(ids[c]) = n
  BY PutCommitted DEF Req, Batch
<1>4. /\ ids[c] \in Seq(Nat) /\ PutTx(c)
  BY <1>1 DEF PgInv, TInv, TypeOK, TxsInv, TxInv
<1>5. \A i \in 1..n : NewRow(c, i)
        = Store!RowOf(ids[c][i], r.org, r.batch[i], EmbedderOf[p], TokenizerOf[p])
  BY <1>3, SameWords DEF NewRow, Emb, Tok
<1>6. rows' = {row \in rows : \A i \in 1..n : ids[c][i] # row.id} \cup {NewRow(c, i) : i \in 1..n}
  BY <1>3, PutCommitted
<1>7. /\ \A i, j \in 1..n : ids[c][i] = ids[c][j] => i = j
      /\ \A i \in 1..n : Replaces(c, i) \/ Adds(c, i)
  BY <1>3, <1>4 DEF PutTx
<1>. HIDE DEF r, p, n
<1>8. ids[c] \in [1..n -> {row.id : row \in rows'}]
  <2>1. \A i \in 1..n : NewRow(c, i) \in rows' /\ NewRow(c, i).id = ids[c][i]
    BY <1>6, NewRowFields
  <2>2. ids[c] \in [1..n -> Nat]
    BY <1>3, <1>4
  <2>. QED
    BY <2>1, <2>2
<1>9. ASSUME NEW i \in 1..n
      PROVE  \/ \E row \in rows :
                  Store!SameKey(row, r.org, r.batch[i].ext) /\ ids[c][i] = row.id
             \/ /\ \A row \in rows : ~Store!SameKey(row, r.org, r.batch[i].ext)
                /\ ids[c][i] \notin Store!IssuedIds
  <2>1. CASE Replaces(c, i)
    BY <1>3, <2>1, SameWords DEF Replaces
  <2>2. CASE Adds(c, i)
    <3>1. \A row \in rows : ~Store!SameKey(row, r.org, r.batch[i].ext)
      BY <1>3, <2>2, SameWords DEF Adds
    <3>2. ids[c][i] \notin Store!IssuedIds
      BY <2>2 DEF Adds, Store!IssuedIds
    <3>. QED
      BY <3>1, <3>2
  <2>. QED
    BY <1>7, <2>1, <2>2
<1>10. rows' = {row \in rows : \A i \in 1..n : ids[c][i] # row.id} \cup
               {Store!RowOf(ids[c][i], r.org, r.batch[i], EmbedderOf[p], TokenizerOf[p])
                  : i \in 1..n}
  BY <1>5, <1>6
<1>11. \/ ans' = [ans EXCEPT ![c] = Store!Say("lost")]
       \/ ans' = [ans EXCEPT ![c] = [status |-> "ok", ids |-> ids[c], count |-> n]]
  BY <1>1, <1>3, SameWords DEF AnswerWith
<1>. QED
  BY <1>1, <1>2, <1>7, <1>8, <1>9, <1>10, <1>11 DEF Store!PutBatch, r, p, n

LEMMA CommitIsDelete ==
  ASSUME PgInv, NEW c \in Calls, CommitDelete(c)
  PROVE  Store!DeleteRows(c)
<1>1. /\ pc[c] = "delete" /\ job' = job
      /\ \E a \in {[status |-> "ok", ids |-> <<>>, count |-> RowsAffected(c)], Say("lost")} :
           AnswerWith(c, a)
  BY DEF CommitDelete
<1>2. Store!Open(c) /\ Store!IsDelete(job[c].req) /\ Store!Valid(job[c].req)
  BY <1>1, OpenCalls, SameWords, SameValid DEF PgInv, TInv, PcInv, Req
<1>3. Due(c) \in SUBSET {row \in rows : Store!DeleteMatches(job[c].req, row)}
  BY SameWords DEF Due, Req
<1>4. rows' = rows \ Due(c) /\ RowsAffected(c) = Cardinality(Due(c))
  BY DeleteCommitted
<1>5. \/ ans' = [ans EXCEPT ![c] = Store!Say("lost")]
      \/ ans' = [ans EXCEPT ![c] =
                   [status |-> "ok", ids |-> <<>>, count |-> Cardinality(Due(c))]]
  BY <1>1, <1>4, SameWords DEF AnswerWith
<1>6. \A g : Store!Cardinality(g) = Cardinality(g)
  BY DEF Store!Cardinality, Cardinality
<1>7. \E g \in SUBSET {row \in rows : Store!DeleteMatches(job[c].req, row)} :
        /\ rows' = rows \ g
        /\ \/ ans' = [ans EXCEPT ![c] = Store!Say("lost")]
           \/ ans' = [ans EXCEPT ![c] =
                        [status |-> "ok", ids |-> <<>>, count |-> Cardinality(g)]]
  BY <1>3, <1>4, <1>5, Zenon
<1>. QED
  BY <1>1, <1>2, <1>6, <1>7 DEF Store!DeleteRows

LEMMA QueryIsSearch ==
  ASSUME PgInv, NEW c \in Calls, QueryRows(c)
  PROVE  Store!AnswerSearch(c)
<1>1. pc[c] = "query" /\ rows' = rows /\ job' = job /\ ans' = [ans EXCEPT ![c] = Say("ok")]
  BY DEF QueryRows, AnswerWith
<1>2. Store!Open(c) /\ Store!IsSearch(job[c].req) /\ Store!Valid(job[c].req)
  BY <1>1, OpenCalls, SameWords, SameValid DEF PgInv, TInv, PcInv, Req
<1>3. ans' = [ans EXCEPT ![c] = Store!Say("ok")]
  BY <1>1, SameWords
<1>. QED
  BY <1>1, <1>2, <1>3 DEF Store!AnswerSearch

LEMMA StepIsStores ==
  ASSUME PgInv, NEW c \in Calls, Kinds(c)
  PROVE  Store!StoreNext \/ UNCHANGED Store!storeVars
<1>1. CASE AbortWith(c)
  BY <1>1, AbortIsFail DEF Store!StoreNext
<1>2. CASE Receive(c)
  BY <1>2, ReceiveIsStart DEF Store!StoreNext
<1>3. CASE CommitPut(c)
  BY <1>3, CommitIsPut DEF Store!StoreNext
<1>4. CASE CommitDelete(c)
  BY <1>4, CommitIsDelete DEF Store!StoreNext
<1>5. CASE QueryRows(c)
  BY <1>5, QueryIsSearch DEF Store!StoreNext
<1>6. CASE Advance(c) \/ InsertChunk(c) \/ ScanRows(c) \/ DeleteRow(c)
  BY <1>6 DEF Advance, InsertChunk, ScanRows, DeleteRow, Store!storeVars
<1>. QED
  BY <1>1, <1>2, <1>3, <1>4, <1>5, <1>6 DEF Kinds

\* PostgreSQL's store keeps the promise of index.Writer for any calls, processes
\* and requests: although a Put and a DELETE take many steps and wait for one
\* another, a call takes effect at most once and as a whole, in the step that ends
\* it, a failed one not at all, and ids are never given to another chunk.
THEOREM StoreIsChunkStore == Spec => Implements
<1>1. Init => Store!StoreInit
  BY SameWords DEF Init, Store!StoreInit
<1>2. PgInv /\ [Next]_vars => [Store!StoreNext]_(Store!storeVars)
  <2>1. SUFFICES ASSUME PgInv, [Next]_vars
                 PROVE  Store!StoreNext \/ UNCHANGED Store!storeVars
    OBVIOUS
  <2>2. CASE UNCHANGED vars
    BY <2>2 DEF vars, Store!storeVars
  <2>3. CASE Next
    BY <2>1, <2>3, StepKinds, StepIsStores DEF Next
  <2>. QED
    BY <2>1, <2>2, <2>3
<1>. QED
  BY <1>1, <1>2, PgInvHolds, PTL DEF Spec, Implements, Store!StoreSpec

-----------------------------------------------------------------------------
(* The identity check.                                                     *)


SpaceOf(row) == <<row.emb, row.tok>>
CallSpace(c) == Space(job[c].proc)

LEMMA AuditRefines == AuditSpec => Spec
<1>1. AuditInit => Init
  BY DEF AuditInit
<1>2. [Next /\ Watch]_auditVars => [Next]_vars
  BY DEF auditVars, vars
<1>. QED
  BY <1>1, <1>2, PTL DEF AuditSpec, Spec

-----------------------------------------------------------------------------
(* While no two Puts of different spaces have been past their checks at    *)
(* once, everything that is or will be stored is of one space.             *)

\* The rows are of one space, and of the space of every Put past its check.
RowsAgree ==
  /\ SingleSpace
  /\ \A c \in Calls : Inserting(c) =>
       \A row \in rows : SpaceOf(row) = CallSpace(c)

\* A Put writes rows of its own space; a DELETE only puts back rows it holds.
WritesAgree ==
  \A c \in Calls : \A v \in written[c] :
    IF Inserting(c) THEN SpaceOf(v) = CallSpace(c) ELSE v \in rows

\* No two Puts past their checks are of different spaces.
PutsAgree ==
  \A c, d \in Calls : Inserting(c) /\ Inserting(d) => CallSpace(c) = CallSpace(d)

SpaceInv == raced \/ (PutsAgree /\ RowsAgree /\ WritesAgree)

\* A successful check says that every row is of the caller's space.
LEMMA CheckedSpace ==
  ASSUME NEW c \in Calls, Foreign(c) = {}
  PROVE  /\ \A row \in rows : SpaceOf(row) = CallSpace(c)
         /\ ~Alien(c)
  BY DEF Foreign, IsForeign, Emb, Tok, SpaceOf, CallSpace, Space, Alien

LEMMA SameSpaceRows ==
  ASSUME NEW s, NEW S, \A row \in S : SpaceOf(row) = s
  PROVE  \A r1, r2 \in S : r1.emb = r2.emb /\ r1.tok = r2.tok
  BY DEF SpaceOf

\* A step that changes neither the table nor what a transaction has written.
LEMMA QuietSpaceInv ==
  ASSUME TInv, RowsAgree, WritesAgree, NEW c \in Calls,
         UNCHANGED <<rows, written>>,
         ~Inserting(c), ~Inserting(c)',
         \A d \in Calls \ {c} : pc'[d] = pc[d] /\ job'[d] = job[d]
  PROVE  RowsAgree' /\ WritesAgree'
  BY DEF RowsAgree, WritesAgree, Inserting, CallSpace, SingleSpace

LEMMA AbortSpaceInv ==
  ASSUME TInv, RowsAgree, WritesAgree, NEW c \in Calls, AbortWith(c)
  PROVE  RowsAgree' /\ WritesAgree'
<1>1. /\ pc'[c] = "answered" /\ written'[c] = {}
      /\ \A d \in Calls \ {c} : pc'[d] = pc[d] /\ written'[d] = written[d]
      /\ UNCHANGED <<rows, job>>
  BY DEF AbortWith, Abort, AnswerWith, EndTx, TInv, TypeOK
<1>. QED
  BY <1>1 DEF RowsAgree, WritesAgree, Inserting, CallSpace, SingleSpace

LEMMA AdvanceSpaceInv ==
  ASSUME TInv, RowsAgree, WritesAgree, NEW c \in Calls, Advance(c)
  PROVE  RowsAgree' /\ WritesAgree'
<1>1. /\ ~Inserting(c)
      /\ \A d \in Calls \ {c} : pc'[d] = pc[d]
      /\ UNCHANGED <<rows, job, written>>
      /\ \A row \in rows : SpaceOf(row) = CallSpace(c)
  BY CheckedSpace DEF Advance, Inserting, TInv, TypeOK
<1>2. \A v \in written[c] : v \in rows
  BY <1>1 DEF WritesAgree
<1>. QED
  BY <1>1, <1>2 DEF RowsAgree, WritesAgree, Inserting, CallSpace, SingleSpace

LEMMA InsertSpaceInv ==
  ASSUME TInv, RowsAgree, WritesAgree, NEW c \in Calls, InsertChunk(c)
  PROVE  RowsAgree' /\ WritesAgree'
<1>1. PICK id, o, ch :
        written' = [written EXCEPT ![c] = {row \in @ : row.id # id} \cup
                                          {RowOf(id, o, ch, Emb(c), Tok(c))}]
  BY DEF InsertChunk
<1>2. SpaceOf(RowOf(id, o, ch, Emb(c), Tok(c))) = CallSpace(c)
  BY DEF SpaceOf, RowOf, Emb, Tok, CallSpace, Space
<1>3. Inserting(c) /\ UNCHANGED <<rows, pc, job>>
  BY DEF InsertChunk, Inserting
<1>4. \A d \in Calls : \A v \in written'[d] :
        v \in written[d] \/ (d = c /\ SpaceOf(v) = CallSpace(c))
  BY <1>1, <1>2 DEF TInv, TypeOK
<1>5. RowsAgree'
  BY <1>3 DEF RowsAgree, Inserting, CallSpace, SingleSpace
<1>6. WritesAgree'
  BY <1>3, <1>4 DEF WritesAgree, Inserting, CallSpace
<1>. QED
  BY <1>5, <1>6

\* What another transaction puts back is not taken away by a COMMIT of c: the
\* row is locked, and no two transactions hold one row.
LEMMA HeldRowsStay ==
  ASSUME TInv, KeyInv, NEW c \in Calls, NEW d \in Calls \ {c},
         NEW v \in written[d], v \in rows
  PROVE  v \in CommitRows(c)
<1>1. v.id \in locked[d]
  BY DEF KeyInv, WritesHoldRows, Collide
<1>2. v.id \notin locked[c]
  BY <1>1 DEF KeyInv, LocksApart
<1>. QED
  BY <1>2 DEF CommitRows

LEMMA CommitSpaceInv ==
  ASSUME TInv, KeyInv, RowsAgree, WritesAgree, NEW c \in Calls,
         PutsAgree, CommitPut(c) \/ CommitDelete(c)
  PROVE  RowsAgree' /\ WritesAgree'
<1>1. /\ pc'[c] = "answered" /\ written'[c] = {} /\ rows' = CommitRows(c)
      /\ \A d \in Calls \ {c} : pc'[d] = pc[d] /\ written'[d] = written[d]
      /\ UNCHANGED job
  BY DEF CommitPut, CommitDelete, AnswerWith, EndTx, TInv, TypeOK
<1>2. rows' \subseteq rows \cup written[c]
  BY <1>1 DEF CommitRows
<1>3. CASE Inserting(c)
  <2>1. \A row \in rows' : SpaceOf(row) = CallSpace(c)
    BY <1>2, <1>3 DEF RowsAgree, WritesAgree
  <2>2. SingleSpace'
    BY <2>1, SameSpaceRows DEF SingleSpace
  <2>3. \A d \in Calls : Inserting(d)' => \A row \in rows' : SpaceOf(row) = CallSpace(d)
    BY <1>1, <1>3, <2>1 DEF Inserting, PutsAgree, CallSpace
  <2>. QED
    BY <1>1, <2>2, <2>3, HeldRowsStay DEF RowsAgree, WritesAgree, Inserting, CallSpace
<1>4. CASE ~Inserting(c)
  <2>1. rows' \subseteq rows
    BY <1>2, <1>4 DEF WritesAgree
  <2>2. RowsAgree'
    BY <1>1, <2>1 DEF RowsAgree, Inserting, CallSpace, SingleSpace
  <2>. QED
    BY <1>1, <2>2, HeldRowsStay DEF WritesAgree, Inserting, CallSpace
<1>. QED
  BY <1>3, <1>4

LEMMA DeleteRowSpaceInv ==
  ASSUME TInv, RowsAgree, WritesAgree, NEW c \in Calls, DeleteRow(c)
  PROVE  RowsAgree' /\ WritesAgree'
<1>1. PICK row \in rows :
        UNCHANGED written \/ written' = [written EXCEPT ![c] = @ \cup {row}]
  BY DEF DeleteRow, Unvisited
<1>2. ~Inserting(c) /\ UNCHANGED <<rows, pc, job>>
  BY DEF DeleteRow, Inserting
<1>3. \A d \in Calls : \A v \in written'[d] : v \in written[d] \/ (d = c /\ v \in rows)
  BY <1>1 DEF TInv, TypeOK
<1>4. RowsAgree'
  BY <1>2 DEF RowsAgree, Inserting, CallSpace, SingleSpace
<1>5. WritesAgree'
  BY <1>2, <1>3 DEF WritesAgree, Inserting, CallSpace
<1>. QED
  BY <1>4, <1>5

LEMMA NextSpaceInv ==
  ASSUME TInv, KeyInv, SpaceInv, Next /\ Watch
  PROVE  SpaceInv'
<1>1. PutsAgree' \/ raced'
  BY DEF Watch, PutsAgree, CallSpace
<1>. SUFFICES ASSUME ~raced' PROVE RowsAgree' /\ WritesAgree'
  BY <1>1 DEF SpaceInv
<1>2. PutsAgree /\ RowsAgree /\ WritesAgree
  BY DEF Watch, SpaceInv
<1>3. PICK c \in Calls : Receive(c) \/ Progress(c) \/ StatementFails(c)
  BY DEF Next
<1>4. Kinds(c)
  BY <1>3, StepKinds
<1>5. CASE Receive(c)
  <2>1. /\ ~Inserting(c) /\ ~Inserting(c)' /\ UNCHANGED <<rows, written>>
        /\ \A d \in Calls \ {c} : pc'[d] = pc[d] /\ job'[d] = job[d]
    BY <1>5 DEF Receive, AnswerWith, Inserting, TInv, TypeOK
  <2>. QED
    BY <1>2, <2>1, QuietSpaceInv
<1>6. CASE ScanRows(c) \/ QueryRows(c)
  <2>1. /\ ~Inserting(c) /\ ~Inserting(c)' /\ UNCHANGED <<rows, written>>
        /\ \A d \in Calls \ {c} : pc'[d] = pc[d] /\ job'[d] = job[d]
    BY <1>6 DEF ScanRows, QueryRows, AnswerWith, Inserting, TInv, TypeOK
  <2>. QED
    BY <1>2, <2>1, QuietSpaceInv
<1>. QED
  BY <1>2, <1>4, <1>5, <1>6, AbortSpaceInv, CommitSpaceInv, AdvanceSpaceInv, InsertSpaceInv,
     DeleteRowSpaceInv DEF Kinds

LEMMA SpaceInvHolds == AuditSpec => []SpaceInv
<1>1. AuditInit => SpaceInv
  BY DEF AuditInit, Init, SpaceInv, PutsAgree, RowsAgree, WritesAgree, Inserting, SingleSpace
<1>2. TInv /\ KeyInv /\ SpaceInv /\ [Next /\ Watch]_auditVars => SpaceInv'
  <2>1. SpaceInv /\ UNCHANGED auditVars => SpaceInv'
    BY DEF auditVars, vars, SpaceInv, PutsAgree, RowsAgree, WritesAgree, Inserting,
           CallSpace, SingleSpace
  <2>. QED
    BY <2>1, NextSpaceInv
<1>. QED
  BY <1>1, <1>2, AuditRefines, TInvHolds, KeyInvHolds, PTL DEF AuditSpec

\* Rows of two embedders or of two tokenizers come together in one way only:
\* two Puts of differently configured processes were past their checks at the
\* same time.  Processes that agree never mix, however many write at once.
THEOREM MixingNeedsRace == AuditSpec => []MixNeedsRace
<1>1. SpaceInv => MixNeedsRace
  BY DEF SpaceInv, RowsAgree, MixNeedsRace
<1>. QED
  BY <1>1, SpaceInvHolds, PTL

-----------------------------------------------------------------------------
(* A mismatch that was there all the time is reported.                     *)

\* Past its check a call is not tainted, for the check saw no alien row.
TaintInv ==
  \A c \in Calls :
    /\ pc[c] \in {"new", "insert", "query"} => ~tainted[c]
    /\ pc[c] = "answered" /\ tainted[c] /\ ~IsDelete(Req(c)) =>
         ans[c].status \notin {"ok", "lost"}

LEMMA WatchedTaint ==
  ASSUME Watch, TaintInv, NEW c \in Calls
  PROVE  /\ pc'[c] \in {"new", "answered"} => tainted'[c] = tainted[c]
         /\ pc'[c] \in {"insert", "query"} /\ (tainted[c] \/ pc[c] = "new") /\ tainted'[c]
              => Alien(c)'
         /\ pc'[c] \in {"insert", "query"} /\ ~tainted[c] /\ pc[c] # "new"
              => ~tainted'[c]
  BY DEF Watch

\* The calls other than the one that takes the step.
LEMMA OtherTaint ==
  ASSUME TInv, Watch, TaintInv, NEW d \in Calls,
         pc'[d] = pc[d], job'[d] = job[d], ans'[d] = ans[d]
  PROVE  /\ pc'[d] \in {"new", "insert", "query"} => ~tainted'[d]
         /\ pc'[d] = "answered" /\ tainted'[d] /\ ~IsDelete(Req(d)') =>
              ans'[d].status \notin {"ok", "lost"}
  BY WatchedTaint DEF TaintInv, Req

LEMMA StepTaint ==
  ASSUME TInv, Watch, TaintInv, NEW c \in Calls, Kinds(c)
  PROVE  /\ pc'[c] \in {"new", "insert", "query"} => ~tainted'[c]
         /\ pc'[c] = "answered" /\ tainted'[c] /\ ~IsDelete(Req(c)') =>
              ans'[c].status \notin {"ok", "lost"}
<1>1. CASE Receive(c)
  <2>1. pc'[c] \in {"embed", "scan", "check", "answered"} /\ ~tainted[c]
    BY <1>1 DEF Receive, AnswerWith, TaintInv, TInv, TypeOK
  <2>. QED
    BY <2>1, WatchedTaint
<1>2. CASE AbortWith(c)
  <2>1. pc'[c] = "answered" /\ ans'[c].status \in Errors
    BY <1>2 DEF AbortWith, Abort, AnswerWith, Say, TInv, TypeOK
  <2>. QED
    BY <2>1 DEF Errors
<1>3. CASE Advance(c)
  <2>1. /\ pc'[c] \in {"insert", "query"}
        /\ rows' = rows /\ job' = job
        /\ ~Alien(c)
    BY <1>3, CheckedSpace DEF Advance, TInv, TypeOK
  <2>2. ~Alien(c)'
    BY <2>1 DEF Alien
  <2>. QED
    BY <2>1, <2>2, WatchedTaint DEF Watch
<1>4. CASE InsertChunk(c)
  <2>1. pc'[c] = "insert" /\ pc[c] = "insert"
    BY <1>4 DEF InsertChunk
  <2>. QED
    BY <2>1, WatchedTaint DEF TaintInv
<1>5. CASE CommitPut(c) \/ QueryRows(c)
  <2>1. pc'[c] = "answered" /\ ~tainted[c]
    BY <1>5 DEF CommitPut, QueryRows, AnswerWith, TaintInv, TInv, TypeOK
  <2>. QED
    BY <2>1, WatchedTaint
<1>6. CASE ScanRows(c) \/ DeleteRow(c)
  <2>1. pc'[c] = "delete"
    BY <1>6 DEF ScanRows, DeleteRow, TInv, TypeOK
  <2>. QED
    BY <2>1
<1>7. CASE CommitDelete(c)
  <2>1. pc'[c] = "answered" /\ IsDelete(Req(c)')
    BY <1>7 DEF CommitDelete, AnswerWith, Req, TInv, TypeOK, PcInv
  <2>. QED
    BY <2>1
<1>. QED
  BY <1>1, <1>2, <1>3, <1>4, <1>5, <1>6, <1>7 DEF Kinds

LEMMA NextTaintInv ==
  ASSUME TInv, TaintInv, Next /\ Watch
  PROVE  TaintInv'
<1>1. PICK c \in Calls : Receive(c) \/ Progress(c) \/ StatementFails(c)
  BY DEF Next
<1>2. Kinds(c)
  BY <1>1, StepKinds
<1>3. \A d \in Calls \ {c} : pc'[d] = pc[d] /\ job'[d] = job[d] /\ ans'[d] = ans[d]
  BY <1>2 DEF Kinds, Receive, AbortWith, Abort, Advance, InsertChunk, CommitPut, ScanRows,
              DeleteRow, CommitDelete, QueryRows, AnswerWith, TInv, TypeOK
<1>. QED
  BY <1>2, <1>3, OtherTaint, StepTaint DEF TaintInv, Req

\* A Put or a search that succeeds did not meet a foreign row from beginning to
\* end: the mismatch of ADR 0005 is an error and is never worked around.
THEOREM AlienStoreRefused == AuditSpec => []NoSuccessInAlienStore
<1>1. AuditInit => TaintInv
  BY DEF AuditInit, Init, TaintInv
<1>2. TInv /\ TaintInv /\ [Next /\ Watch]_auditVars => TaintInv'
  <2>1. TaintInv /\ UNCHANGED auditVars => TaintInv'
    BY DEF auditVars, vars, TaintInv, Req
  <2>. QED
    BY <2>1, NextTaintInv
<1>3. TaintInv => NoSuccessInAlienStore
  BY DEF TaintInv, NoSuccessInAlienStore
<1>. QED
  BY <1>1, <1>2, <1>3, AuditRefines, TInvHolds, PTL DEF AuditSpec
=============================================================================
