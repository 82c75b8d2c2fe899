-------------------------- MODULE SqliteStoreProofs -------------------------
(***************************************************************************)
(* Proofs about SqliteStore for every set of calls, processes and requests.*)
(***************************************************************************)
EXTENDS SqliteStore, FiniteSetTheorems, TLAPS

\* What the program counter of a call says about its request and transaction.
PcInv ==
  \A c \in Calls :
    /\ pc[c] # "new" => job[c] \in Job
    /\ pc[c] \in {"embed", "insert"} => IsPut(Req(c))
    /\ pc[c] = "insert" <=> tx[c] # NoTx

\* Only finitely many rows exist, so that a DELETE can count what it removed.
FinInv ==
  /\ IsFiniteSet(db.rows)
  /\ \A c \in Calls : pc[c] = "insert" => IsFiniteSet(tx[c].rows)

\* The index of the file, and of the file as a transaction sees it, is in step.
StepInv ==
  /\ IndexInStep
  /\ \A c \in Calls : pc[c] = "insert" => tx[c].index = tx[c].rows

\* What a Put commits is of the space it has checked.
SpaceInv ==
  /\ SingleSpace
  /\ \A c \in Calls : pc[c] = "insert" =>
       \A row \in tx[c].rows : row.emb = Emb(c) /\ row.tok = Tok(c)

Inv == TypeOK /\ PcInv /\ FinInv /\ StepInv /\ SpaceInv

-----------------------------------------------------------------------------

LEMMA SayType ==
  ASSUME NEW s \in {"none", "ok", "lost"} \cup Errors
  PROVE  Say(s) \in Answer
  BY DEF Say, Answer

LEMMA NoTxIsNone == NoTx \notin Database
  BY DEF NoTx, Database

LEMMA PutShape ==
  ASSUME NEW r \in Requests, IsPut(r)
  PROVE  r \in PutRequest
  BY RequestsAssumption DEF IsPut, PutRequest, DeleteRequest, SearchRequest

\* The next chunk of a batch that is being inserted.
LEMMA NextChunk ==
  ASSUME Inv, NEW c \in Calls, pc[c] = "insert", Len(ids[c]) < Len(Batch(c))
  PROVE  /\ Req(c).org \in Nat
         /\ Batch(c)[Len(ids[c]) + 1] \in ChunkInput
         /\ Emb(c) \in STRING
         /\ Tok(c) \in STRING
         /\ tx[c] \in Database
<1>1. job[c] \in Job /\ IsPut(Req(c)) /\ tx[c] \in Database
  BY DEF Inv, TypeOK, PcInv
<1>2. Req(c) \in PutRequest
  BY <1>1, PutShape DEF Job, Req
<1>3. Req(c).org \in Nat /\ Batch(c) \in Seq(ChunkInput)
  BY <1>2 DEF PutRequest, Req, Batch
<1>4. Len(ids[c]) + 1 \in 1..Len(Batch(c))
  BY <1>3 DEF Inv, TypeOK
<1>5. Batch(c)[Len(ids[c]) + 1] \in ChunkInput
  BY <1>3, <1>4
<1>6. Emb(c) \in STRING /\ Tok(c) \in STRING
  BY <1>1, SqliteProcsAssumption DEF Job, Emb, Tok
<1>. QED
  BY <1>1, <1>3, <1>5, <1>6

\* What one INSERT does to a file in good order: it stays in good order, and
\* every row but the new one was there before.
LEMMA InsertedFacts ==
  ASSUME NEW d \in Database, NEW o \in Nat, NEW ch \in ChunkInput,
         NEW emb \in STRING, NEW tok \in STRING,
         IsFiniteSet(d.rows), d.index = d.rows,
         NEW n \in Inserted(d, o, ch, emb, tok)
  PROVE  /\ n.id \in Nat /\ n.db \in Database
         /\ IsFiniteSet(n.db.rows)
         /\ n.db.index = n.db.rows
         /\ \A row \in n.db.rows : row \in d.rows \/ (row.emb = emb /\ row.tok = tok)
<1>. DEFINE old == Stored(d, o, ch.ext)
<1>1. /\ d.rows \subseteq Row /\ d.index \subseteq Row /\ d.next \in Nat
      /\ old \subseteq d.rows
  BY DEF Database, Stored
<1>2. \A id \in Nat : /\ RowOf(id, o, ch, emb, tok) \in Row
                      /\ RowOf(id, o, ch, emb, tok).id = id
                      /\ RowOf(id, o, ch, emb, tok).emb = emb
                      /\ RowOf(id, o, ch, emb, tok).tok = tok
  BY DEF RowOf, Row, ChunkInput
<1>3. CASE old = {}
  <2>. DEFINE new == RowOf(d.next, o, ch, emb, tok)
  <2>1. n = [id |-> new.id, db |-> [rows  |-> d.rows \cup {new},
                                    index |-> d.index \cup {new},
                                    next  |-> d.next + 1]]
    BY <1>3 DEF Inserted, FreshId, AfterInsert
  <2>2. IsFiniteSet(d.rows \cup {new})
    BY FS_AddElement
  <2>. HIDE DEF new
  <2>3. new \in Row /\ new.id \in Nat /\ new.emb = emb /\ new.tok = tok
    BY <1>1, <1>2 DEF new
  <2>. QED
    BY <1>1, <2>1, <2>2, <2>3 DEF Database
<1>4. CASE old # {}
  <2>1. PICK e \in old, k \in {d.next, d.next + 1} :
          n = [id |-> e.id, db |-> [rows  |-> (d.rows \ old) \cup {RowOf(e.id, o, ch, emb, tok)},
                                    index |-> (d.index \ old) \cup {RowOf(e.id, o, ch, emb, tok)},
                                    next  |-> k]]
    BY <1>4 DEF Inserted, AfterUpdate
  <2>2. e.id \in Nat /\ k \in Nat
    BY <1>1 DEF Row
  <2>. DEFINE new == RowOf(e.id, o, ch, emb, tok)
  <2>3. IsFiniteSet((d.rows \ old) \cup {new})
    <3>1. IsFiniteSet(d.rows \ old)
      BY FS_Subset
    <3>. QED
      BY <3>1, FS_AddElement
  <2>4. new \in Row /\ new.emb = emb /\ new.tok = tok
    BY <1>2, <2>2
  <2>. HIDE DEF new, old
  <2>5. n.id = e.id /\ n.db = [rows  |-> (d.rows \ old) \cup {new},
                               index |-> (d.index \ old) \cup {new},
                               next  |-> k]
    BY <2>1 DEF new
  <2>. QED
    BY <1>1, <2>2, <2>3, <2>4, <2>5 DEF Database
<1>. QED
  BY <1>3, <1>4

-----------------------------------------------------------------------------

LEMMA InitInv == Init => Inv
<1>1. Say("none") \in Answer
  BY SayType
<1>. QED
  BY <1>1, FS_EmptySet
  DEF Init, Inv, TypeOK, PcInv, FinInv, StepInv, SpaceInv, IndexInStep, SingleSpace,
      Database, PCs, NoTx

\* A step of c that leaves the file and the open transactions alone, other than
\* ending c's own.
LEMMA CallEnds ==
  ASSUME Inv, NEW c \in Calls, NEW a \in Answer, pc[c] # "new",
         AnswerWith(c, a), EndCall(c), UNCHANGED <<db, job>>,
         hits' \in [Calls -> SUBSET Hit]
  PROVE  Inv'
<1>1. /\ pc'[c] = "answered" /\ tx'[c] = NoTx
      /\ \A d \in Calls \ {c} : pc'[d] = pc[d] /\ tx'[d] = tx[d]
  BY DEF Inv, TypeOK, AnswerWith, EndCall
<1>2. TypeOK'
  <2>1. pc' \in [Calls -> PCs] /\ ans' \in [Calls -> Answer]
    BY DEF Inv, TypeOK, AnswerWith, PCs
  <2>2. tx' \in [Calls -> Database \cup {NoTx}]
    BY DEF Inv, TypeOK, EndCall
  <2>3. ids' \in [Calls -> Seq(Nat)]
    BY DEF Inv, TypeOK, EndCall
  <2>4. cands' \in [Calls -> SUBSET Row]
    BY DEF Inv, TypeOK, EndCall
  <2>5. db' \in Database /\ job' \in [Calls -> Job \cup {NoJob}]
    BY DEF Inv, TypeOK
  <2>. QED
    BY <2>1, <2>2, <2>3, <2>4, <2>5 DEF TypeOK
<1>3. PcInv'
  BY <1>1 DEF Inv, PcInv, Req
<1>4. FinInv' /\ StepInv' /\ SpaceInv'
  BY <1>1 DEF Inv, FinInv, StepInv, SpaceInv, IndexInStep, SingleSpace, Emb, Tok
<1>. QED
  BY <1>2, <1>3, <1>4 DEF Inv

LEMMA AbortInv ==
  ASSUME Inv, NEW c \in Calls, NEW s \in Errors, pc[c] # "new", Abort(c, s)
  PROVE  Inv'
<1>1. Say(s) \in Answer
  BY SayType
<1>2. hits' \in [Calls -> SUBSET Hit]
  BY DEF Abort, Inv, TypeOK
<1>. QED
  BY <1>1, <1>2, CallEnds DEF Abort

LEMMA ReceiveInv ==
  ASSUME Inv, NEW c \in Calls, Receive(c)
  PROVE  Inv'
<1>1. PICK p \in Procs, r \in Requests :
        /\ job' = [job EXCEPT ![c] = [made |-> TRUE, proc |-> p, req |-> r]]
        /\ IF Valid(r)
           THEN /\ pc' = [pc EXCEPT ![c] = IF IsPut(r) THEN "embed"
                                           ELSE IF IsDelete(r) THEN "delete"
                                           ELSE "check"]
                /\ UNCHANGED ans
           ELSE AnswerWith(c, Say("rejected"))
  BY DEF Receive
<1>2. [made |-> TRUE, proc |-> p, req |-> r] \in Job
  BY DEF Job
<1>3. Say("rejected") \in Answer
  BY SayType DEF Errors
<1>4. pc[c] = "new" /\ UNCHANGED <<db, tx, ids, cands, hits>>
  BY DEF Receive
<1>5. TypeOK'
  BY <1>1, <1>2, <1>3, <1>4 DEF Inv, TypeOK, AnswerWith, PCs
<1>6. /\ pc'[c] \in {"embed", "delete", "check", "answered"}
      /\ pc'[c] = "embed" => IsPut(r)
      /\ job'[c] = [made |-> TRUE, proc |-> p, req |-> r]
      /\ \A d \in Calls \ {c} : pc'[d] = pc[d] /\ job'[d] = job[d]
  BY <1>1 DEF Inv, TypeOK, AnswerWith
<1>7. PcInv'
  BY <1>2, <1>4, <1>6 DEF Inv, PcInv, Req
<1>8. FinInv' /\ StepInv' /\ SpaceInv'
  BY <1>4, <1>6 DEF Inv, FinInv, StepInv, SpaceInv, IndexInStep, SingleSpace, Emb, Tok
<1>. QED
  BY <1>5, <1>7, <1>8 DEF Inv

LEMMA ReportInv ==
  ASSUME Inv, NEW c \in Calls, pc[c] # "new", ReportMismatch(c)
  PROVE  Inv'
  BY AbortInv DEF ReportMismatch, Errors

LEMMA BeginInv ==
  ASSUME Inv, NEW c \in Calls, BeginPut(c)
  PROVE  Inv'
<1>1. CASE ReportMismatch(c)
  BY <1>1, ReportInv DEF BeginPut
<1>2. CASE /\ Foreign(c) = {}
           /\ pc' = [pc EXCEPT ![c] = "insert"]
           /\ tx' = [tx EXCEPT ![c] = db]
           /\ UNCHANGED <<db, job, ids, cands, ans, hits>>
  <2>1. /\ pc[c] = "embed" /\ pc'[c] = "insert" /\ tx'[c] = db
        /\ \A d \in Calls \ {c} : pc'[d] = pc[d] /\ tx'[d] = tx[d]
    BY <1>2 DEF BeginPut, Inv, TypeOK
  <2>2. \A row \in db.rows : row.emb = Emb(c) /\ row.tok = Tok(c)
    BY <1>2 DEF Foreign, IsForeign
  <2>3. TypeOK'
    BY <1>2 DEF Inv, TypeOK, PCs
  <2>4. PcInv'
    BY <1>2, <2>1, NoTxIsNone DEF Inv, TypeOK, PcInv, Req
  <2>5. FinInv' /\ StepInv'
    BY <1>2, <2>1 DEF Inv, FinInv, StepInv, IndexInStep
  <2>6. SpaceInv'
    BY <1>2, <2>1, <2>2 DEF Inv, SpaceInv, SingleSpace, Emb, Tok
  <2>. QED
    BY <2>3, <2>4, <2>5, <2>6 DEF Inv
<1>. QED
  BY <1>1, <1>2 DEF BeginPut

LEMMA InsertInv ==
  ASSUME Inv, NEW c \in Calls, InsertChunk(c)
  PROVE  Inv'
<1>. DEFINE ch == Batch(c)[Len(ids[c]) + 1]
<1>1. /\ pc[c] = "insert" /\ Len(ids[c]) < Len(Batch(c))
      /\ UNCHANGED <<db, pc, job, cands, ans, hits>>
  BY DEF InsertChunk
<1>2. PICK n \in Inserted(tx[c], Req(c).org, ch, Emb(c), Tok(c)) :
        /\ tx' = [tx EXCEPT ![c] = n.db]
        /\ ids' = [ids EXCEPT ![c] = Append(@, n.id)]
  BY DEF InsertChunk
<1>3. /\ Req(c).org \in Nat /\ ch \in ChunkInput
      /\ Emb(c) \in STRING /\ Tok(c) \in STRING /\ tx[c] \in Database
  BY <1>1, NextChunk
<1>. HIDE DEF ch
<1>4. IsFiniteSet(tx[c].rows) /\ tx[c].index = tx[c].rows
  BY <1>1 DEF Inv, FinInv, StepInv
<1>5. /\ n.id \in Nat /\ n.db \in Database
      /\ IsFiniteSet(n.db.rows)
      /\ n.db.index = n.db.rows
      /\ \A row \in n.db.rows : row \in tx[c].rows \/ (row.emb = Emb(c) /\ row.tok = Tok(c))
  BY <1>3, <1>4, InsertedFacts
<1>6. tx'[c] = n.db /\ \A d \in Calls \ {c} : tx'[d] = tx[d]
  BY <1>2 DEF Inv, TypeOK
<1>7. TypeOK'
  BY <1>1, <1>2, <1>5 DEF Inv, TypeOK
<1>8. PcInv'
  BY <1>1, <1>5, <1>6, NoTxIsNone DEF Inv, PcInv, Req
<1>9. FinInv' /\ StepInv'
  BY <1>1, <1>5, <1>6 DEF Inv, FinInv, StepInv, IndexInStep
<1>10. SpaceInv'
  BY <1>1, <1>5, <1>6 DEF Inv, SpaceInv, SingleSpace, Emb, Tok
<1>. QED
  BY <1>7, <1>8, <1>9, <1>10 DEF Inv

LEMMA CommitInv ==
  ASSUME Inv, NEW c \in Calls, CommitPut(c)
  PROVE  Inv'
<1>1. PICK a \in Answer : AnswerWith(c, a)
  <2>1. Say("lost") \in Answer
    BY SayType
  <2>2. [status |-> "ok", ids |-> ids[c], count |-> Len(ids[c])] \in Answer
    BY DEF Inv, TypeOK, Answer
  <2>. QED
    BY <2>1, <2>2 DEF CommitPut
<1>2. /\ pc[c] = "insert" /\ db' = tx[c] /\ EndCall(c) /\ UNCHANGED <<job, hits>>
      /\ tx[c] \in Database
  BY DEF CommitPut, Inv, TypeOK, PcInv
<1>3. /\ pc'[c] = "answered" /\ tx'[c] = NoTx
      /\ \A d \in Calls \ {c} : pc'[d] = pc[d] /\ tx'[d] = tx[d]
  BY <1>1, <1>2 DEF Inv, TypeOK, AnswerWith, EndCall
<1>4. TypeOK'
  BY <1>1, <1>2 DEF Inv, TypeOK, AnswerWith, EndCall, PCs
<1>5. PcInv'
  BY <1>2, <1>3 DEF Inv, PcInv, Req
<1>6. FinInv' /\ StepInv'
  BY <1>2, <1>3 DEF Inv, FinInv, StepInv, IndexInStep
<1>7. SpaceInv'
  <2>1. \A row \in db'.rows : row.emb = Emb(c) /\ row.tok = Tok(c)
    BY <1>2 DEF Inv, SpaceInv
  <2>. QED
    BY <1>2, <1>3, <2>1 DEF Inv, SpaceInv, SingleSpace, Emb, Tok
<1>. QED
  BY <1>4, <1>5, <1>6, <1>7 DEF Inv

LEMMA DeleteInv ==
  ASSUME Inv, NEW c \in Calls, DeleteRows(c)
  PROVE  Inv'
<1>. DEFINE gone == {row \in db.rows : DeleteMatches(Req(c), row)}
<1>1. /\ pc[c] = "delete"
      /\ db' = [db EXCEPT !.rows = @ \ gone, !.index = @ \ gone]
      /\ UNCHANGED <<job, tx, ids, cands, hits>>
  BY DEF DeleteRows, AfterDelete
<1>2. RowsAffected(gone) \in Nat
  <2>1. IsFiniteSet(gone)
    BY FS_Subset DEF Inv, FinInv
  <2>. QED
    BY <2>1, FS_CardinalityType DEF RowsAffected
<1>3. PICK a \in Answer : AnswerWith(c, a)
  <2>1. Say("lost") \in Answer
    BY SayType
  <2>2. [status |-> "ok", ids |-> <<>>, count |-> RowsAffected(gone)] \in Answer
    BY <1>2 DEF Answer
  <2>. QED
    BY <2>1, <2>2 DEF DeleteRows
<1>4. db'.rows = db.rows \ gone /\ db'.index = db.index \ gone /\ db' \in Database
  BY <1>1 DEF Inv, TypeOK, Database
<1>5. IsFiniteSet(db'.rows)
  BY <1>4, FS_Subset DEF Inv, FinInv
<1>6. pc'[c] = "answered" /\ \A d \in Calls \ {c} : pc'[d] = pc[d]
  BY <1>3 DEF Inv, TypeOK, AnswerWith
<1>7. TypeOK'
  BY <1>1, <1>3, <1>4 DEF Inv, TypeOK, AnswerWith, PCs
<1>8. PcInv'
  BY <1>1, <1>6 DEF Inv, PcInv, Req
<1>9. FinInv' /\ StepInv'
  BY <1>1, <1>4, <1>5, <1>6 DEF Inv, FinInv, StepInv, IndexInStep
<1>10. SpaceInv'
  BY <1>1, <1>4, <1>6 DEF Inv, SpaceInv, SingleSpace, Emb, Tok
<1>. QED
  BY <1>7, <1>8, <1>9, <1>10 DEF Inv

\* The first two statements of a search.
LEMMA ReadInv ==
  ASSUME Inv, NEW c \in Calls, CheckSearch(c) \/ ReadCandidates(c)
  PROVE  Inv'
<1>1. CASE CheckSearch(c) /\ ReportMismatch(c)
  BY <1>1, ReportInv DEF CheckSearch
<1>2. CASE ~ReportMismatch(c)
  <2>1. /\ pc[c] \in {"check", "candidates"}
        /\ pc' = [pc EXCEPT ![c] = "candidates"] \/ pc' = [pc EXCEPT ![c] = "lexical"]
        /\ cands' \in [Calls -> SUBSET Row]
        /\ UNCHANGED <<db, job, tx, ids, ans, hits>>
    BY <1>2 DEF CheckSearch, ReadCandidates, Inv, TypeOK, Database
  <2>2. /\ pc'[c] \in {"candidates", "lexical"}
        /\ \A d \in Calls \ {c} : pc'[d] = pc[d]
    BY <2>1 DEF Inv, TypeOK
  <2>3. TypeOK'
    BY <2>1 DEF Inv, TypeOK, PCs
  <2>4. PcInv'
    BY <2>1, <2>2 DEF Inv, PcInv, Req
  <2>5. FinInv' /\ StepInv' /\ SpaceInv'
    BY <2>1, <2>2 DEF Inv, FinInv, StepInv, SpaceInv, IndexInStep, SingleSpace, Emb, Tok
  <2>. QED
    BY <2>3, <2>4, <2>5 DEF Inv
<1>3. CASE ReadCandidates(c) /\ ReportMismatch(c)
  BY <1>3, ReportInv DEF ReadCandidates
<1>. QED
  BY <1>1, <1>2, <1>3

LEMMA FuseInv ==
  ASSUME Inv, NEW c \in Calls, ReadLexicalAndFuse(c)
  PROVE  Inv'
<1>1. PICK scores \in SUBSET Scorable(c), top \in SUBSET cands[c] :
        hits' = [hits EXCEPT ![c] = Fused(top, scores)]
  BY DEF ReadLexicalAndFuse
<1>2. scores \subseteq Row /\ top \subseteq Row
  BY DEF Scorable, Inv, TypeOK, Database
<1>3. Fused(top, scores) \subseteq Hit
  BY <1>2 DEF Fused, Hit
<1>4. hits' \in [Calls -> SUBSET Hit]
  BY <1>1, <1>3 DEF Inv, TypeOK
<1>5. Say("ok") \in Answer
  BY SayType
<1>. QED
  BY <1>4, <1>5, CallEnds DEF ReadLexicalAndFuse

LEMMA NextInv == Inv /\ [Next]_vars => Inv'
<1>. SUFFICES ASSUME Inv, [Next]_vars PROVE Inv'
  OBVIOUS
<1>1. CASE UNCHANGED vars
  BY <1>1 DEF vars, Inv, TypeOK, PcInv, FinInv, StepInv, SpaceInv, IndexInStep,
              SingleSpace, Emb, Tok, Req
<1>2. ASSUME NEW c \in Calls, EmbedFails(c) \/ BusyTimeout(c) \/ StatementFails(c)
      PROVE  Inv'
  BY <1>2, AbortInv DEF EmbedFails, BusyTimeout, StatementFails, Errors
<1>. QED
  BY <1>1, <1>2, ReceiveInv, BeginInv, InsertInv, CommitInv, DeleteInv, ReadInv,
     FuseInv DEF Next

LEMMA InvHolds == Spec => []Inv
  BY InitInv, NextInv, PTL DEF Spec

\* The variables of SqliteStore keep their types.
THEOREM TypeCorrect == Spec => []TypeOK
  BY InvHolds, PTL DEF Inv

\* The full-text index never falls out of step with the table, through any
\* number of replacements, deletes, rollbacks and writers.
THEOREM IndexStaysInStep == Spec => []IndexInStep
  BY InvHolds, PTL DEF Inv, StepInv

\* Processes with different embedders or tokenizers may share the file: the one
\* that comes second is refused, and the rows stay in one space.
THEOREM FileHasOneSpace == Spec => []SingleSpace
  BY InvHolds, PTL DEF Inv, SpaceInv

-----------------------------------------------------------------------------
(* Which chunk an id names, and what a transaction has done to the file so  *)
(* far: the index of an INSERT in the batch is the index of the id in ids.  *)

\* What the program counter of a call says about its job, its answer and ids.
CallInv ==
  \A c \in Calls :
    /\ pc[c] = "new" => job[c] = NoJob
    /\ pc[c] # "answered" => ans[c] = Say("none")
    /\ pc[c] \notin {"new", "answered"} => Valid(Req(c))
    /\ pc[c] = "delete" => IsDelete(Req(c))
    /\ pc[c] \in {"check", "candidates", "lexical"} => IsSearch(Req(c))
    /\ pc[c] # "insert" => ids[c] = <<>>

OneWriter == \A c, d \in Calls : pc[c] = "insert" /\ pc[d] = "insert" => c = d

\* A row is known by its id and by its external id, and no id is yet to come.
KeyInv ==
  /\ \A r1, r2 \in db.rows : r1.id = r2.id \/ SameKey(r2, r1.org, r1.ext) => r1 = r2
  /\ \A row \in db.rows : row.id < db.next

\* The row of chunk i of the batch, under the id its INSERT returned.
NewRow(c, i) == RowOf(ids[c][i], Req(c).org, Batch(c)[i], Emb(c), Tok(c))

\* The id of a chunk is that of the stored row with its key, or a number the
\* committed file has not used.
IdIsApt(c, i) ==
  \/ \E row \in db.rows :
       SameKey(row, Req(c).org, Batch(c)[i].ext) /\ ids[c][i] = row.id
  \/ /\ \A row \in db.rows : ~SameKey(row, Req(c).org, Batch(c)[i].ext)
     /\ ids[c][i] >= db.next

\* The file as the transaction of c sees it is the committed one with the chunks
\* inserted so far in the place of the rows that had their ids.
WriterInv(c) ==
  LET n == Len(ids[c])
  IN  /\ n <= Len(Batch(c))
      /\ tx[c].rows = {row \in db.rows : \A i \in 1..n : ids[c][i] # row.id}
                        \cup {NewRow(c, i) : i \in 1..n}
      /\ \A i, j \in 1..n : ids[c][i] = ids[c][j] => i = j
      /\ \A i \in 1..n : IdIsApt(c, i) /\ ids[c][i] < tx[c].next
      /\ db.next <= tx[c].next

WritersInv == \A c \in Calls : pc[c] = "insert" => WriterInv(c)

\* Ids that have been answered are not given again.
NameInv ==
  /\ IdNamesOneChunk
  /\ \A c \in Calls : \A i \in 1..Len(ans[c].ids) : ans[c].ids[i] < db.next

\* A row that is stored under the id of a candidate is the same chunk.
CandInv ==
  \A c \in Calls : \A r \in cands[c] :
    /\ r.id < db.next
    /\ \A e \in db.rows : e.id = r.id => e.org = r.org /\ e.ext = r.ext

NInv == CallInv /\ OneWriter /\ KeyInv /\ WritersInv /\ NameInv /\ CandInv /\ ScoresOfSameChunk

StepOf(c) ==
  \/ Receive(c) \/ EmbedFails(c) \/ BeginPut(c) \/ InsertChunk(c) \/ CommitPut(c)
  \/ DeleteRows(c) \/ CheckSearch(c) \/ ReadCandidates(c) \/ ReadLexicalAndFuse(c)
  \/ BusyTimeout(c) \/ StatementFails(c)

\* What a step of c leaves alone.
OthersStay(c) ==
  \A d \in Calls \ {c} :
    /\ pc'[d] = pc[d] /\ job'[d] = job[d] /\ tx'[d] = tx[d] /\ ids'[d] = ids[d]
    /\ cands'[d] = cands[d] /\ ans'[d] = ans[d] /\ hits'[d] = hits[d]

LEMMA AbortOthers ==
  ASSUME Inv, NEW c \in Calls, NEW s, Abort(c, s)
  PROVE  OthersStay(c)
  BY DEF Inv, TypeOK, Abort, AnswerWith, EndCall, OthersStay

LEMMA OthersAreLeft ==
  ASSUME Inv, NEW c \in Calls, StepOf(c)
  PROVE  OthersStay(c)
<1>1. CASE \E s \in Errors : Abort(c, s)
  BY <1>1, AbortOthers
<1>2. CASE ReportMismatch(c)
  BY <1>2, AbortOthers DEF ReportMismatch
<1>3. CASE EmbedFails(c) \/ BusyTimeout(c) \/ StatementFails(c)
  BY <1>3, AbortOthers DEF EmbedFails, BusyTimeout, StatementFails
<1>4. CASE Receive(c)
  BY <1>4 DEF Receive, AnswerWith, Inv, TypeOK, OthersStay
<1>5. CASE BeginPut(c) /\ ~ReportMismatch(c)
  BY <1>5 DEF BeginPut, Inv, TypeOK, OthersStay
<1>6. CASE InsertChunk(c)
  BY <1>6 DEF InsertChunk, Inv, TypeOK, OthersStay
<1>7. CASE CommitPut(c)
  BY <1>7 DEF CommitPut, AnswerWith, EndCall, Inv, TypeOK, OthersStay
<1>8. CASE DeleteRows(c)
  BY <1>8 DEF DeleteRows, AnswerWith, Inv, TypeOK, OthersStay
<1>9. CASE (CheckSearch(c) /\ ~ReportMismatch(c)) \/ ReadCandidates(c)
  BY <1>9 DEF CheckSearch, ReadCandidates, Inv, TypeOK, OthersStay
<1>10. CASE ReadLexicalAndFuse(c)
  BY <1>10 DEF ReadLexicalAndFuse, AnswerWith, EndCall, Inv, TypeOK, OthersStay
<1>. QED
  BY <1>1, <1>2, <1>3, <1>4, <1>5, <1>6, <1>7, <1>8, <1>9, <1>10 DEF StepOf

LEMMA SayHasNoIds == \A s : Say(s).ids = <<>> /\ Len(Say(s).ids) = 0
  BY DEF Say

\* Names stay when rows only go.
LEMMA NamesStay ==
  ASSUME NameInv, db'.next = db.next, db'.rows \subseteq db.rows,
         \A d \in Calls : /\ ans'[d].ids = ans[d].ids
                          /\ job'[d] = job[d] \/ Len(ans[d].ids) = 0
  PROVE  NameInv'
<1>1. \A d \in Calls : \A i \in 1..Len(ans[d].ids) : job'[d] = job[d]
  OBVIOUS
<1>2. ASSUME NEW a \in Calls, NEW d \in Calls, NEW i \in 1..Len(ans'[a].ids),
             NEW j \in 1..Len(ans'[d].ids), ans'[a].ids[i] = ans'[d].ids[j]
      PROVE  \/ a = d /\ i = j
             \/ /\ a # d
                /\ Req(a)'.org = Req(d)'.org
                /\ Batch(a)'[i].ext = Batch(d)'[j].ext
                /\ Batch(a)'[i].ext # NoExt
  <2>1. Req(a)' = Req(a) /\ Req(d)' = Req(d) /\ Batch(a)' = Batch(a) /\ Batch(d)' = Batch(d)
    BY <1>1 DEF Req, Batch
  <2>2. i \in 1..Len(ans[a].ids) /\ j \in 1..Len(ans[d].ids) /\ ans[a].ids[i] = ans[d].ids[j]
    BY <1>2
  <2>. QED
    BY <2>1, <2>2 DEF NameInv, IdNamesOneChunk
<1>3. ASSUME NEW a \in Calls, NEW i \in 1..Len(ans'[a].ids), NEW row \in db'.rows,
             row.id = ans'[a].ids[i]
      PROVE  row.org = Req(a)'.org /\ row.ext = Batch(a)'[i].ext
  <2>1. Req(a)' = Req(a) /\ Batch(a)' = Batch(a)
    BY <1>1 DEF Req, Batch
  <2>2. i \in 1..Len(ans[a].ids) /\ row \in db.rows /\ row.id = ans[a].ids[i]
    BY <1>3
  <2>. QED
    BY <2>1, <2>2 DEF NameInv, IdNamesOneChunk
<1>4. IdNamesOneChunk'
  BY <1>2, <1>3 DEF IdNamesOneChunk
<1>5. \A d \in Calls : \A i \in 1..Len(ans'[d].ids) : ans'[d].ids[i] < db'.next
  BY DEF NameInv
<1>. QED
  BY <1>4, <1>5 DEF NameInv

\* A step of c that leaves the file alone, and after which c does not insert.
LEMMA AsideNInv ==
  ASSUME Inv, NInv, NEW c \in Calls, OthersStay(c), db' = db,
         pc[c] # "answered", pc'[c] # "insert",
         Len(ans'[c].ids) = 0, ans'[c].ids = <<>>,
         \A r \in cands'[c] : r \in cands[c] \/ r \in db.rows,
         \A h \in hits'[c] : \A e \in h.scored : e.org = h.row.org /\ e.ext = h.row.ext
  PROVE  OneWriter' /\ KeyInv' /\ WritersInv' /\ NameInv' /\ CandInv' /\ ScoresOfSameChunk'
<1>1. OneWriter' /\ KeyInv'
  BY DEF NInv, OneWriter, KeyInv, OthersStay
<1>2. WritersInv'
  <2>1. SUFFICES ASSUME NEW d \in Calls, pc'[d] = "insert" PROVE WriterInv(d)'
    BY DEF WritersInv
  <2>2. /\ pc[d] = "insert" /\ job'[d] = job[d] /\ tx'[d] = tx[d] /\ ids'[d] = ids[d]
        /\ WriterInv(d)
    BY <2>1 DEF OthersStay, NInv, WritersInv
  <2>. QED
    BY <2>2 DEF WriterInv, IdIsApt, NewRow, Req, Batch, Emb, Tok
<1>3. NameInv'
  <2>1. ans[c].ids = <<>> /\ Len(ans[c].ids) = 0
    BY SayHasNoIds DEF NInv, CallInv
  <2>2. \A d \in Calls : /\ ans'[d].ids = ans[d].ids
                         /\ job'[d] = job[d] \/ Len(ans[d].ids) = 0
    BY <2>1 DEF OthersStay
  <2>3. db'.next = db.next /\ db'.rows \subseteq db.rows
    OBVIOUS
  <2>. QED
    BY <2>2, <2>3, NamesStay DEF NInv
<1>4. CandInv'
  <2>1. \A r \in db.rows : \A e \in db.rows : e.id = r.id => e.org = r.org /\ e.ext = r.ext
    BY DEF NInv, KeyInv
  <2>. QED
    BY <2>1 DEF NInv, CandInv, KeyInv, OthersStay
<1>5. ScoresOfSameChunk'
  BY DEF NInv, ScoresOfSameChunk, OthersStay
<1>. QED
  BY <1>1, <1>2, <1>3, <1>4, <1>5

-----------------------------------------------------------------------------

LEMMA InitNInv == Init => NInv
<1>. SUFFICES ASSUME Init PROVE NInv
  OBVIOUS
<1>1. \A c \in Calls : ans[c].ids = <<>> /\ Len(ans[c].ids) = 0
  BY DEF Init, Say
<1>2. NameInv
  BY <1>1 DEF Init, NameInv, IdNamesOneChunk
<1>. QED
  BY <1>2 DEF Init, NInv, CallInv, OneWriter, KeyInv, WritersInv, CandInv, ScoresOfSameChunk

LEMMA AbortNInv ==
  ASSUME Inv, NInv, NEW c \in Calls, NEW s \in Errors, pc[c] \notin {"new", "answered"},
         Abort(c, s)
  PROVE  NInv'
<1>1. OthersStay(c)
  BY AbortOthers
<1>2. /\ db' = db /\ job' = job /\ hits' = hits /\ pc'[c] = "answered"
      /\ ans'[c] = Say(s) /\ cands'[c] = {} /\ ids'[c] = <<>>
  BY DEF Abort, AnswerWith, EndCall, Inv, TypeOK
<1>3. CallInv'
  BY <1>1, <1>2 DEF NInv, CallInv, OthersStay, Req
<1>4. ans'[c].ids = <<>> /\ Len(ans'[c].ids) = 0
  BY <1>2, SayHasNoIds
<1>5. \A h \in hits'[c] : \A e \in h.scored : e.org = h.row.org /\ e.ext = h.row.ext
  BY <1>2 DEF NInv, ScoresOfSameChunk
<1>6. pc[c] # "answered" /\ pc'[c] # "insert" /\ \A r \in cands'[c] : FALSE
  BY <1>2
<1>7. db' = db
  BY <1>2
<1>8. OneWriter' /\ KeyInv' /\ WritersInv' /\ NameInv' /\ CandInv' /\ ScoresOfSameChunk'
  BY <1>1, <1>7, <1>4, <1>5, <1>6, AsideNInv
<1>. QED
  BY <1>3, <1>8 DEF NInv

LEMMA ReportNInv ==
  ASSUME Inv, NInv, NEW c \in Calls, pc[c] \notin {"new", "answered"}, ReportMismatch(c)
  PROVE  NInv'
  BY AbortNInv DEF ReportMismatch, Errors

LEMMA ReceiveNInv ==
  ASSUME Inv, NInv, NEW c \in Calls, Receive(c)
  PROVE  NInv'
<1>1. OthersStay(c)
  BY OthersAreLeft DEF StepOf
<1>2. PICK p \in Procs, r \in Requests :
        /\ job' = [job EXCEPT ![c] = [made |-> TRUE, proc |-> p, req |-> r]]
        /\ IF Valid(r)
           THEN /\ pc' = [pc EXCEPT ![c] = IF IsPut(r) THEN "embed"
                                           ELSE IF IsDelete(r) THEN "delete"
                                           ELSE "check"]
                /\ UNCHANGED ans
           ELSE AnswerWith(c, Say("rejected"))
  BY DEF Receive
<1>3. pc[c] = "new" /\ UNCHANGED <<db, tx, ids, cands, hits>>
  BY DEF Receive
<1>4. job'[c].req = r /\ Req(c)' = r
  BY <1>2 DEF Inv, TypeOK, Req
<1>5. ans[c] = Say("none") /\ ids[c] = <<>>
  BY <1>3 DEF NInv, CallInv
<1>6. CASE ~Valid(r)
  <2>1. pc'[c] = "answered" /\ ans'[c] = Say("rejected")
    BY <1>2, <1>6 DEF AnswerWith, Inv, TypeOK
  <2>. QED
    <3>1. CallInv'
      BY <1>1, <1>3, <1>5, <2>1 DEF NInv, CallInv, OthersStay, Req
    <3>2. ans'[c].ids = <<>> /\ Len(ans'[c].ids) = 0
      BY <2>1, SayHasNoIds
    <3>3. pc[c] # "answered" /\ pc'[c] # "insert" /\ db' = db /\ cands' = cands
      BY <1>3, <2>1
    <3>4. \A h \in hits'[c] : \A e \in h.scored : e.org = h.row.org /\ e.ext = h.row.ext
      BY <1>3 DEF NInv, ScoresOfSameChunk
    <3>5. OneWriter' /\ KeyInv' /\ WritersInv' /\ NameInv' /\ CandInv' /\ ScoresOfSameChunk'
      BY <1>1, <3>2, <3>3, <3>4, AsideNInv
    <3>. QED
      BY <3>1, <3>5 DEF NInv
<1>7. CASE Valid(r)
  <2>1. ans' = ans
    BY <1>2, <1>7
  <2>2. /\ pc'[c] \in {"embed", "delete", "check"}
        /\ pc'[c] = "delete" => IsDelete(r)
        /\ pc'[c] = "check" => IsSearch(r)
    <3>1. IsPut(r) \/ IsDelete(r) \/ IsSearch(r)
      BY <1>7 DEF Valid
    <3>2. CASE IsPut(r)
      BY <3>2, <1>2, <1>7 DEF Inv, TypeOK
    <3>3. CASE ~IsPut(r) /\ IsDelete(r)
      BY <3>3, <1>2, <1>7 DEF Inv, TypeOK
    <3>4. CASE ~IsPut(r) /\ ~IsDelete(r)
      <4>1. IsSearch(r)
        BY <3>1, <3>4
      <4>. QED
        BY <4>1, <3>4, <1>2, <1>7 DEF Inv, TypeOK
    <3>. QED
      BY <3>2, <3>3, <3>4
  <2>. QED
    <3>1. CallInv'
      <4>1. SUFFICES ASSUME NEW d \in Calls
                     PROVE  /\ pc'[d] = "new" => job'[d] = NoJob
                            /\ pc'[d] # "answered" => ans'[d] = Say("none")
                            /\ pc'[d] \notin {"new", "answered"} => Valid(Req(d)')
                            /\ pc'[d] = "delete" => IsDelete(Req(d)')
                            /\ pc'[d] \in {"check", "candidates", "lexical"} => IsSearch(Req(d)')
                            /\ pc'[d] # "insert" => ids'[d] = <<>>
        BY DEF CallInv, Valid, IsPut, IsDelete, IsSearch
      <4>2. CASE d = c
        BY <4>2, <1>3, <1>4, <1>5, <1>7, <2>1, <2>2
      <4>3. CASE d # c
        <5>1. pc'[d] = pc[d] /\ job'[d] = job[d] /\ ids'[d] = ids[d] /\ Req(d)' = Req(d)
          BY <4>3, <1>1 DEF OthersStay, Req
        <5>. QED
          BY <5>1, <2>1 DEF NInv, CallInv
      <4>. QED
        BY <4>2, <4>3
    <3>2. ans'[c].ids = <<>> /\ Len(ans'[c].ids) = 0
      BY <2>1, <1>5, SayHasNoIds
    <3>3. pc[c] # "answered" /\ pc'[c] # "insert" /\ db' = db /\ cands' = cands
      BY <1>3, <2>2
    <3>4. \A h \in hits'[c] : \A e \in h.scored : e.org = h.row.org /\ e.ext = h.row.ext
      BY <1>3 DEF NInv, ScoresOfSameChunk
    <3>5. OneWriter' /\ KeyInv' /\ WritersInv' /\ NameInv' /\ CandInv' /\ ScoresOfSameChunk'
      BY <1>1, <3>2, <3>3, <3>4, AsideNInv
    <3>. QED
      BY <3>1, <3>5 DEF NInv
<1>. QED
  BY <1>6, <1>7

LEMMA BeginNInv ==
  ASSUME Inv, NInv, NEW c \in Calls, BeginPut(c)
  PROVE  NInv'
<1>1. OthersStay(c)
  BY OthersAreLeft DEF StepOf
<1>2. CASE ReportMismatch(c)
  BY <1>2, ReportNInv DEF BeginPut
<1>3. CASE ~ReportMismatch(c)
  <2>1. /\ LockFree /\ pc[c] = "embed" /\ pc'[c] = "insert" /\ tx'[c] = db
        /\ UNCHANGED <<db, job, ids, cands, ans, hits>>
    BY <1>3 DEF BeginPut, Inv, TypeOK
  <2>2. \A d \in Calls : pc[d] # "insert"
    BY <2>1 DEF LockFree, Inv, PcInv
  <2>3. ids'[c] = <<>> /\ Len(ids'[c]) = 0 /\ 0 <= Len(Batch(c))
    <3>1. ids[c] = <<>>
      BY <2>1 DEF NInv, CallInv
    <3>2. IsPut(Req(c)) /\ Req(c) \in Requests
      BY <2>1 DEF Inv, PcInv, Job, Req
    <3>3. Batch(c) \in Seq(ChunkInput)
      BY <3>2, PutShape DEF PutRequest, Batch, Req
    <3>. QED
      BY <2>1, <3>1, <3>3
  <2>4. CallInv'
    BY <1>1, <2>1 DEF NInv, CallInv, OthersStay, Req
  <2>5. OneWriter' /\ KeyInv' /\ NameInv' /\ CandInv' /\ ScoresOfSameChunk'
    <3>1. OneWriter'
      BY <1>1, <2>1, <2>2 DEF OneWriter, OthersStay
    <3>2. KeyInv' /\ CandInv' /\ ScoresOfSameChunk'
      BY <2>1 DEF NInv, KeyInv, CandInv, ScoresOfSameChunk
    <3>3. db'.next = db.next /\ db'.rows \subseteq db.rows /\ ans' = ans /\ job' = job
      BY <2>1
    <3>4. NameInv'
      BY <3>3, NamesStay DEF NInv
    <3>. QED
      BY <3>1, <3>2, <3>4
  <2>6. WritersInv'
    <3>1. SUFFICES WriterInv(c)'
      BY <1>1, <2>2 DEF WritersInv, OthersStay
    <3>2. tx'[c].rows = {row \in db.rows : \A i \in 1..0 : ids'[c][i] # row.id}
                          \cup {NewRow(c, i)' : i \in 1..0}
      BY <2>1
    <3>3. db.next \in Nat
      BY DEF Inv, TypeOK, Database
    <3>4. Batch(c)' = Batch(c)
      BY <2>1 DEF Batch
    <3>. QED
      BY <2>1, <2>3, <3>2, <3>3, <3>4 DEF WriterInv
  <2>. QED
    BY <2>4, <2>5, <2>6 DEF NInv
<1>. QED
  BY <1>2, <1>3

\* The keys of the batch of a Put that is under way, and of what it has written.
LEMMA BatchKeys ==
  ASSUME Inv, NInv, NEW c \in Calls, pc[c] = "insert"
  PROVE  /\ Batch(c) \in Seq(ChunkInput) /\ Len(Batch(c)) \in Nat /\ Len(ids[c]) \in Nat
         /\ \A i, j \in 1..Len(Batch(c)) :
              Batch(c)[i].ext = Batch(c)[j].ext /\ Batch(c)[i].ext # NoExt => i = j
         /\ \A i \in 1..Len(Batch(c)) : Batch(c)[i] \in ChunkInput
         /\ \A i \in 1..Len(ids[c]) : ids[c][i] \in Nat
         /\ WriterInv(c)
         /\ db.next \in Nat /\ tx[c].next \in Nat
<1>1. IsPut(Req(c)) /\ job[c] \in Job /\ Valid(Req(c)) /\ tx[c] \in Database
  BY DEF Inv, TypeOK, PcInv, NInv, CallInv
<1>2. Req(c) \in PutRequest
  BY <1>1, PutShape DEF Job, Req
<1>3. Batch(c) \in Seq(ChunkInput)
  BY <1>2 DEF PutRequest, Batch, Req
<1>4. ValidBatch(Req(c).org, Batch(c))
  BY <1>1, <1>2 DEF Valid, IsPut, IsDelete, IsSearch, Batch, Req
<1>5. ids[c] \in Seq(Nat)
  BY DEF Inv, TypeOK
<1>. QED
  BY <1>1, <1>3, <1>4, <1>5
  DEF ValidBatch, ExternalIDsAreDistinct, NInv, WritersInv, Inv, TypeOK, Database

LEMMA NewRowFields ==
  ASSUME NEW c, NEW i
  PROVE  /\ NewRow(c, i).id = ids[c][i] /\ NewRow(c, i).org = Req(c).org
         /\ NewRow(c, i).ext = Batch(c)[i].ext
         /\ NewRow(c, i).emb = Emb(c) /\ NewRow(c, i).tok = Tok(c)
  BY DEF NewRow, RowOf

\* The row the next chunk conflicts with is the committed one: what the
\* transaction itself has written has other external ids.
LEMMA StoredIsCommitted ==
  ASSUME Inv, NInv, NEW c \in Calls, pc[c] = "insert",
         NEW k \in 1..Len(Batch(c)), k = Len(ids[c]) + 1
  PROVE  /\ Stored(tx[c], Req(c).org, Batch(c)[k].ext)
              = {row \in db.rows : SameKey(row, Req(c).org, Batch(c)[k].ext)}
         /\ \A row \in db.rows : SameKey(row, Req(c).org, Batch(c)[k].ext) =>
              \A i \in 1..Len(ids[c]) : ids[c][i] # row.id
<1>. DEFINE n == Len(ids[c])
            o == Req(c).org
            x == Batch(c)[k].ext
<1>1. /\ n \in Nat /\ n <= Len(Batch(c)) /\ Len(Batch(c)) \in Nat
      /\ \A i \in 1..n : i \in 1..Len(Batch(c)) /\ i # k
  BY BatchKeys DEF WriterInv
<1>2. ASSUME NEW row \in tx[c].rows, SameKey(row, o, x)
      PROVE  row \in db.rows
  <2>1. row \in db.rows \/ \E i \in 1..n : row = NewRow(c, i)
    BY BatchKeys DEF WriterInv
  <2>2. ASSUME NEW i \in 1..n, row = NewRow(c, i) PROVE FALSE
    <3>1. Batch(c)[i].ext = x /\ x # NoExt
      BY <1>2, <2>2, NewRowFields DEF SameKey
    <3>. QED
      BY <1>1, <3>1, BatchKeys
  <2>. QED
    BY <2>1, <2>2
<1>3. ASSUME NEW row \in db.rows, SameKey(row, o, x)
      PROVE  row \in tx[c].rows /\ \A i \in 1..n : ids[c][i] # row.id
  <2>1. ASSUME NEW i \in 1..n, ids[c][i] = row.id PROVE FALSE
    <3>1. IdIsApt(c, i) /\ row.id < db.next /\ ids[c][i] \in Nat
      BY BatchKeys DEF WriterInv, NInv, KeyInv
    <3>2. PICK r \in db.rows : SameKey(r, o, Batch(c)[i].ext) /\ ids[c][i] = r.id
      BY <2>1, <3>1, BatchKeys DEF IdIsApt
    <3>3. r = row
      BY <2>1, <3>2 DEF NInv, KeyInv
    <3>4. Batch(c)[i].ext = x /\ x # NoExt
      BY <1>3, <3>2, <3>3 DEF SameKey
    <3>. QED
      BY <1>1, <3>4, BatchKeys
  <2>. QED
    BY <2>1, BatchKeys DEF WriterInv
<1>. QED
  BY <1>2, <1>3 DEF Stored

\* What an INSERT returns, and what it makes of the file its transaction sees.
LEMMA InsertedIs ==
  ASSUME Inv, NInv, NEW c \in Calls, pc[c] = "insert",
         NEW k \in 1..Len(Batch(c)), k = Len(ids[c]) + 1,
         NEW new \in Inserted(tx[c], Req(c).org, Batch(c)[k], Emb(c), Tok(c))
  PROVE  /\ new.id \in Nat /\ new.id < new.db.next /\ new.db.next >= tx[c].next
         /\ new.db.next \in Nat
         /\ \A i \in 1..Len(ids[c]) : ids[c][i] # new.id
         /\ new.db.rows = {row \in tx[c].rows : row.id # new.id}
                            \cup {RowOf(new.id, Req(c).org, Batch(c)[k], Emb(c), Tok(c))}
         /\ \/ \E row \in db.rows :
                 SameKey(row, Req(c).org, Batch(c)[k].ext) /\ new.id = row.id
            \/ /\ \A row \in db.rows : ~SameKey(row, Req(c).org, Batch(c)[k].ext)
               /\ new.id >= db.next
<1>. DEFINE n == Len(ids[c])
            o == Req(c).org
            ch == Batch(c)[k]
            old == Stored(tx[c], o, ch.ext)
            R(id) == RowOf(id, o, ch, Emb(c), Tok(c))
<1>1. old = {row \in db.rows : SameKey(row, o, ch.ext)}
  BY StoredIsCommitted
<1>2. /\ n \in Nat /\ n <= Len(Batch(c)) /\ Len(Batch(c)) \in Nat
      /\ \A i \in 1..n : i \in 1..Len(Batch(c)) /\ i # k
      /\ tx[c].next \in Nat /\ db.next \in Nat /\ db.next <= tx[c].next
      /\ \A i \in 1..n : ids[c][i] \in Nat /\ ids[c][i] < tx[c].next
  BY BatchKeys DEF WriterInv
<1>3. \A row \in tx[c].rows : row.id < tx[c].next /\ row.id \in Nat
  <2>1. SUFFICES ASSUME NEW row \in tx[c].rows PROVE row.id < tx[c].next /\ row.id \in Nat
    OBVIOUS
  <2>2. CASE row \in db.rows
    BY <2>2, <1>2 DEF NInv, KeyInv, Inv, TypeOK, Database, Row
  <2>3. CASE \E i \in 1..n : row = NewRow(c, i)
    BY <2>3, <1>2, NewRowFields
  <2>. QED
    BY <2>2, <2>3, BatchKeys DEF WriterInv
<1>4. CASE old = {}
  <2>1. new = [id |-> tx[c].next,
               db |-> [rows  |-> tx[c].rows \cup {R(tx[c].next)},
                       index |-> tx[c].index \cup {R(tx[c].next)},
                       next  |-> tx[c].next + 1]]
    BY <1>4 DEF Inserted, FreshId, AfterInsert, RowOf
  <2>2. new.id = tx[c].next /\ new.db.rows = tx[c].rows \cup {R(new.id)}
        /\ new.db.next = tx[c].next + 1
    BY <2>1
  <2>3. {row \in tx[c].rows : row.id # new.id} = tx[c].rows
    BY <1>2, <1>3, <2>2
  <2>4. \A row \in db.rows : ~SameKey(row, o, ch.ext)
    BY <1>1, <1>4
  <2>. HIDE DEF R
  <2>5. new.db.rows = {row \in tx[c].rows : row.id # new.id} \cup {R(new.id)}
    BY <2>2, <2>3
  <2>6. /\ new.id \in Nat /\ new.id < new.db.next /\ new.db.next >= tx[c].next
        /\ new.db.next \in Nat /\ new.id >= db.next
        /\ \A i \in 1..n : ids[c][i] # new.id
    BY <1>2, <2>2
  <2>. QED
    BY <2>4, <2>5, <2>6 DEF R
<1>5. CASE old # {}
  <2>1. PICK e \in old, m \in {tx[c].next, tx[c].next + 1} :
          new = [id |-> e.id,
                 db |-> [rows  |-> (tx[c].rows \ old) \cup {R(e.id)},
                         index |-> (tx[c].index \ old) \cup {R(e.id)},
                         next  |-> m]]
    BY <1>5 DEF Inserted, AfterUpdate
  <2>2. new.id = e.id /\ new.db.rows = (tx[c].rows \ old) \cup {R(e.id)} /\ new.db.next = m
    BY <2>1
  <2>3. e \in tx[c].rows /\ e \in db.rows /\ SameKey(e, o, ch.ext)
    BY <1>1 DEF Stored
  <2>4. \A row \in old : row = e
    <3>1. ASSUME NEW row \in old PROVE row = e
      <4>1. row \in db.rows /\ SameKey(row, o, ch.ext)
        BY <1>1
      <4>2. SameKey(row, e.org, e.ext)
        BY <2>3, <4>1 DEF SameKey
      <4>. QED
        BY <2>3, <4>1, <4>2 DEF NInv, KeyInv
    <3>. QED
      BY <3>1
  <2>5. \A i \in 1..n : ids[c][i] # e.id
    BY <2>3, StoredIsCommitted
  <2>6. \A row \in tx[c].rows : row.id = e.id => row = e
    <3>1. SUFFICES ASSUME NEW row \in tx[c].rows, row.id = e.id PROVE row = e
      OBVIOUS
    <3>2. CASE row \in db.rows
      BY <3>1, <3>2, <2>3 DEF NInv, KeyInv
    <3>3. CASE \E i \in 1..n : row = NewRow(c, i)
      BY <3>1, <3>3, <2>5, NewRowFields
    <3>. QED
      BY <3>2, <3>3, BatchKeys DEF WriterInv
  <2>. HIDE DEF R
  <2>7. new.db.rows = {row \in tx[c].rows : row.id # new.id} \cup {R(new.id)}
    <3>1. tx[c].rows \ old = {row \in tx[c].rows : row.id # e.id}
      BY <2>4, <2>6
    <3>. QED
      BY <3>1, <2>2
  <2>8. /\ new.id \in Nat /\ new.id < new.db.next /\ new.db.next >= tx[c].next
        /\ new.db.next \in Nat
    BY <1>2, <1>3, <2>2, <2>3
  <2>. QED
    BY <2>2, <2>3, <2>5, <2>7, <2>8 DEF R
<1>. QED
  BY <1>4, <1>5

LEMMA InsertNInv ==
  ASSUME Inv, NInv, NEW c \in Calls, InsertChunk(c)
  PROVE  NInv'
<1>. DEFINE n == Len(ids[c])
            k == Len(ids[c]) + 1
            o == Req(c).org
<1>1. OthersStay(c)
  BY OthersAreLeft DEF StepOf
<1>2. /\ pc[c] = "insert" /\ n < Len(Batch(c))
      /\ UNCHANGED <<db, pc, job, cands, ans, hits>>
  BY DEF InsertChunk
<1>3. PICK new \in Inserted(tx[c], o, Batch(c)[k], Emb(c), Tok(c)) :
        /\ tx' = [tx EXCEPT ![c] = new.db]
        /\ ids' = [ids EXCEPT ![c] = Append(@, new.id)]
  BY DEF InsertChunk
<1>4. tx'[c] = new.db /\ ids'[c] = Append(ids[c], new.id)
  BY <1>3 DEF Inv, TypeOK
<1>5. n \in Nat /\ Len(Batch(c)) \in Nat /\ k \in 1..Len(Batch(c)) /\ k = n + 1
  BY <1>2, BatchKeys
<1>6. /\ new.id \in Nat /\ new.id < new.db.next /\ new.db.next >= tx[c].next
      /\ new.db.next \in Nat
      /\ \A i \in 1..n : ids[c][i] # new.id
      /\ new.db.rows = {row \in tx[c].rows : row.id # new.id}
                         \cup {RowOf(new.id, o, Batch(c)[k], Emb(c), Tok(c))}
      /\ \/ \E row \in db.rows : SameKey(row, o, Batch(c)[k].ext) /\ new.id = row.id
         \/ /\ \A row \in db.rows : ~SameKey(row, o, Batch(c)[k].ext)
            /\ new.id >= db.next
  BY <1>2, <1>5, InsertedIs
<1>7. /\ ids[c] \in Seq(Nat) /\ Len(ids'[c]) = k
      /\ \A i \in 1..n : ids'[c][i] = ids[c][i]
      /\ ids'[c][k] = new.id
      /\ \A i \in 1..k : i \in 1..n \/ i = k
  BY <1>4, <1>5, <1>6 DEF Inv, TypeOK
<1>8. Batch(c)' = Batch(c) /\ Req(c)' = Req(c) /\ job' = job /\ db' = db
  BY <1>2 DEF Batch, Req
<1>old. /\ n <= Len(Batch(c)) /\ n = Len(ids[c])
        /\ tx[c].rows = {row \in db.rows : \A i \in 1..n : ids[c][i] # row.id}
                          \cup {NewRow(c, i) : i \in 1..n}
        /\ \A i, j \in 1..n : ids[c][i] = ids[c][j] => i = j
        /\ \A i \in 1..n : IdIsApt(c, i) /\ ids[c][i] < tx[c].next /\ ids[c][i] \in Nat
        /\ db.next <= tx[c].next /\ tx[c].next \in Nat /\ db.next \in Nat
  BY <1>2, BatchKeys DEF WriterInv
<1>. HIDE DEF n, k, o
<1>9. Emb(c)' = Emb(c) /\ Tok(c)' = Tok(c)
  BY <1>2 DEF Emb, Tok
<1>. DEFINE R(i) == RowOf(ids'[c][i], o, Batch(c)[i], Emb(c), Tok(c))
<1>10. tx'[c].rows = {row \in db.rows : \A i \in 1..k : ids'[c][i] # row.id}
                       \cup {R(i) : i \in 1..k}
  <2>1. {row \in tx[c].rows : row.id # new.id}
          = {row \in db.rows : \A i \in 1..k : ids'[c][i] # row.id}
              \cup {NewRow(c, i) : i \in 1..n}
    <3>1. \A row \in {NewRow(c, i) : i \in 1..n} : row.id # new.id
      BY <1>6, NewRowFields DEF n
    <3>2. {row \in {row \in db.rows : \A i \in 1..n : ids[c][i] # row.id} : row.id # new.id}
            = {row \in db.rows : \A i \in 1..k : ids'[c][i] # row.id}
      <4>1. \A row \in db.rows : (\A i \in 1..k : ids'[c][i] # row.id)
              <=> (\A i \in 1..n : ids[c][i] # row.id) /\ row.id # new.id
        BY <1>5, <1>7
      <4>. QED
        BY <4>1
    <3>. QED
      BY <1>old, <3>1, <3>2
  <2>2. {R(i) : i \in 1..k}
          = {NewRow(c, i) : i \in 1..n} \cup {RowOf(new.id, o, Batch(c)[k], Emb(c), Tok(c))}
    <3>1. \A i \in 1..n : i \in 1..k /\ R(i) = NewRow(c, i)
      BY <1>5, <1>7 DEF NewRow, o
    <3>2. k \in 1..k /\ R(k) = RowOf(new.id, o, Batch(c)[k], Emb(c), Tok(c))
      BY <1>5, <1>7
    <3>. QED
      BY <3>1, <3>2, <1>7
  <2>. QED
    BY <1>4, <1>6, <2>1, <2>2
<1>11. WriterInv(c)'
  <2>1. k <= Len(Batch(c))
    BY <1>5
  <2>2. \A i, j \in 1..k : ids'[c][i] = ids'[c][j] => i = j
    BY <1>old, <1>5, <1>6, <1>7
  <2>3. ASSUME NEW i \in 1..k
        PROVE  ids'[c][i] < new.db.next
    <3>1. CASE i \in 1..n
      <4>1. /\ ids[c][i] \in Nat /\ ids[c][i] < tx[c].next /\ tx[c].next \in Nat
            /\ ids'[c][i] = ids[c][i]
        BY <1>old, <1>7, <3>1
      <4>. QED
        BY <4>1, <1>6
    <3>2. CASE i = k
      BY <1>6, <1>7, <3>2
    <3>. QED
      BY <3>1, <3>2, <1>7
  <2>4. ASSUME NEW i \in 1..k
        PROVE  \/ \E row \in db.rows :
                    SameKey(row, o, Batch(c)[i].ext) /\ ids'[c][i] = row.id
               \/ /\ \A row \in db.rows : ~SameKey(row, o, Batch(c)[i].ext)
                  /\ ids'[c][i] >= db.next
    <3>1. CASE i \in 1..n
      <4>1. IdIsApt(c, i)
        BY <1>old, <3>1
      <4>. QED
        BY <4>1, <1>7, <3>1 DEF IdIsApt, o
    <3>2. CASE i = k
      BY <1>6, <1>7, <3>2
    <3>. QED
      BY <3>1, <3>2, <1>7
  <2>5. db.next <= new.db.next
    BY <1>old, <1>6
  <2>6. /\ Len(ids'[c]) = k /\ db'.next <= tx'[c].next
        /\ \A i \in 1..k : ids'[c][i] < tx'[c].next
    BY <1>4, <1>7, <1>8, <2>3, <2>5
  <2>. QED
    BY <1>7, <1>8, <1>9, <1>10, <2>1, <2>2, <2>4, <2>6
    DEF WriterInv, IdIsApt, NewRow, o
<1>12. WritersInv'
  <2>1. SUFFICES ASSUME NEW d \in Calls, pc'[d] = "insert" PROVE d = c
    BY <1>11 DEF WritersInv
  <2>. QED
    BY <2>1, <1>2 DEF NInv, OneWriter
<1>13. CallInv' /\ OneWriter' /\ KeyInv' /\ CandInv' /\ ScoresOfSameChunk'
  BY <1>1, <1>2 DEF NInv, CallInv, OneWriter, KeyInv, CandInv, ScoresOfSameChunk, OthersStay, Req
<1>14. NameInv'
  <2>1. db'.next = db.next /\ db'.rows \subseteq db.rows /\ ans' = ans /\ job' = job
    BY <1>2
  <2>. QED
    BY <2>1, NamesStay DEF NInv
<1>. QED
  BY <1>12, <1>13, <1>14 DEF NInv

\* A batch that uses an id the file knows uses it for the chunk that has it.
LEMMA OldNames ==
  ASSUME Inv, NInv, NEW c \in Calls, pc[c] = "insert",
         NEW i \in 1..Len(ids[c]), ids[c][i] < db.next
  PROVE  \E row \in db.rows : /\ row.id = ids[c][i] /\ row.org = Req(c).org
                              /\ row.ext = Batch(c)[i].ext /\ row.ext # NoExt
<1>1. IdIsApt(c, i) /\ ids[c][i] \in Nat /\ db.next \in Nat
  BY BatchKeys DEF WriterInv
<1>. QED
  BY <1>1 DEF IdIsApt, SameKey

\* The rows a transaction sees are told apart by their ids and their keys.
LEMMA WrittenKeys ==
  ASSUME Inv, NInv, NEW c \in Calls, pc[c] = "insert"
  PROVE  /\ \A r1, r2 \in tx[c].rows : r1.id = r2.id \/ SameKey(r2, r1.org, r1.ext) => r1 = r2
         /\ \A row \in tx[c].rows : row.id < tx[c].next
<1>. DEFINE n == Len(ids[c])
<1>1. /\ n \in Nat /\ n <= Len(Batch(c)) /\ Len(Batch(c)) \in Nat
      /\ tx[c].rows = {row \in db.rows : \A i \in 1..n : ids[c][i] # row.id}
                        \cup {NewRow(c, i) : i \in 1..n}
      /\ \A i, j \in 1..n : ids[c][i] = ids[c][j] => i = j
      /\ \A i \in 1..n : /\ IdIsApt(c, i) /\ ids[c][i] < tx[c].next /\ ids[c][i] \in Nat
                         /\ i \in 1..Len(Batch(c))
      /\ db.next <= tx[c].next /\ tx[c].next \in Nat /\ db.next \in Nat
  BY BatchKeys DEF WriterInv
<1>2. \A row \in db.rows : row.id < db.next /\ row.id \in Nat
  BY DEF NInv, KeyInv, Inv, TypeOK, Database, Row
<1>. HIDE DEF n
<1>3. ASSUME NEW row \in db.rows, \A i \in 1..n : ids[c][i] # row.id,
             NEW i \in 1..n
      PROVE  row.id # ids[c][i] /\ ~SameKey(row, Req(c).org, Batch(c)[i].ext)
  <2>1. IdIsApt(c, i) /\ row.id # ids[c][i]
    BY <1>1, <1>3
  <2>2. ASSUME SameKey(row, Req(c).org, Batch(c)[i].ext) PROVE FALSE
    <3>1. PICK r \in db.rows : SameKey(r, Req(c).org, Batch(c)[i].ext) /\ ids[c][i] = r.id
      BY <2>1, <2>2 DEF IdIsApt
    <3>2. SameKey(r, row.org, row.ext)
      BY <2>2, <3>1 DEF SameKey
    <3>. QED
      BY <2>1, <3>1, <3>2 DEF NInv, KeyInv
  <2>. QED
    BY <2>1, <2>2
<1>4. ASSUME NEW i \in 1..n, NEW j \in 1..n,
             NewRow(c, i).id = NewRow(c, j).id
               \/ SameKey(NewRow(c, j), NewRow(c, i).org, NewRow(c, i).ext)
      PROVE  i = j
  <2>1. CASE ids[c][i] = ids[c][j]
    BY <2>1, <1>1
  <2>2. CASE Batch(c)[i].ext = Batch(c)[j].ext /\ Batch(c)[i].ext # NoExt
    BY <2>2, <1>1, BatchKeys
  <2>. QED
    BY <1>4, <2>1, <2>2, NewRowFields DEF SameKey
<1>5. ASSUME NEW r1 \in tx[c].rows, NEW r2 \in tx[c].rows,
             r1.id = r2.id \/ SameKey(r2, r1.org, r1.ext)
      PROVE  r1 = r2
  <2>1. CASE r1 \in db.rows /\ r2 \in db.rows
    BY <2>1, <1>5 DEF NInv, KeyInv
  <2>2. ASSUME NEW i \in 1..n, r1 = NewRow(c, i), r2 \in db.rows,
               \A j \in 1..n : ids[c][j] # r2.id
        PROVE  FALSE
    BY <2>2, <1>3, <1>5, NewRowFields DEF SameKey
  <2>3. ASSUME NEW i \in 1..n, r2 = NewRow(c, i), r1 \in db.rows,
               \A j \in 1..n : ids[c][j] # r1.id
        PROVE  FALSE
    BY <2>3, <1>3, <1>5, NewRowFields DEF SameKey
  <2>4. ASSUME NEW i \in 1..n, NEW j \in 1..n, r1 = NewRow(c, i), r2 = NewRow(c, j)
        PROVE  r1 = r2
    BY <2>4, <1>4, <1>5
  <2>. QED
    BY <1>1, <2>1, <2>2, <2>3, <2>4
<1>6. ASSUME NEW row \in tx[c].rows PROVE row.id < tx[c].next
  BY <1>1, <1>2, <1>6, NewRowFields
<1>. QED
  BY <1>5, <1>6

LEMMA CommitNInv ==
  ASSUME Inv, NInv, NEW c \in Calls, CommitPut(c)
  PROVE  NInv'
<1>1. OthersStay(c)
  BY OthersAreLeft DEF StepOf
<1>2. /\ pc[c] = "insert" /\ pc'[c] = "answered" /\ db' = tx[c] /\ job' = job /\ hits' = hits
      /\ ids'[c] = <<>> /\ cands'[c] = {}
      /\ ans'[c].ids = ids[c] \/ (ans'[c].ids = <<>> /\ Len(ans'[c].ids) = 0)
  <2>1. /\ pc[c] = "insert" /\ db' = tx[c] /\ job' = job /\ hits' = hits
        /\ ids' = [ids EXCEPT ![c] = <<>>] /\ cands' = [cands EXCEPT ![c] = {}]
    BY DEF CommitPut, EndCall
  <2>2. PICK a \in {[status |-> "ok", ids |-> ids[c], count |-> Len(ids[c])], Say("lost")} :
          AnswerWith(c, a)
    BY DEF CommitPut
  <2>3. pc'[c] = "answered" /\ ans'[c] = a
    BY <2>2 DEF AnswerWith, Inv, TypeOK
  <2>4. a.ids = ids[c] \/ (a.ids = <<>> /\ Len(a.ids) = 0)
    BY SayHasNoIds
  <2>5. ids'[c] = <<>> /\ cands'[c] = {}
    BY <2>1 DEF Inv, TypeOK
  <2>. QED
    BY <2>1, <2>3, <2>4, <2>5
<1>3. \A d \in Calls : pc'[d] # "insert"
  BY <1>1, <1>2 DEF NInv, OneWriter, OthersStay
<1>4. CallInv'
  BY <1>1, <1>2 DEF NInv, CallInv, OthersStay, Req
<1>5. OneWriter' /\ WritersInv' /\ ScoresOfSameChunk'
  BY <1>2, <1>3 DEF NInv, OneWriter, WritersInv, ScoresOfSameChunk
<1>6. KeyInv'
  BY <1>2, WrittenKeys DEF KeyInv
<1>7. /\ db.next <= tx[c].next /\ tx[c].next \in Nat /\ db.next \in Nat
      /\ \A i \in 1..Len(ids[c]) : ids[c][i] < tx[c].next /\ ids[c][i] \in Nat
      /\ \A i, j \in 1..Len(ids[c]) : ids[c][i] = ids[c][j] => i = j
      /\ \A row \in tx[c].rows : row \in db.rows \/ \E i \in 1..Len(ids[c]) : row = NewRow(c, i)
  BY <1>2, BatchKeys DEF WriterInv
<1>8. \A d \in Calls \ {c} : ans'[d] = ans[d]
  BY <1>1 DEF OthersStay
<1>9. \A d \in Calls : Req(d)' = Req(d) /\ Batch(d)' = Batch(d)
  BY <1>2 DEF Req, Batch
<1>10. \A d \in Calls : \A i \in 1..Len(ans[d].ids) : ans[d].ids[i] < db.next /\ ans[d].ids[i] \in Nat
  BY DEF NInv, NameInv, Inv, TypeOK, Answer
\* An id of this batch that somebody has been given is one of the file.
<1>11. ASSUME NEW d \in Calls \ {c}, NEW j \in 1..Len(ans[d].ids),
              NEW i \in 1..Len(ids[c]), ids[c][i] = ans[d].ids[j]
       PROVE  /\ Req(c).org = Req(d).org /\ Batch(c)[i].ext = Batch(d)[j].ext
              /\ Batch(c)[i].ext # NoExt
  <2>1. ids[c][i] < db.next
    BY <1>10, <1>11
  <2>2. PICK row \in db.rows : /\ row.id = ids[c][i] /\ row.org = Req(c).org
                               /\ row.ext = Batch(c)[i].ext /\ row.ext # NoExt
    BY <1>2, <2>1, OldNames
  <2>3. row.org = Req(d).org /\ row.ext = Batch(d)[j].ext
    BY <1>11, <2>2 DEF NInv, NameInv, IdNamesOneChunk
  <2>. QED
    BY <2>2, <2>3
<1>12. ASSUME NEW a \in Calls, NEW d \in Calls, NEW i \in 1..Len(ans'[a].ids),
              NEW j \in 1..Len(ans'[d].ids), ans'[a].ids[i] = ans'[d].ids[j]
       PROVE  \/ a = d /\ i = j
              \/ /\ a # d
                 /\ Req(a).org = Req(d).org
                 /\ Batch(a)[i].ext = Batch(d)[j].ext
                 /\ Batch(a)[i].ext # NoExt
  <2>1. CASE a # c /\ d # c
    BY <2>1, <1>8, <1>12 DEF NInv, NameInv, IdNamesOneChunk
  <2>2. CASE a = c /\ d = c
    BY <2>2, <1>2, <1>7, <1>12
  <2>3. CASE a = c /\ d # c
    BY <2>3, <1>2, <1>8, <1>11, <1>12
  <2>4. CASE a # c /\ d = c
    BY <2>4, <1>2, <1>8, <1>11, <1>12
  <2>. QED
    BY <2>1, <2>2, <2>3, <2>4
<1>13. ASSUME NEW a \in Calls, NEW i \in 1..Len(ans'[a].ids), NEW row \in tx[c].rows,
              row.id = ans'[a].ids[i]
       PROVE  row.org = Req(a).org /\ row.ext = Batch(a)[i].ext
  <2>1. CASE a # c /\ row \in db.rows
    BY <2>1, <1>8, <1>13 DEF NInv, NameInv, IdNamesOneChunk
  <2>2. ASSUME a # c, NEW k \in 1..Len(ids[c]), row = NewRow(c, k)
        PROVE  row.org = Req(a).org /\ row.ext = Batch(a)[i].ext
    BY <2>2, <1>8, <1>11, <1>13, NewRowFields
  <2>3. CASE a = c
    <3>1. ans'[c].ids = ids[c] /\ i \in 1..Len(ids[c])
      BY <2>3, <1>2, <1>13
    <3>2. NewRow(c, i) \in tx[c].rows /\ NewRow(c, i).id = row.id
      BY <2>3, <3>1, <1>2, <1>13, BatchKeys, NewRowFields DEF WriterInv
    <3>3. row = NewRow(c, i)
      BY <3>2, <1>2, WrittenKeys
    <3>. QED
      BY <2>3, <3>3, NewRowFields
  <2>. QED
    BY <1>7, <2>1, <2>2, <2>3
<1>14. IdNamesOneChunk'
  BY <1>2, <1>9, <1>12, <1>13 DEF IdNamesOneChunk
<1>15. \A d \in Calls : \A i \in 1..Len(ans'[d].ids) : ans'[d].ids[i] < tx[c].next
  <2>1. SUFFICES ASSUME NEW d \in Calls, NEW i \in 1..Len(ans'[d].ids)
                 PROVE  ans'[d].ids[i] < tx[c].next
    OBVIOUS
  <2>2. CASE d = c
    BY <2>2, <1>2, <1>7
  <2>3. CASE d # c
    BY <2>3, <1>7, <1>8, <1>10
  <2>. QED
    BY <2>2, <2>3
<1>16. NameInv'
  BY <1>2, <1>14, <1>15 DEF NameInv
<1>17. CandInv'
  <2>1. SUFFICES ASSUME NEW d \in Calls, NEW r \in cands'[d]
                 PROVE  /\ r.id < tx[c].next
                        /\ \A e \in tx[c].rows : e.id = r.id => e.org = r.org /\ e.ext = r.ext
    BY <1>2 DEF CandInv
  <2>2. /\ r \in cands[d] /\ r.id < db.next /\ r.id \in Nat
        /\ \A e \in db.rows : e.id = r.id => e.org = r.org /\ e.ext = r.ext
    <3>1. r \in cands[d]
      BY <1>1, <1>2, <2>1 DEF OthersStay
    <3>2. r \in Row
      BY <3>1 DEF Inv, TypeOK
    <3>. QED
      BY <3>1, <3>2 DEF NInv, CandInv, Row
  <2>3. ASSUME NEW i \in 1..Len(ids[c]), ids[c][i] = r.id
        PROVE  Req(c).org = r.org /\ Batch(c)[i].ext = r.ext
    BY <1>2, <2>2, <2>3, OldNames
  <2>. QED
    BY <1>7, <2>2, <2>3, NewRowFields
<1>. QED
  BY <1>4, <1>5, <1>6, <1>16, <1>17 DEF NInv

LEMMA DeleteNInv ==
  ASSUME Inv, NInv, NEW c \in Calls, DeleteRows(c)
  PROVE  NInv'
<1>. DEFINE gone == {row \in db.rows : DeleteMatches(Req(c), row)}
<1>1. OthersStay(c)
  BY OthersAreLeft DEF StepOf
<1>2. /\ pc[c] = "delete" /\ LockFree
      /\ db' = [db EXCEPT !.rows = @ \ gone, !.index = @ \ gone]
      /\ UNCHANGED <<job, tx, ids, cands, hits>>
  BY DEF DeleteRows, AfterDelete
<1>3. PICK a \in {[status |-> "ok", ids |-> <<>>, count |-> RowsAffected(gone)], Say("lost")} :
        AnswerWith(c, a)
  BY DEF DeleteRows
<1>4. pc'[c] = "answered" /\ ans'[c] = a /\ a.ids = <<>> /\ ans[c].ids = <<>>
  <2>1. ans[c] = Say("none")
    BY <1>2 DEF NInv, CallInv
  <2>2. a.ids = <<>>
    BY SayHasNoIds
  <2>. QED
    BY <1>3, <2>1, <2>2, SayHasNoIds DEF AnswerWith, Inv, TypeOK
<1>5. db'.rows \subseteq db.rows /\ db'.next = db.next
  BY <1>2 DEF Inv, TypeOK, Database
<1>6. \A d \in Calls : pc[d] # "insert" /\ pc'[d] # "insert"
  <2>1. \A d \in Calls : pc[d] # "insert"
    BY <1>2 DEF LockFree, Inv, PcInv
  <2>. QED
    BY <1>1, <1>4, <2>1 DEF OthersStay
<1>7. CallInv'
  BY <1>1, <1>2, <1>4 DEF NInv, CallInv, OthersStay, Req
<1>8. OneWriter' /\ WritersInv' /\ ScoresOfSameChunk'
  BY <1>2, <1>6 DEF NInv, OneWriter, WritersInv, ScoresOfSameChunk
<1>9. KeyInv' /\ CandInv'
  BY <1>2, <1>5 DEF NInv, KeyInv, CandInv
<1>10. NameInv'
  <2>1. \A d \in Calls : ans'[d].ids = ans[d].ids /\ job'[d] = job[d]
    BY <1>1, <1>2, <1>4 DEF OthersStay
  <2>. QED
    BY <1>5, <2>1, NamesStay DEF NInv
<1>. QED
  BY <1>7, <1>8, <1>9, <1>10 DEF NInv

LEMMA ReadNInv ==
  ASSUME Inv, NInv, NEW c \in Calls, CheckSearch(c) \/ ReadCandidates(c)
  PROVE  NInv'
<1>1. pc[c] \in {"check", "candidates"}
  BY DEF CheckSearch, ReadCandidates
<1>2. CASE ReportMismatch(c)
  BY <1>1, <1>2, ReportNInv
<1>3. CASE ~ReportMismatch(c)
  <2>1. OthersStay(c)
    BY OthersAreLeft DEF StepOf
  <2>2. /\ pc'[c] \in {"candidates", "lexical"}
        /\ UNCHANGED <<db, job, tx, ids, ans, hits>>
        /\ \A r \in cands'[c] : r \in cands[c] \/ r \in db.rows
    BY <1>3 DEF CheckSearch, ReadCandidates, Inv, TypeOK
  <2>3. CallInv'
    BY <1>1, <2>1, <2>2 DEF NInv, CallInv, OthersStay, Req
  <2>4. ans'[c].ids = <<>> /\ Len(ans'[c].ids) = 0
    BY <1>1, <2>2, SayHasNoIds DEF NInv, CallInv
  <2>5. pc[c] # "answered" /\ pc'[c] # "insert" /\ db' = db
    BY <1>1, <2>2
  <2>6. \A h \in hits'[c] : \A e \in h.scored : e.org = h.row.org /\ e.ext = h.row.ext
    BY <2>2 DEF NInv, ScoresOfSameChunk
  <2>7. OneWriter' /\ KeyInv' /\ WritersInv' /\ NameInv' /\ CandInv' /\ ScoresOfSameChunk'
    BY <2>1, <2>2, <2>4, <2>5, <2>6, AsideNInv
  <2>. QED
    BY <2>3, <2>7 DEF NInv
<1>. QED
  BY <1>2, <1>3

\* The candidates and the scores are of two snapshots; the ids join them.
LEMMA FuseNInv ==
  ASSUME Inv, NInv, NEW c \in Calls, ReadLexicalAndFuse(c)
  PROVE  NInv'
<1>1. OthersStay(c)
  BY OthersAreLeft DEF StepOf
<1>2. PICK scores \in SUBSET Scorable(c), top \in SUBSET cands[c] :
        hits' = [hits EXCEPT ![c] = Fused(top, scores)]
  BY DEF ReadLexicalAndFuse
<1>3. /\ pc[c] = "lexical" /\ pc'[c] = "answered" /\ ans'[c] = Say("ok")
      /\ ids'[c] = <<>> /\ cands'[c] = {} /\ db' = db /\ job' = job
      /\ hits'[c] = Fused(top, scores)
  BY <1>2 DEF ReadLexicalAndFuse, AnswerWith, EndCall, Inv, TypeOK
<1>4. \A h \in hits'[c] : \A e \in h.scored : e.org = h.row.org /\ e.ext = h.row.ext
  <2>1. SUFFICES ASSUME NEW h \in Fused(top, scores), NEW e \in h.scored
                 PROVE  e.org = h.row.org /\ e.ext = h.row.ext
    BY <1>3
  <2>2. PICK row \in top : h = [row |-> row, scored |-> {x \in scores : x.id = row.id}]
    BY DEF Fused
  <2>3. row \in cands[c] /\ e \in scores /\ e.id = row.id /\ h.row = row
    BY <2>1, <2>2
  <2>4. e \in db.rows
    BY <2>3 DEF Scorable, Inv, StepInv, IndexInStep
  <2>. QED
    BY <2>3, <2>4 DEF NInv, CandInv
<1>5. CallInv'
  BY <1>1, <1>3 DEF NInv, CallInv, OthersStay, Req
<1>6. ans'[c].ids = <<>> /\ Len(ans'[c].ids) = 0
  BY <1>3, SayHasNoIds
<1>7. pc[c] # "answered" /\ pc'[c] # "insert" /\ db' = db /\ \A r \in cands'[c] : FALSE
  BY <1>3
<1>8. OneWriter' /\ KeyInv' /\ WritersInv' /\ NameInv' /\ CandInv' /\ ScoresOfSameChunk'
  BY <1>1, <1>4, <1>6, <1>7, AsideNInv
<1>. QED
  BY <1>5, <1>8 DEF NInv

LEMMA NextNInv == Inv /\ NInv /\ [Next]_vars => NInv'
<1>. SUFFICES ASSUME Inv, NInv, [Next]_vars PROVE NInv'
  OBVIOUS
<1>1. CASE UNCHANGED vars
  BY <1>1 DEF vars, NInv, CallInv, OneWriter, KeyInv, WritersInv, WriterInv, IdIsApt, NewRow,
              NameInv, IdNamesOneChunk, CandInv, ScoresOfSameChunk, Req, Batch, Emb, Tok
<1>2. ASSUME NEW c \in Calls, EmbedFails(c) \/ BusyTimeout(c) \/ StatementFails(c)
      PROVE  NInv'
  BY <1>2, AbortNInv DEF EmbedFails, BusyTimeout, StatementFails, Errors
<1>. QED
  BY <1>1, <1>2, ReceiveNInv, BeginNInv, InsertNInv, CommitNInv, DeleteNInv, ReadNInv,
     FuseNInv DEF Next

LEMMA NInvHolds == Spec => [](Inv /\ NInv)
<1>1. Init => Inv /\ NInv
  BY InitInv, InitNInv
<1>2. (Inv /\ NInv) /\ [Next]_vars => (Inv /\ NInv)'
  BY NextInv, NextNInv
<1>. QED
  BY <1>1, <1>2, PTL DEF Spec

\* However transactions and rollbacks follow one another, an id that a Put has
\* returned is never the name of another chunk.
THEOREM IdsNameOneChunk == Spec => []IdNamesOneChunk
  BY NInvHolds, PTL DEF NInv, NameInv

\* A search never gives a row the lexical score of another chunk, whatever is
\* written between its statements.
THEOREM ScoresStayWithChunk == Spec => []ScoresOfSameChunk
  BY NInvHolds, PTL DEF NInv

-----------------------------------------------------------------------------
(* SqliteStore implements ChunkStore: the step that ends a call is the one  *)
(* in which it takes effect, the others change nothing a caller can see.    *)

\* The data of both modules are the same.
LEMMA SameWords ==
  /\ Store!Errors = Errors /\ Store!NoJob = NoJob
  /\ \A s : Store!Say(s) = Say(s)
  /\ \A id, o, ch, emb, tok : Store!RowOf(id, o, ch, emb, tok) = RowOf(id, o, ch, emb, tok)
  /\ \A row, o, ext : Store!SameKey(row, o, ext) <=> SameKey(row, o, ext)
  /\ \A r, row : Store!DeleteMatches(r, row) <=> DeleteMatches(r, row)
  /\ \A r : /\ Store!IsPut(r) <=> IsPut(r)
            /\ Store!IsDelete(r) <=> IsDelete(r)
            /\ Store!IsSearch(r) <=> IsSearch(r)
<1>1. Store!Errors = Errors /\ Store!NoJob = NoJob /\ \A s : Store!Say(s) = Say(s)
  BY DEF Store!Errors, Errors, Store!NoJob, NoJob, Store!Say, Say
<1>2. \A id, o, ch, emb, tok : Store!RowOf(id, o, ch, emb, tok) = RowOf(id, o, ch, emb, tok)
  BY DEF Store!RowOf, RowOf
<1>3. \A row, o, ext : Store!SameKey(row, o, ext) <=> SameKey(row, o, ext)
  BY DEF Store!SameKey, SameKey
<1>4. \A r, row : Store!DeleteMatches(r, row) <=> DeleteMatches(r, row)
  BY DEF Store!DeleteMatches, DeleteMatches
<1>5. \A r : /\ Store!IsPut(r) <=> IsPut(r)
             /\ Store!IsDelete(r) <=> IsDelete(r)
             /\ Store!IsSearch(r) <=> IsSearch(r)
  BY DEF Store!IsPut, IsPut, Store!IsDelete, IsDelete, Store!IsSearch, IsSearch
<1>. QED
  BY <1>1, <1>2, <1>3, <1>4, <1>5

LEMMA SameValid == \A r : Store!Valid(r) <=> Valid(r)
<1>1. \A o : Store!ValidOrg(o) <=> ValidOrg(o)
  BY DEF Store!ValidOrg, ValidOrg
<1>2. \A ch, o : Store!ValidChunk(ch, o) <=> ValidChunk(ch, o)
  BY DEF Store!ValidChunk, ValidChunk
<1>3. \A b : Store!ExternalIDsAreDistinct(b) <=> ExternalIDsAreDistinct(b)
  BY DEF Store!ExternalIDsAreDistinct, ExternalIDsAreDistinct
<1>4. \A o, b : Store!ValidBatch(o, b) <=> ValidBatch(o, b)
  BY <1>1, <1>2, <1>3, Zenon DEF Store!ValidBatch, ValidBatch
<1>5. \A q : Store!ValidQuery(q) <=> ValidQuery(q)
  BY <1>1, Zenon DEF Store!ValidQuery, ValidQuery
<1>. QED
  BY <1>1, <1>4, <1>5, SameWords, Zenon DEF Store!Valid, Valid

LEMMA OpenCalls ==
  ASSUME Inv, NInv, NEW c \in Calls, pc[c] \notin {"new", "answered"}
  PROVE  Store!Open(c)
<1>1. job[c] \in Job /\ ans[c] = Say("none")
  BY DEF Inv, PcInv, NInv, CallInv
<1>2. job[c].made # NoJob.made
  BY <1>1 DEF Job, NoJob
<1>3. job[c] # NoJob
  BY <1>2
<1>4. ans[c].status = "none"
  BY <1>1 DEF Say
<1>. QED
  BY <1>3, <1>4, SameWords DEF Store!Open

LEMMA AbortIsFail ==
  ASSUME Inv, NInv, NEW c \in Calls, NEW s \in Errors, pc[c] \notin {"new", "answered"},
         Abort(c, s)
  PROVE  Store!FailCall(c)
<1>1. ans' = [ans EXCEPT ![c] = Say(s)] /\ db' = db /\ job' = job
  BY DEF Abort, AnswerWith
<1>2. ans' = [ans EXCEPT ![c] = Store!Say(s)] /\ s \in Store!Errors
  BY <1>1, SameWords
<1>. QED
  BY <1>1, <1>2, OpenCalls DEF Store!FailCall

LEMMA ReceiveIsStart ==
  ASSUME Inv, NInv, NEW c \in Calls, Receive(c)
  PROVE  Store!Start(c)
<1>1. PICK p \in Procs, r \in Requests :
        /\ job' = [job EXCEPT ![c] = [made |-> TRUE, proc |-> p, req |-> r]]
        /\ IF Valid(r)
           THEN /\ pc' = [pc EXCEPT ![c] = IF IsPut(r) THEN "embed"
                                           ELSE IF IsDelete(r) THEN "delete"
                                           ELSE "check"]
                /\ UNCHANGED ans
           ELSE AnswerWith(c, Say("rejected"))
  BY DEF Receive
<1>2. job[c] = Store!NoJob /\ db' = db
  BY SameWords DEF Receive, NInv, CallInv
<1>3. CASE Valid(r)
  BY <1>1, <1>2, <1>3, SameValid DEF Store!Start
<1>4. CASE ~Valid(r)
  <2>1. ans' = [ans EXCEPT ![c] = Store!Say("rejected")]
    BY <1>1, <1>4, SameWords DEF AnswerWith
  <2>. QED
    BY <1>1, <1>2, <1>4, <2>1, SameValid DEF Store!Start
<1>. QED
  BY <1>3, <1>4

LEMMA CommitIsPut ==
  ASSUME Inv, NInv, NEW c \in Calls, CommitPut(c)
  PROVE  Store!PutBatch(c)
<1>. DEFINE r == job[c].req
            p == job[c].proc
            n == Len(r.batch)
<1>1. /\ pc[c] = "insert" /\ db' = tx[c] /\ job' = job
      /\ AllInserted(c)
      /\ \E a \in {[status |-> "ok", ids |-> ids[c], count |-> Len(ids[c])], Say("lost")} :
           AnswerWith(c, a)
  BY DEF CommitPut
<1>2. Store!Open(c) /\ Store!IsPut(r) /\ Store!Valid(r)
  BY <1>1, OpenCalls, SameWords, SameValid DEF Inv, PcInv, NInv, CallInv, Req
<1>3. /\ r = Req(c) /\ r.batch = Batch(c)
      /\ n \in Nat /\ Len(ids[c]) = n /\ ids[c] \in Seq(Nat)
      /\ WriterInv(c)
  <2>1. r = Req(c) /\ r.batch = Batch(c)
    BY DEF Req, Batch
  <2>2. WriterInv(c)
    BY <1>1 DEF NInv, WritersInv
  <2>3. ids[c] \in Seq(Nat)
    BY DEF Inv, TypeOK
  <2>4. n \in Nat
    BY <1>1, <2>1, BatchKeys
  <2>5. Len(ids[c]) <= n /\ Len(ids[c]) >= n
    BY <1>1, <2>1, <2>2 DEF WriterInv, AllInserted
  <2>. QED
    BY <2>1, <2>2, <2>3, <2>4, <2>5
<1>4. \A i \in 1..n : NewRow(c, i)
        = Store!RowOf(ids[c][i], r.org, r.batch[i], EmbedderOf[p], TokenizerOf[p])
  BY <1>3, SameWords DEF NewRow, Emb, Tok
<1>5. /\ tx[c].rows = {row \in db.rows : \A i \in 1..n : ids[c][i] # row.id}
                        \cup {NewRow(c, i) : i \in 1..n}
      /\ \A i, j \in 1..n : ids[c][i] = ids[c][j] => i = j
      /\ \A i \in 1..n : IdIsApt(c, i)
  BY <1>3 DEF WriterInv
<1>. HIDE DEF r, p, n
<1>6. ids[c] \in [1..n -> {row.id : row \in db'.rows}]
  <2>1. \A i \in 1..n : NewRow(c, i) \in db'.rows /\ NewRow(c, i).id = ids[c][i]
    BY <1>1, <1>5, NewRowFields
  <2>2. ids[c] \in [1..n -> Nat]
    BY <1>3
  <2>. QED
    BY <2>1, <2>2
<1>7. ASSUME NEW i \in 1..n
      PROVE  \/ \E row \in db.rows :
                  Store!SameKey(row, r.org, r.batch[i].ext) /\ ids[c][i] = row.id
             \/ /\ \A row \in db.rows : ~Store!SameKey(row, r.org, r.batch[i].ext)
                /\ ids[c][i] \notin Store!IssuedIds
  <2>1. IdIsApt(c, i)
    BY <1>5
  <2>2. CASE ids[c][i] >= db.next
    <3>1. ASSUME NEW row \in db.rows, ids[c][i] = row.id PROVE FALSE
      <4>1. row.id < db.next /\ row.id \in Nat /\ db.next \in Nat
        BY DEF NInv, KeyInv, Inv, TypeOK, Database, Row
      <4>. QED
        BY <4>1, <3>1, <2>2
    <3>2. ASSUME NEW d \in Calls, NEW j \in 1..Len(ans[d].ids), ids[c][i] = ans[d].ids[j]
          PROVE FALSE
      <4>1. ans[d].ids[j] < db.next /\ ans[d].ids[j] \in Nat /\ db.next \in Nat
        BY DEF NInv, NameInv, Inv, TypeOK, Answer, Database
      <4>. QED
        BY <4>1, <3>2, <2>2
    <3>3. ids[c][i] \notin Store!IssuedIds
      BY <3>1, <3>2 DEF Store!IssuedIds
    <3>. QED
      BY <2>1, <3>3, <1>3, SameWords DEF IdIsApt
  <2>3. CASE \E row \in db.rows :
               SameKey(row, Req(c).org, Batch(c)[i].ext) /\ ids[c][i] = row.id
    BY <2>3, <1>3, SameWords
  <2>. QED
    BY <2>1, <2>2, <2>3 DEF IdIsApt
<1>8. db'.rows = {row \in db.rows : \A i \in 1..n : ids[c][i] # row.id} \cup
                 {Store!RowOf(ids[c][i], r.org, r.batch[i], EmbedderOf[p], TokenizerOf[p])
                    : i \in 1..n}
  BY <1>1, <1>4, <1>5
<1>9. \/ ans' = [ans EXCEPT ![c] = Store!Say("lost")]
      \/ ans' = [ans EXCEPT ![c] = [status |-> "ok", ids |-> ids[c], count |-> n]]
  BY <1>1, <1>3, SameWords DEF AnswerWith
<1>. QED
  BY <1>1, <1>2, <1>5, <1>6, <1>7, <1>8, <1>9 DEF Store!PutBatch, r, p, n

LEMMA DeleteIsDelete ==
  ASSUME Inv, NInv, NEW c \in Calls, DeleteRows(c)
  PROVE  Store!DeleteRows(c)
<1>. DEFINE gone == {row \in db.rows : DeleteMatches(Req(c), row)}
<1>1. /\ pc[c] = "delete" /\ job' = job
      /\ db' = [db EXCEPT !.rows = @ \ gone, !.index = @ \ gone]
      /\ \E a \in {[status |-> "ok", ids |-> <<>>, count |-> Cardinality(gone)], Say("lost")} :
           AnswerWith(c, a)
  BY DEF DeleteRows, AfterDelete, RowsAffected
<1>2. Store!Open(c) /\ Store!IsDelete(job[c].req) /\ Store!Valid(job[c].req)
  BY <1>1, OpenCalls, SameWords, SameValid DEF NInv, CallInv, Req
<1>3. gone \in SUBSET {row \in db.rows : Store!DeleteMatches(job[c].req, row)}
  BY SameWords DEF Req
<1>. HIDE DEF gone
<1>4. db'.rows = db.rows \ gone
  BY <1>1 DEF Inv, TypeOK, Database
<1>5. \/ ans' = [ans EXCEPT ![c] = Store!Say("lost")]
      \/ ans' = [ans EXCEPT ![c] = [status |-> "ok", ids |-> <<>>, count |-> Cardinality(gone)]]
  BY <1>1, SameWords DEF AnswerWith
<1>6. job' = job
  BY <1>1
<1>. QED
  <2>1. CASE ans' = [ans EXCEPT ![c] = Store!Say("lost")]
    BY <1>2, <1>3, <1>4, <1>6, <2>1 DEF Store!DeleteRows
  <2>2. CASE ans' = [ans EXCEPT ![c] =
                       [status |-> "ok", ids |-> <<>>, count |-> Cardinality(gone)]]
    <3>1. \E g \in SUBSET {row \in db.rows : Store!DeleteMatches(job[c].req, row)} :
            /\ db'.rows = db.rows \ g
            /\ ans' = [ans EXCEPT ![c] =
                         [status |-> "ok", ids |-> <<>>, count |-> Cardinality(g)]]
      BY <1>3, <1>4, <2>2, Zenon
    <3>2. \E g \in SUBSET {row \in db.rows : Store!DeleteMatches(job[c].req, row)} :
            /\ db'.rows = db.rows \ g
            /\ \/ ans' = [ans EXCEPT ![c] = Store!Say("lost")]
               \/ ans' = [ans EXCEPT ![c] =
                            [status |-> "ok", ids |-> <<>>, count |-> Cardinality(g)]]
      BY <3>1, Zenon
    <3>3. \A g : Store!Cardinality(g) = Cardinality(g)
      BY DEF Store!Cardinality, Cardinality
    <3>. QED
      BY <1>2, <1>6, <3>2, <3>3 DEF Store!DeleteRows
  <2>. QED
    BY <1>5, <2>1, <2>2

LEMMA FuseIsSearch ==
  ASSUME Inv, NInv, NEW c \in Calls, ReadLexicalAndFuse(c)
  PROVE  Store!AnswerSearch(c)
<1>1. pc[c] = "lexical" /\ db' = db /\ job' = job /\ ans' = [ans EXCEPT ![c] = Say("ok")]
  BY DEF ReadLexicalAndFuse, AnswerWith
<1>2. Store!Open(c) /\ Store!IsSearch(job[c].req) /\ Store!Valid(job[c].req)
  BY <1>1, OpenCalls, SameWords, SameValid DEF NInv, CallInv, Req
<1>3. ans' = [ans EXCEPT ![c] = Store!Say("ok")]
  BY <1>1, SameWords
<1>. QED
  BY <1>1, <1>2, <1>3 DEF Store!AnswerSearch

LEMMA StepIsStores ==
  ASSUME Inv, NInv, NEW c \in Calls, StepOf(c)
  PROVE  Store!StoreNext \/ UNCHANGED Store!storeVars
<1>. SUFFICES ASSUME ~UNCHANGED Store!storeVars PROVE Store!StoreNext
  OBVIOUS
<1>1. CASE ReportMismatch(c) /\ pc[c] \notin {"new", "answered"}
  BY <1>1, AbortIsFail DEF ReportMismatch, Errors, Store!StoreNext
<1>2. CASE EmbedFails(c) \/ BusyTimeout(c) \/ StatementFails(c)
  BY <1>2, AbortIsFail DEF EmbedFails, BusyTimeout, StatementFails, Errors, Store!StoreNext
<1>3. CASE Receive(c)
  BY <1>3, ReceiveIsStart DEF Store!StoreNext
<1>4. CASE BeginPut(c) \/ CheckSearch(c) \/ ReadCandidates(c) \/ InsertChunk(c)
  <2>1. pc[c] \notin {"new", "answered"}
    BY <1>4 DEF BeginPut, CheckSearch, ReadCandidates, InsertChunk
  <2>2. CASE ~ReportMismatch(c)
    <3>1. db' = db /\ job' = job /\ ans' = ans
      BY <1>4, <2>2 DEF BeginPut, CheckSearch, ReadCandidates, InsertChunk
    <3>. QED
      BY <3>1 DEF Store!storeVars
  <2>. QED
    BY <1>1, <2>1, <2>2
<1>5. CASE CommitPut(c)
  BY <1>5, CommitIsPut DEF Store!StoreNext
<1>6. CASE DeleteRows(c)
  BY <1>6, DeleteIsDelete DEF Store!StoreNext
<1>7. CASE ReadLexicalAndFuse(c)
  BY <1>7, FuseIsSearch DEF Store!StoreNext
<1>. QED
  BY <1>2, <1>3, <1>4, <1>5, <1>6, <1>7 DEF StepOf

\* SQLite's store keeps the promise of index.Writer for any calls, processes and
\* requests: a call takes effect at most once and as a whole, in the step that
\* ends it, a failed one not at all, and ids are never given to another chunk.
THEOREM StoreIsChunkStore == Spec => Implements
<1>1. Init => Store!StoreInit
  BY SameWords DEF Init, Store!StoreInit
<1>2. (Inv /\ NInv) /\ [Next]_vars => [Store!StoreNext]_(Store!storeVars)
  <2>1. SUFFICES ASSUME Inv, NInv, [Next]_vars
                 PROVE  Store!StoreNext \/ UNCHANGED Store!storeVars
    OBVIOUS
  <2>2. CASE UNCHANGED vars
    BY <2>2 DEF vars, Store!storeVars
  <2>3. CASE Next
    BY <2>1, <2>3, StepIsStores DEF Next, StepOf
  <2>. QED
    BY <2>1, <2>2, <2>3
<1>. QED
  BY <1>1, <1>2, NInvHolds, PTL DEF Spec, Implements, Store!StoreSpec
=============================================================================
