------------------------------ MODULE Embedding ------------------------------
(***************************************************************************)
(* Turning texts into vectors: the Ollama client of the server and of the  *)
(* evaluation, which asks in batches, and the evaluation's cache on disk   *)
(* in front of it, whose files several processes may share and leave half  *)
(* written.                                                                *)
(*                                                                         *)
(* A vector is the text, the model and the weights it was computed from:   *)
(* an identity such as "bge-m3:1024" names whatever weights the provider   *)
(* has under it at the time.  Ollama itself is external.                   *)
(***************************************************************************)
EXTENDS Integers, Sequences

CONSTANTS
  Procs,        \* processes that embed
  ModelOf,      \* by process, the identity of its embedder
  Texts,
  Calls,        \* calls of Embed: texts, their kind, and whether it is a cachingEmbedder's
  BatchSize,    \* ollama.Config.BatchSize
  MaxPulls,     \* bound: how often the weights under an identity change
  Mortal,       \* bound: the processes that may die, once each
  Hole,         \* in a list of vectors: not filled yet
  Absent,       \* no such file
  Torn,         \* a file without its full length
  Broken        \* zeros, NaN or a wrong dimension instead of a vector

Kinds  == {"document", "query", "unknown"}
Models == {ModelOf[p] : p \in Procs}
Vector == [text : Texts, model : Models, weights : 0..MaxPulls]

ASSUME EmbeddingAssumption ==
  /\ ModelOf \in [Procs -> STRING] /\ Mortal \subseteq Procs
  /\ Calls \subseteq [texts : Seq(Texts), kind : Kinds, cached : BOOLEAN]
  /\ BatchSize \in Nat \ {0}
  /\ {Hole, Absent, Torn, Broken} \cap Vector = {}
  /\ MaxPulls \in Nat

VARIABLES
  weights,    \* by identity, the weights Ollama has
  file,       \* the cache: by model, kind and text, a file's content
  pc,         \* by process, where its call is
  task,       \* by process, the call and what it has so far
  died        \* the processes that have died

vars == <<weights, file, pc, task, died>>

Keys == Models \X Kinds \X Texts

\* at is the position of the loop pc stands for; fresh what Ollama has answered
\* for the texts at the positions missing.
NoTask == [call |-> [texts |-> <<>>, kind |-> "query", cached |-> FALSE], at |-> 1, vectors |-> <<>>,
           missing |-> <<>>, fresh |-> <<>>]

Init ==
  /\ weights = [m \in Models |-> 0]
  /\ file = [k \in Keys |-> Absent]
  /\ pc = [p \in Procs |-> "idle"]
  /\ task = [p \in Procs |-> NoTask]
  /\ died = {}

Go(p, to) == pc' = [pc EXCEPT ![p] = to]
\* An error is all that is returned, even if some vectors are there.
Fail(p) == Go(p, "failed") /\ task' = [task EXCEPT ![p] = NoTask]

Smaller(a, b) == IF a < b THEN a ELSE b

KeyOf(p, text) == <<ModelOf[p], task[p].call.kind, text>>

-----------------------------------------------------------------------------
(* The call.                                                               *)

\* Mutant: queries are looked up and stored as documents are.
UsesFiles_AnyKind(c) == c.cached

\* The document side of a cachingEmbedder looks at its files first; everything
\* else asks for all the texts.
UsesFiles(c) == c.cached /\ c.kind # "query"

Embed(p, c) ==
  /\ pc[p] = "idle"
  /\ task' = [task EXCEPT ![p] =
       [NoTask EXCEPT !.call = c, !.vectors = [i \in DOMAIN c.texts |-> Hole],
          !.missing = IF UsesFiles(c) THEN <<>> ELSE [i \in DOMAIN c.texts |-> i]]]
  /\ Go(p, IF UsesFiles(c) THEN "load" ELSE "ask")
  /\ UNCHANGED <<weights, file, died>>

\* Mutant: a file is taken for what it is supposed to be.
Hit_AnyLength(content) == content # Absent

\* os.ReadFile, and the length it must have.
Hit(content) == content \notin {Absent, Torn}

\* One turn of the loop of fromCache.
Load(p) ==
  /\ pc[p] = "load" /\ task[p].at <= Len(task[p].call.texts)
  /\ LET i == task[p].at
         content == file[KeyOf(p, task[p].call.texts[i])]
     IN  task' = [task EXCEPT ![p].at = i + 1,
                    ![p].vectors[i] = IF Hit(content) THEN content ELSE Hole,
                    ![p].missing = IF Hit(content) THEN @ ELSE Append(@, i)]
  /\ UNCHANGED <<weights, file, pc, died>>

\* Without a gap the call is over, otherwise fill asks for what is missing.
LoadDone(p) ==
  /\ pc[p] = "load" /\ task[p].at > Len(task[p].call.texts)
  /\ task' = [task EXCEPT ![p].at = 1]
  /\ Go(p, IF task[p].missing = <<>> THEN "ok" ELSE "ask")
  /\ UNCHANGED <<weights, file, died>>

-----------------------------------------------------------------------------
(* The requests to Ollama.                                                  *)

\* What may come back for a batch.  "lost" is no connection, no answer in time
\* or a context that is over.
Replies == {"good", "lost", "status", "undecodable", "error", "short", "broken"}

\* The texts of the next batch, which starts at task[p].at of those missing.
Batch(p) ==
  LET t == task[p]
  IN  [j \in 1..Smaller(BatchSize, Len(t.missing) - t.at + 1) |->
         t.call.texts[t.missing[t.at + j - 1]]]

\* The vectors in a reply that has any.
Answered(p, reply) ==
  LET good == [j \in DOMAIN Batch(p) |->
                 [text |-> Batch(p)[j], model |-> ModelOf[p], weights |-> weights[ModelOf[p]]]]
  IN  CASE reply = "short"  -> SubSeq(good, 1, Len(good) - 1)
        [] reply = "broken" -> [good EXCEPT ![Len(good)] = Broken]
        [] OTHER            -> good

\* embedBatch: the status, the JSON, its error field, then prepareVectors: the
\* number, the dimensions, and what normalize refuses.
Accepted(p, reply) ==
  /\ reply \in {"good", "short", "broken"}
  /\ Len(Answered(p, reply)) = Len(Batch(p))
  /\ \A j \in DOMAIN Answered(p, reply) : Answered(p, reply)[j] # Broken

\* Mutant: a call whose batch has no usable reply begins anew.
Refuse_AskAgain(p) ==
  task' = [task EXCEPT ![p].at = 1, ![p].fresh = <<>>] /\ UNCHANGED pc

\* Nothing of the batches before is returned.
Refuse(p) == Fail(p)

\* One batch of Client.Embed.  A kind it does not know it refuses first.
Ask(p) ==
  /\ pc[p] = "ask" /\ task[p].at <= Len(task[p].missing)
  /\ IF task[p].call.kind = "unknown" THEN Fail(p)
     ELSE \E reply \in Replies :
            IF Accepted(p, reply)
              THEN /\ task' = [task EXCEPT ![p].at = @ + Len(Batch(p)),
                                 ![p].fresh = @ \o Answered(p, reply)]
                   /\ UNCHANGED pc
              ELSE Refuse(p)
  /\ UNCHANGED <<weights, file, died>>

\* A query, or a client without a cache, is answered with what Ollama said; a
\* cachingEmbedder counts the vectors and stores them one by one.
AskDone(p) ==
  /\ pc[p] = "ask" /\ task[p].at > Len(task[p].missing)
  /\ LET t == task[p]
         stores == UsesFiles(t.call)
     IN  IF stores /\ Len(t.fresh) = Len(t.missing)
           THEN Go(p, "store") /\ task' = [task EXCEPT ![p].at = 1]
         ELSE IF stores \/ t.call.kind = "unknown"
           THEN Fail(p)
         ELSE Go(p, "ok") /\ task' = [task EXCEPT ![p].vectors = t.fresh]
  /\ UNCHANGED <<weights, file, died>>

-----------------------------------------------------------------------------
(* The files of the cache.                                                 *)

\* The text whose vector is stored next.
Storing(p) == task[p].call.texts[task[p].missing[task[p].at]]

\* os.WriteFile empties the file first.
Truncate(p) ==
  /\ pc[p] = "store" /\ task[p].at <= Len(task[p].missing)
  /\ file' = [file EXCEPT ![KeyOf(p, Storing(p))] = Torn]
  /\ Go(p, "write")
  /\ UNCHANGED <<weights, task, died>>

\* Mutant: the vectors are put where they were asked for, not where they miss.
Place_InOrder(t) == t.at

\* The position of the text whose vector has been stored.
Place(t) == t.missing[t.at]

Write(p) ==
  /\ pc[p] = "write"
  /\ file' = [file EXCEPT ![KeyOf(p, Storing(p))] = task[p].fresh[task[p].at]]
  /\ task' = [task EXCEPT ![p].vectors[Place(task[p])] = task[p].fresh[task[p].at],
                          ![p].at = @ + 1]
  /\ Go(p, "store")
  /\ UNCHANGED <<weights, died>>

\* The directory cannot be made, or the disk is full in the middle.
WriteFails(p) ==
  /\ \/ pc[p] = "write"
     \/ pc[p] = "store" /\ task[p].at <= Len(task[p].missing)
  /\ Fail(p)
  /\ UNCHANGED <<weights, file, died>>

StoreDone(p) ==
  /\ pc[p] = "store" /\ task[p].at > Len(task[p].missing)
  /\ Go(p, "ok")
  /\ UNCHANGED <<weights, file, task, died>>

\* The caller has what it asked for, or the error.
Return(p) ==
  /\ pc[p] \in {"ok", "failed"}
  /\ task' = [task EXCEPT ![p] = NoTask]
  /\ Go(p, "idle")
  /\ UNCHANGED <<weights, file, died>>

-----------------------------------------------------------------------------
(* The world.                                                              *)

\* A process dies and another is started in its place: the files stay.
Crash(p) ==
  /\ p \in Mortal \ died
  /\ died' = died \cup {p}
  /\ task' = [task EXCEPT ![p] = NoTask]
  /\ Go(p, "idle")
  /\ UNCHANGED <<weights, file>>

\* "ollama pull" brings other weights under the same identity.
Pull(m) ==
  /\ weights[m] < MaxPulls
  /\ weights' = [weights EXCEPT ![m] = @ + 1]
  /\ UNCHANGED <<file, pc, task, died>>

Step(p) ==
  Load(p) \/ LoadDone(p) \/ Ask(p) \/ AskDone(p)
    \/ Truncate(p) \/ Write(p) \/ WriteFails(p) \/ StoreDone(p)

Next ==
  \/ \E p \in Procs : (\E c \in Calls : Embed(p, c)) \/ Step(p) \/ Return(p) \/ Crash(p)
  \/ \E m \in Models : Pull(m)

Spec == Init /\ [][Next]_vars

-----------------------------------------------------------------------------
(* Properties.                                                              *)

\* A vector in hand is a whole one: nothing torn or broken comes out of a file or
\* a reply, and no call has more answers than it has asked for (load,
\* prepareVectors).
TypeOK ==
  /\ weights \in [Models -> 0..MaxPulls]
  /\ file \in [Keys -> Vector \cup {Absent, Torn}]
  /\ pc \in [Procs -> {"idle", "load", "ask", "store", "write", "ok", "failed"}]
  /\ died \subseteq Mortal
  /\ DOMAIN task = Procs
  /\ \A p \in Procs :
       LET t == task[p]
       IN  /\ t.call \in Calls \cup {NoTask.call}
           /\ t.vectors \in Seq(Vector \cup {Hole}) /\ t.fresh \in Seq(Vector)
           /\ Len(t.vectors) = Len(t.call.texts)
           /\ t.missing \in Seq(DOMAIN t.call.texts) /\ Len(t.fresh) <= Len(t.missing)

\* A call that succeeds returns one vector per text and in their order, each of
\* that text and of the process's own model, whichever came from a file that
\* another process was writing, or had died in (Embedder.Embed: the same order
\* and number; load, lines 204-213).
AnswersInOrder ==
  \A p \in Procs : pc[p] = "ok" =>
    LET t == task[p]
    IN  /\ Len(t.vectors) = Len(t.call.texts)
        /\ \A i \in DOMAIN t.vectors :
             t.vectors[i] \in Vector /\ t.vectors[i].text = t.call.texts[i]
               /\ t.vectors[i].model = ModelOf[p]
=============================================================================
