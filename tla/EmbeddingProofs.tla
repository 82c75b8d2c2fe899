--------------------------- MODULE EmbeddingProofs ---------------------------
(***************************************************************************)
(* Proofs about Embedding for any processes, texts, calls and batch sizes, *)
(* and any number of deaths and of weights.                                *)
(***************************************************************************)
EXTENDS Embedding, SequenceTheorems, TLAPS

CallType == [texts : Seq(Texts), kind : Kinds, cached : BOOLEAN]

Places == {"idle", "load", "ask", "store", "write", "ok", "failed"}

AnyCall == Calls \cup {NoTask.call}

TaskType == [call : AnyCall, at : Nat, vectors : Seq(Vector \cup {Hole}), missing : Seq(Nat),
             fresh : Seq(Vector)]

\* A vector of the text by the model, of any weights.
Good(v, text, model) == v \in Vector /\ v.text = text /\ v.model = model

\* A file of the cache is the vector its name says, or is not read.
FileInv ==
  /\ file \in [Keys -> Vector \cup {Absent, Torn}]
  /\ \A k \in Keys : file[k] \in {Absent, Torn} \/ Good(file[k], k[3], k[1])

\* The position is among those missing from the one with number from on.
Missed(t, i, from) == \E j \in from..Len(t.missing) : t.missing[j] = i

\* Every position has the vector of its text or is still missing.
Covered(t, model, from) ==
  \A i \in 1..Len(t.call.texts) : Good(t.vectors[i], t.call.texts[i], model) \/ Missed(t, i, from)

\* What Ollama has answered belongs to the texts that were missing.
FreshFits(t, model) ==
  \A j \in 1..Len(t.fresh) : Good(t.fresh[j], t.call.texts[t.missing[j]], model)

\* The lists of a call fit each other.
Sized(t) ==
  /\ Len(t.vectors) = Len(t.call.texts)
  /\ \A j \in 1..Len(t.missing) : t.missing[j] \in 1..Len(t.call.texts)
  /\ Len(t.fresh) <= Len(t.missing)

\* What a call has at each place.
CallInv(s, t, model) ==
  /\ s \in Places
  /\ t \in TaskType /\ Sized(t)
  /\ s = "load" =>
       /\ UsesFiles(t.call) /\ t.at \in 1..(Len(t.call.texts) + 1) /\ t.fresh = <<>>
       /\ \A i \in 1..(t.at - 1) : Good(t.vectors[i], t.call.texts[i], model) \/ Missed(t, i, 1)
  /\ s = "ask" =>
       /\ t.at = Len(t.fresh) + 1 /\ FreshFits(t, model)
       /\ IF UsesFiles(t.call) THEN Covered(t, model, 1)
          ELSE Len(t.missing) = Len(t.call.texts) /\ \A i \in 1..Len(t.missing) : t.missing[i] = i
  /\ s \in {"store", "write"} =>
       /\ Len(t.fresh) = Len(t.missing) /\ FreshFits(t, model)
       /\ t.at \in 1..(Len(t.missing) + 1) /\ Covered(t, model, t.at)
  /\ s = "write" => t.at <= Len(t.missing)
  /\ s = "ok" =>
       \A i \in 1..Len(t.call.texts) : Good(t.vectors[i], t.call.texts[i], model)

WorldInv ==
  /\ weights \in [Models -> 0..MaxPulls]
  /\ died \subseteq Mortal
  /\ FileInv

Inv ==
  /\ WorldInv
  /\ pc \in [Procs -> Places] /\ DOMAIN task = Procs
  /\ \A p \in Procs : CallInv(pc[p], task[p], ModelOf[p])

-----------------------------------------------------------------------------

LEMMA CallsAreCalls == AnyCall \subseteq CallType
<1>1. NoTask.call \in CallType
  <2>1. NoTask.call = [texts |-> <<>>, kind |-> "query", cached |-> FALSE]
    BY DEF NoTask
  <2>. QED
    BY <2>1 DEF CallType, Kinds
<1>2. Calls \subseteq CallType
  BY EmbeddingAssumption DEF CallType
<1>. QED
  BY <1>1, <1>2 DEF AnyCall

LEMMA NoTaskFits ==
  ASSUME NEW s \in {"idle", "failed"}, NEW model
  PROVE  CallInv(s, NoTask, model)
<1>1. NoTask \in TaskType
  BY DEF NoTask, TaskType, AnyCall
<1>2. Sized(NoTask)
  BY DEF NoTask, Sized
<1>. QED
  BY <1>1, <1>2 DEF CallInv, Places

LEMMA InitInv == Init => Inv
<1>. SUFFICES ASSUME Init PROVE Inv
  OBVIOUS
<1>1. WorldInv
  BY EmbeddingAssumption DEF Init, WorldInv, FileInv
<1>2. \A p \in Procs : CallInv(pc[p], task[p], ModelOf[p])
  BY NoTaskFits DEF Init
<1>. QED
  BY <1>1, <1>2 DEF Init, Inv, Places

\* A step of one process that leaves the files what their names say.
LEMMA OneStep ==
  ASSUME Inv, NEW p \in Procs, CallInv(pc'[p], task'[p], ModelOf[p]),
         pc' \in [Procs -> Places], DOMAIN task' = Procs,
         \A q \in Procs \ {p} : pc'[q] = pc[q] /\ task'[q] = task[q], WorldInv'
  PROVE  Inv'
<1>1. ASSUME NEW q \in Procs PROVE CallInv(pc'[q], task'[q], ModelOf[q])
  <2>1. CASE q = p
    BY <2>1, Zenon
  <2>2. CASE q # p
    <3>1. pc'[q] = pc[q] /\ task'[q] = task[q] /\ CallInv(pc[q], task[q], ModelOf[q])
      BY <2>2 DEF Inv
    <3>. QED
      BY <3>1, Zenon
  <2>. QED
    BY <2>1, <2>2
<1>. QED
  BY <1>1 DEF Inv

\* Most steps do not touch the files.
LEMMA WorldStays ==
  ASSUME WorldInv, UNCHANGED <<weights, file, died>>
  PROVE  WorldInv'
  BY DEF WorldInv, FileInv

\* The call comes to an end, and nothing of it is left.
LEMMA EndStep ==
  ASSUME Inv, NEW p \in Procs, NEW s \in {"idle", "failed"},
         task' = [task EXCEPT ![p] = NoTask], pc' = [pc EXCEPT ![p] = s], WorldInv'
  PROVE  Inv'
<1>1. pc'[p] = s /\ task'[p] = NoTask
  BY DEF Inv
<1>2. CallInv(pc'[p], task'[p], ModelOf[p])
  BY <1>1, NoTaskFits, Zenon
<1>3. pc' \in [Procs -> Places]
  BY DEF Inv, Places
<1>. QED
  BY <1>2, <1>3, OneStep DEF Inv

\* A call begins.
LEMMA EmbedStep ==
  ASSUME Inv, NEW p \in Procs, NEW c \in Calls, Embed(p, c)
  PROVE  Inv'
<1>1. PICK n \in Nat : n = Len(c.texts) /\ c.texts \in Seq(Texts) /\ DOMAIN c.texts = 1..n
                       /\ c.kind \in Kinds /\ c.cached \in BOOLEAN /\ c \in CallType
  <2>1. c \in CallType
    BY EmbeddingAssumption DEF CallType
  <2>. QED
    BY <2>1 DEF CallType
<1>2. PICK t : t = [NoTask EXCEPT !.call = c, !.vectors = [i \in DOMAIN c.texts |-> Hole],
                      !.missing = IF UsesFiles(c) THEN <<>> ELSE [i \in DOMAIN c.texts |-> i]]
  OBVIOUS
<1>3. /\ t = [call |-> t.call, at |-> t.at, vectors |-> t.vectors, missing |-> t.missing,
              fresh |-> t.fresh]
      /\ t.call = c /\ t.at = 1 /\ t.fresh = <<>>
      /\ t.vectors = [i \in 1..n |-> Hole]
      /\ t.missing = IF UsesFiles(c) THEN <<>> ELSE [i \in 1..n |-> i]
  BY <1>1, <1>2 DEF NoTask
<1>4. t.vectors \in Seq(Vector \cup {Hole}) /\ Len(t.vectors) = n
  <2>1. t.vectors \in [1..n -> Vector \cup {Hole}]
    BY <1>3
  <2>. QED
    BY <2>1
<1>5. /\ UsesFiles(c) => t.missing = <<>>
      /\ ~UsesFiles(c) => Len(t.missing) = n /\ \A i \in 1..n : t.missing[i] = i
      /\ t.missing \in Seq(Nat) /\ \A j \in 1..Len(t.missing) : t.missing[j] \in 1..n
  <2>1. CASE UsesFiles(c)
    BY <1>3, <2>1
  <2>2. CASE ~UsesFiles(c)
    <3>1. t.missing = [i \in 1..n |-> i]
      BY <1>3, <2>2
    <3>2. t.missing \in [1..n -> Nat]
      BY <3>1
    <3>. QED
      BY <2>2, <3>1, <3>2
  <2>. QED
    BY <2>1, <2>2
<1>6. t \in TaskType /\ Sized(t)
  <2>1. Len(t.fresh) = 0 /\ t.fresh \in Seq(Vector) /\ t.at \in Nat
    BY <1>3
  <2>2. t \in TaskType
    BY <1>1, <1>3, <1>4, <1>5, <2>1 DEF TaskType, AnyCall
  <2>. QED
    BY <1>1, <1>3, <1>4, <1>5, <2>1, <2>2 DEF Sized
<1>7. /\ task'[p] = t /\ pc' \in [Procs -> Places] /\ DOMAIN task' = Procs
      /\ \A q \in Procs \ {p} : pc'[q] = pc[q] /\ task'[q] = task[q]
      /\ pc'[p] = IF UsesFiles(c) THEN "load" ELSE "ask"
  BY <1>2 DEF Embed, Go, Inv, Places
<1>8. CallInv(pc'[p], task'[p], ModelOf[p])
  <2>1. CASE UsesFiles(c)
    <3>1. pc'[p] = "load"
      BY <1>7, <2>1
    <3>. QED
      BY <1>3, <1>5, <1>6, <1>7, <1>1, <2>1, <3>1 DEF CallInv, Places
  <2>2. CASE ~UsesFiles(c)
    <3>1. pc'[p] = "ask"
      BY <1>7, <2>2
    <3>2. FreshFits(t, ModelOf[p]) /\ t.at = Len(t.fresh) + 1
      BY <1>3 DEF FreshFits
    <3>3. CallInv("ask", t, ModelOf[p])
      BY <1>1, <1>3, <1>5, <1>6, <2>2, <3>2 DEF CallInv, Places
    <3>. QED
      BY <1>7, <3>1, <3>3
  <2>. QED
    BY <2>1, <2>2
<1>9. WorldInv'
  BY WorldStays DEF Embed, Inv
<1>. QED
  BY <1>7, <1>8, <1>9, OneStep

\* What is known of a call.
LEMMA CallFacts ==
  ASSUME Inv, NEW p \in Procs
  PROVE  LET t == task[p]
             n == Len(t.call.texts)
         IN  /\ CallInv(pc[p], t, ModelOf[p]) /\ Sized(t)
             /\ t \in TaskType /\ t.call \in CallType
             /\ t.call.texts \in Seq(Texts) /\ n \in Nat /\ DOMAIN t.call.texts = 1..n
             /\ t.call.kind \in Kinds /\ t.at \in Nat
             /\ t.missing \in Seq(Nat) /\ Len(t.missing) \in Nat
             /\ DOMAIN t.missing = 1..Len(t.missing)
             /\ t.fresh \in Seq(Vector) /\ Len(t.fresh) \in Nat
             /\ t.vectors \in Seq(Vector \cup {Hole}) /\ Len(t.vectors) = n
             /\ DOMAIN t.vectors = 1..n
<1>1. CallInv(pc[p], task[p], ModelOf[p])
  BY DEF Inv
<1>2. task[p] \in TaskType /\ Sized(task[p])
  BY <1>1 DEF CallInv
<1>3. task[p].call \in CallType
  BY <1>2, CallsAreCalls DEF TaskType
<1>. QED
  BY <1>1, <1>2, <1>3 DEF TaskType, CallType, Sized

\* The file of a text that is asked for has its name among the keys.
LEMMA KeyIsKey ==
  ASSUME Inv, NEW p \in Procs, NEW text \in Texts
  PROVE  KeyOf(p, text) \in Keys /\ KeyOf(p, text)[3] = text /\ KeyOf(p, text)[1] = ModelOf[p]
<1>1. task[p].call.kind \in Kinds
  BY CallFacts
<1>2. ModelOf[p] \in Models
  BY DEF Models
<1>. QED
  BY <1>1, <1>2 DEF KeyOf, Keys

\* The fields of a call, one by one.
LEMMA Fields ==
  ASSUME NEW t \in TaskType
  PROVE  t = [call |-> t.call, at |-> t.at, vectors |-> t.vectors, missing |-> t.missing,
              fresh |-> t.fresh]
  BY DEF TaskType

\* A file that is read has the vector its name says.
LEMMA HitIsGood ==
  ASSUME Inv, NEW p \in Procs, NEW text \in Texts, Hit(file[KeyOf(p, text)])
  PROVE  Good(file[KeyOf(p, text)], text, ModelOf[p])
  BY KeyIsKey DEF Hit, Inv, WorldInv, FileInv

\* A text is looked up in the cache.
LEMMA LoadStep ==
  ASSUME Inv, NEW p \in Procs, Load(p)
  PROVE  Inv'
<1>1. PICK t : t = task[p]
  OBVIOUS
<1>2. PICK n : n = Len(t.call.texts)
  OBVIOUS
<1>3. PICK i : i = t.at
  OBVIOUS
<1>4. /\ CallInv("load", t, ModelOf[p]) /\ Sized(t) /\ t \in TaskType
      /\ n \in Nat /\ i \in 1..n /\ t.call.texts[i] \in Texts
      /\ t.missing \in Seq(Nat) /\ Len(t.missing) \in Nat /\ DOMAIN t.missing = 1..Len(t.missing)
      /\ t.vectors \in Seq(Vector \cup {Hole}) /\ Len(t.vectors) = n
  <2>1. pc[p] = "load" /\ i <= n
    BY <1>1, <1>2, <1>3 DEF Load
  <2>2. CallInv("load", t, ModelOf[p])
    BY <1>1, <2>1, CallFacts
  <2>3. i \in 1..n
    BY <1>1, <1>2, <1>3, <2>1, <2>2, CallFacts DEF CallInv
  <2>. QED
    BY <1>1, <1>2, <2>2, <2>3, CallFacts
<1>5. PICK content : content = file[KeyOf(p, t.call.texts[i])]
  OBVIOUS
<1>6. PICK x : x = IF Hit(content) THEN content ELSE Hole
  OBVIOUS
<1>7. PICK m : m = IF Hit(content) THEN t.missing ELSE Append(t.missing, i)
  OBVIOUS
<1>8. Hit(content) => Good(x, t.call.texts[i], ModelOf[p])
  BY <1>4, <1>5, <1>6, HitIsGood
<1>9. /\ m \in Seq(Nat) /\ Len(m) \in Nat /\ Len(t.missing) <= Len(m)
      /\ \A j \in 1..Len(t.missing) : m[j] = t.missing[j]
      /\ \A j \in 1..Len(m) : m[j] \in 1..n
      /\ Hit(content) \/ \E j \in 1..Len(m) : m[j] = i
  <2>1. CASE Hit(content)
    BY <1>2, <1>4, <1>7, <2>1 DEF Sized
  <2>2. CASE ~Hit(content)
    <3>1. m = Append(t.missing, i) /\ i \in Nat
      BY <1>4, <1>7, <2>2
    <3>2. /\ m \in Seq(Nat) /\ Len(m) = Len(t.missing) + 1 /\ m[Len(m)] = i
          /\ \A j \in 1..Len(t.missing) : m[j] = t.missing[j]
      BY <1>4, <3>1
    <3>3. PICK l \in Nat : l = Len(t.missing)
      BY <1>4
    <3>4. \A j \in 1..l : m[j] \in 1..n
      BY <1>2, <1>4, <3>2, <3>3 DEF Sized
    <3>5. m[l + 1] = i /\ Len(m) = l + 1
      BY <3>2, <3>3
    <3>6. \A j \in 1..Len(m) : m[j] \in 1..n
      BY <1>4, <3>3, <3>4, <3>5
    <3>. QED
      BY <3>2, <3>3, <3>5, <3>6
  <2>. QED
    BY <2>1, <2>2
<1>10. PICK v : v = [t.vectors EXCEPT ![i] = x]
  OBVIOUS
<1>11. /\ v \in Seq(Vector \cup {Hole}) /\ Len(v) = n /\ v[i] = x
       /\ \A j \in 1..n : j # i => v[j] = t.vectors[j]
  <2>1. x \in Vector \cup {Hole}
    BY <1>6, <1>8 DEF Good
  <2>. QED
    BY <1>4, <1>10, <2>1
<1>12. PICK u : u = [call |-> t.call, at |-> i + 1, vectors |-> v, missing |-> m, fresh |-> t.fresh]
  OBVIOUS
<1>13. /\ u.call = t.call /\ u.at = i + 1 /\ u.vectors = v /\ u.missing = m /\ u.fresh = t.fresh
  BY <1>12
<1>14. u \in TaskType /\ Sized(u)
  <2>1. t.call \in AnyCall /\ t.fresh \in Seq(Vector)
    BY <1>4 DEF TaskType
  <2>2. u \in TaskType
    BY <1>4, <1>9, <1>11, <1>12, <2>1 DEF TaskType
  <2>. QED
    BY <1>2, <1>4, <1>9, <1>11, <1>13, <2>1, <2>2 DEF Sized
<1>15. ASSUME NEW a \in 1..i
       PROVE  Good(v[a], t.call.texts[a], ModelOf[p]) \/ Missed(u, a, 1)
  <2>1. CASE a = i
    <3>1. Hit(content) \/ Missed(u, i, 1)
      BY <1>9, <1>13 DEF Missed
    <3>. QED
      BY <1>8, <1>11, <2>1, <3>1
  <2>2. CASE a # i
    <3>1. Good(t.vectors[a], t.call.texts[a], ModelOf[p]) \/ Missed(t, a, 1)
      BY <1>3, <1>4, <2>2 DEF CallInv
    <3>2. ASSUME Missed(t, a, 1) PROVE Missed(u, a, 1)
      <4>1. PICK j \in 1..Len(t.missing) : t.missing[j] = a
        BY <3>2 DEF Missed
      <4>2. j \in 1..Len(m) /\ m[j] = a
        BY <1>4, <1>9, <4>1
      <4>. QED
        BY <1>13, <4>2 DEF Missed
    <3>3. v[a] = t.vectors[a]
      BY <1>4, <1>11, <2>2
    <3>. QED
      BY <3>1, <3>2, <3>3
  <2>. QED
    BY <2>1, <2>2
<1>16. CallInv("load", u, ModelOf[p])
  <2>1. UsesFiles(t.call) /\ t.fresh = <<>>
    BY <1>4 DEF CallInv
  <2>2. u.at \in 1..(Len(u.call.texts) + 1) /\ 1..(u.at - 1) = 1..i
    BY <1>2, <1>4, <1>13
  <2>3. \A a \in 1..(u.at - 1) : Good(u.vectors[a], u.call.texts[a], ModelOf[p]) \/ Missed(u, a, 1)
    BY <1>13, <1>15, <2>2
  <2>. QED
    BY <1>13, <1>14, <2>1, <2>2, <2>3 DEF CallInv, Places
<1>17. /\ task'[p] = u /\ DOMAIN task' = Procs /\ pc' = pc /\ pc[p] = "load"
       /\ \A q \in Procs \ {p} : task'[q] = task[q]
  <2>1. task' = [task EXCEPT ![p].at = i + 1, ![p].vectors[i] = x, ![p].missing = m]
    BY <1>1, <1>3, <1>5, <1>6, <1>7 DEF Load
  <2>2. task'[p] = [t EXCEPT !.at = i + 1, !.vectors[i] = x, !.missing = m]
    BY <1>1, <2>1 DEF Inv
  <2>3. task'[p] = u
    <3>1. PICK r : r = [call |-> t.call, at |-> t.at, vectors |-> t.vectors,
                        missing |-> t.missing, fresh |-> t.fresh]
      OBVIOUS
    <3>2. [r EXCEPT !.at = i + 1, !.vectors[i] = x, !.missing = m] = u
      <4>1. PICK w : w = t.vectors
        OBVIOUS
      <4>2. /\ r = [call |-> t.call, at |-> t.at, vectors |-> w, missing |-> t.missing,
                    fresh |-> t.fresh]
            /\ v = [w EXCEPT ![i] = x]
        BY <1>10, <3>1, <4>1
      <4>3. [r EXCEPT !.at = i + 1, !.vectors[i] = x, !.missing = m]
              = [call |-> t.call, at |-> i + 1, vectors |-> [w EXCEPT ![i] = x], missing |-> m,
                 fresh |-> t.fresh]
        <5>1. PICK r1 : r1 = [r EXCEPT !.at = i + 1]
          OBVIOUS
        <5>2. r1 = [call |-> t.call, at |-> i + 1, vectors |-> w, missing |-> t.missing,
                   fresh |-> t.fresh]
          BY <4>2, <5>1
        <5>3. PICK r2 : r2 = [r1 EXCEPT !.vectors[i] = x]
          OBVIOUS
        <5>4. r2 = [r1 EXCEPT !.vectors = [r1.vectors EXCEPT ![i] = x]] /\ r1.vectors = w
          BY <5>2, <5>3
        <5>5. PICK y : y = [w EXCEPT ![i] = x]
          OBVIOUS
        <5>6. r2 = [r1 EXCEPT !.vectors = y]
          BY <5>4, <5>5
        <5>7. r2 = [call |-> t.call, at |-> i + 1, vectors |-> y, missing |-> t.missing,
                   fresh |-> t.fresh]
          BY <5>2, <5>6
        <5>8. [r2 EXCEPT !.missing = m]
                = [call |-> t.call, at |-> i + 1, vectors |-> y, missing |-> m, fresh |-> t.fresh]
          BY <5>7
        <5>. QED
          BY <5>1, <5>3, <5>5, <5>8, Zenon
      <4>. QED
        BY <1>12, <4>2, <4>3
    <3>3. r = t
      BY <1>4, <3>1, Fields, Zenon
    <3>. QED
      BY <2>2, <3>2, <3>3, Zenon
  <2>. QED
    BY <2>1, <2>3 DEF Load, Inv
<1>18. WorldInv'
  BY WorldStays DEF Load, Inv
<1>. QED
  BY <1>16, <1>17, <1>18, OneStep DEF Inv

\* All the texts have been looked up.
LEMMA LoadDoneStep ==
  ASSUME Inv, NEW p \in Procs, LoadDone(p)
  PROVE  Inv'
<1>1. PICK t : t = task[p]
  OBVIOUS
<1>2. PICK n : n = Len(t.call.texts)
  OBVIOUS
<1>3. /\ CallInv("load", t, ModelOf[p]) /\ Sized(t) /\ t \in TaskType /\ n \in Nat
      /\ t.missing \in Seq(Nat) /\ t.at = n + 1
  <2>1. pc[p] = "load" /\ t.at > n
    BY <1>1, <1>2 DEF LoadDone
  <2>2. CallInv("load", t, ModelOf[p]) /\ n \in Nat
    BY <1>1, <1>2, <2>1, CallFacts
  <2>3. t.at = n + 1
    BY <1>2, <2>1, <2>2 DEF CallInv
  <2>. QED
    BY <1>1, <1>2, <2>2, <2>3, CallFacts
<1>4. PICK u : u = [call |-> t.call, at |-> 1, vectors |-> t.vectors, missing |-> t.missing,
                    fresh |-> t.fresh]
  OBVIOUS
<1>5. /\ u.call = t.call /\ u.at = 1 /\ u.vectors = t.vectors /\ u.missing = t.missing
      /\ u.fresh = t.fresh /\ u \in TaskType /\ Sized(u)
  BY <1>3, <1>4 DEF TaskType, Sized
<1>6. /\ UsesFiles(t.call) /\ t.fresh = <<>>
      /\ \A i \in 1..n : Good(t.vectors[i], t.call.texts[i], ModelOf[p]) \/ Missed(t, i, 1)
  BY <1>2, <1>3 DEF CallInv
<1>7. PICK s : s = IF t.missing = <<>> THEN "ok" ELSE "ask"
  OBVIOUS
<1>8. CallInv(s, u, ModelOf[p])
  <2>1. CASE t.missing = <<>>
    <3>1. \A i \in 1..n : ~Missed(t, i, 1)
      BY <2>1 DEF Missed
    <3>. QED
      BY <1>2, <1>5, <1>6, <1>7, <2>1, <3>1 DEF CallInv, Places
  <2>2. CASE t.missing # <<>>
    <3>1. s = "ask" /\ u.at = Len(u.fresh) + 1 /\ FreshFits(u, ModelOf[p])
      BY <1>5, <1>6, <1>7, <2>2 DEF FreshFits
    <3>2. Covered(u, ModelOf[p], 1)
      BY <1>2, <1>5, <1>6 DEF Covered, Missed
    <3>. QED
      BY <1>5, <1>6, <3>1, <3>2 DEF CallInv, Places
  <2>. QED
    BY <2>1, <2>2
<1>9. /\ task'[p] = u /\ DOMAIN task' = Procs /\ pc' = [pc EXCEPT ![p] = s]
      /\ \A q \in Procs \ {p} : task'[q] = task[q]
  <2>1. task'[p] = [t EXCEPT !.at = 1]
    BY <1>1 DEF LoadDone, Inv
  <2>2. task'[p] = u
    BY <1>3, <1>4, <2>1, Fields
  <2>. QED
    BY <1>1, <1>7, <2>2 DEF LoadDone, Inv, Go
<1>10. WorldInv'
  BY WorldStays DEF LoadDone, Inv
<1>11. pc' \in [Procs -> Places] /\ pc'[p] = s /\ \A q \in Procs \ {p} : pc'[q] = pc[q]
  BY <1>7, <1>9 DEF Inv, Places
<1>12. CallInv(pc'[p], task'[p], ModelOf[p])
  BY <1>8, <1>9, <1>11
<1>. QED
  BY <1>9, <1>10, <1>11, <1>12, OneStep

\* The next batch has b texts, those of the positions missing behind the first f.
IsBatch(p, t, f, b) ==
  /\ Batch(p) \in [1..b -> Texts]
  /\ \A j \in 1..b : Batch(p)[j] = t.call.texts[t.missing[f + j]]

\* A batch is not empty, and has no more than what is missing.
LEMMA BatchFacts ==
  ASSUME Inv, NEW p \in Procs, NEW t, t = task[p], NEW l \in Nat, l = Len(t.missing),
         NEW f \in Nat, t.at = f + 1, f + 1 <= l
  PROVE  \E b \in 1..(l - f) : IsBatch(p, t, f, b)
<1>1. PICK b : b = Smaller(BatchSize, l - (f + 1) + 1)
  OBVIOUS
<1>2. b \in 1..(l - f)
  BY <1>1, EmbeddingAssumption DEF Smaller
<1>3. ASSUME NEW j \in 1..b PROVE t.call.texts[t.missing[f + j]] \in Texts
  <2>1. f + j \in 1..l
    BY <1>2
  <2>2. t.missing[f + j] \in 1..Len(t.call.texts)
    BY <2>1, CallFacts DEF Sized
  <2>3. PICK i : i = t.missing[f + j]
    OBVIOUS
  <2>4. t.call.texts \in Seq(Texts) /\ i \in 1..Len(t.call.texts)
    BY <2>2, <2>3, CallFacts
  <2>5. t.call.texts[i] \in Texts
    BY <2>4
  <2>. QED
    BY <2>3, <2>5
<1>4. Batch(p) = [j \in 1..b |-> t.call.texts[t.missing[f + 1 + j - 1]]]
  BY <1>1 DEF Batch
<1>5. Batch(p) = [j \in 1..b |-> t.call.texts[t.missing[f + j]]]
  <2>1. \A j \in 1..b : f + 1 + j - 1 = f + j
    BY <1>2
  <2>. QED
    BY <1>4, <2>1
<1>. QED
  BY <1>2, <1>3, <1>5 DEF IsBatch

\* A reply that is accepted has a good vector for each text of the batch, by the
\* weights there are.
LEMMA AcceptedIsGood ==
  ASSUME Inv, NEW p \in Procs, NEW reply \in Replies, Accepted(p, reply), NEW b \in Nat \ {0},
         Batch(p) \in [1..b -> Texts]
  PROVE  /\ Answered(p, reply) \in [1..b -> Vector] /\ Len(Batch(p)) = b
         /\ \A j \in 1..b : Good(Answered(p, reply)[j], Batch(p)[j], ModelOf[p])
         /\ \A j \in 1..b : Answered(p, reply)[j].weights = weights[ModelOf[p]]
<1>1. PICK w : w = weights[ModelOf[p]]
  OBVIOUS
<1>2. PICK model : model = ModelOf[p]
  OBVIOUS
<1>3. model \in Models /\ w \in 0..MaxPulls
  BY <1>1, <1>2 DEF Models, Inv, WorldInv
<1>4. PICK batch : batch = Batch(p)
  OBVIOUS
<1>5. batch \in [1..b -> Texts] /\ DOMAIN batch = 1..b /\ Len(batch) = b
  BY <1>4
<1>6. PICK good : good = [j \in 1..b |-> [text |-> batch[j], model |-> model, weights |-> w]]
  OBVIOUS
<1>7. ASSUME NEW j \in 1..b PROVE Good(good[j], batch[j], model) /\ good[j].weights = w
  BY <1>3, <1>5, <1>6 DEF Good, Vector
<1>8. good \in [1..b -> Vector] /\ Len(good) = b
  <2>1. good \in [1..b -> Vector]
    BY <1>6, <1>7 DEF Good
  <2>. QED
    BY <2>1
<1>9. reply \in {"good", "short", "broken"} /\ Len(Answered(p, reply)) = b
      /\ \A j \in DOMAIN Answered(p, reply) : Answered(p, reply)[j] # Broken
  BY <1>4, <1>5 DEF Accepted
<1>10. Answered(p, reply) = CASE reply = "short"  -> SubSeq(good, 1, Len(good) - 1)
                              [] reply = "broken" -> [good EXCEPT ![Len(good)] = Broken]
                              [] OTHER            -> good
  BY <1>1, <1>2, <1>4, <1>5, <1>6, Zenon DEF Answered
<1>11. reply # "short"
  <2>1. SUFFICES ASSUME reply = "short" PROVE FALSE
    OBVIOUS
  <2>2. Answered(p, reply) = SubSeq(good, 1, b - 1)
    BY <1>8, <1>10, <2>1
  <2>3. good \in Seq(Vector)
    BY <1>8
  <2>4. Len(SubSeq(good, 1, b - 1)) = b - 1
    BY <1>8, <2>3
  <2>. QED
    BY <1>9, <2>2, <2>4
<1>12. reply # "broken"
  <2>1. SUFFICES ASSUME reply = "broken" PROVE FALSE
    OBVIOUS
  <2>2. Answered(p, reply) = [good EXCEPT ![b] = Broken]
    BY <1>8, <1>10, <2>1
  <2>. QED
    BY <1>8, <1>9, <2>2
<1>13. Answered(p, reply) = good
  BY <1>9, <1>10, <1>11, <1>12
<1>. QED
  BY <1>1, <1>2, <1>4, <1>5, <1>7, <1>8, <1>13

\* A batch is asked for, or the call fails.
LEMMA AskStep ==
  ASSUME Inv, NEW p \in Procs, Ask(p)
  PROVE  Inv'
<1>1. WorldInv'
  BY WorldStays DEF Ask, Inv
<1>2. CASE Fail(p)
  BY <1>1, <1>2, EndStep DEF Fail, Go
<1>3. CASE ~Fail(p)
  <2>1. PICK reply \in Replies :
          /\ Accepted(p, reply) /\ UNCHANGED pc
          /\ task' = [task EXCEPT ![p].at = @ + Len(Batch(p)), ![p].fresh = @ \o Answered(p, reply)]
    BY <1>3 DEF Ask, Refuse
  <2>2. PICK t : t = task[p]
    OBVIOUS
  <2>3. PICK l \in Nat : l = Len(t.missing)
    BY <2>2, CallFacts
  <2>4. PICK f \in Nat : f = Len(t.fresh)
    BY <2>2, CallFacts
  <2>5. /\ pc[p] = "ask" /\ CallInv("ask", t, ModelOf[p]) /\ Sized(t) /\ t \in TaskType
        /\ t.at = f + 1 /\ f + 1 <= l
    BY <2>2, <2>3, <2>4, CallFacts DEF Ask, CallInv
  <2>6. PICK b \in 1..(l - f) : IsBatch(p, t, f, b)
    BY <2>2, <2>3, <2>5, BatchFacts
  <2>7. PICK g : g = Answered(p, reply)
    OBVIOUS
  <2>8. /\ g \in [1..b -> Vector] /\ Len(Batch(p)) = b
        /\ \A j \in 1..b : Good(g[j], Batch(p)[j], ModelOf[p])
    <3>1. b \in Nat \ {0} /\ Batch(p) \in [1..b -> Texts]
      BY <2>6 DEF IsBatch
    <3>. QED
      BY <2>1, <2>7, <3>1, AcceptedIsGood
  <2>9. PICK fresh : fresh = t.fresh \o g
    OBVIOUS
  <2>10. /\ fresh \in Seq(Vector) /\ Len(fresh) = f + b
         /\ \A j \in 1..f : fresh[j] = t.fresh[j]
         /\ \A j \in 1..b : fresh[f + j] = g[j]
    <3>1. g \in Seq(Vector) /\ Len(g) = b
      BY <2>8
    <3>2. PICK s \in Seq(Vector) : s = t.fresh
      BY <2>5 DEF TaskType
    <3>3. Len(s) = f /\ fresh = s \o g
      BY <2>4, <2>9, <3>2
    <3>4. /\ fresh \in Seq(Vector) /\ Len(fresh) = f + b
          /\ \A i \in 1..(f + b) : fresh[i] = IF i <= f THEN s[i] ELSE g[i - f]
      BY <3>1, <3>3, ConcatProperties
    <3>5. ASSUME NEW j \in 1..f PROVE fresh[j] = s[j]
      BY <3>4
    <3>6. ASSUME NEW j \in 1..b PROVE fresh[f + j] = g[j]
      <4>1. f + j \in 1..(f + b) /\ ~(f + j <= f) /\ (f + j) - f = j
        OBVIOUS
      <4>. QED
        BY <3>4, <4>1
    <3>. QED
      BY <3>2, <3>4, <3>5, <3>6
  <2>11. PICK u : u = [call |-> t.call, at |-> f + 1 + b, vectors |-> t.vectors, missing |-> t.missing,
                       fresh |-> fresh]
    OBVIOUS
  <2>12. /\ u.call = t.call /\ u.at = f + 1 + b /\ u.vectors = t.vectors /\ u.missing = t.missing
         /\ u.fresh = fresh
    BY <2>11
  <2>13. u \in TaskType /\ Sized(u)
    <3>1. u \in TaskType
      BY <2>5, <2>10, <2>11 DEF TaskType
    <3>. QED
      BY <2>3, <2>5, <2>10, <2>12, <3>1 DEF Sized
  <2>14. FreshFits(u, ModelOf[p])
    <3>1. ASSUME NEW j \in 1..(f + b)
          PROVE  Good(fresh[j], t.call.texts[t.missing[j]], ModelOf[p])
      <4>1. CASE j <= f
        <5>1. Good(t.fresh[j], t.call.texts[t.missing[j]], ModelOf[p])
          BY <2>4, <2>5, <4>1 DEF CallInv, FreshFits
        <5>. QED
          BY <2>10, <4>1, <5>1
      <4>2. CASE j > f
        <5>1. PICK i \in 1..b : j = f + i
          <6>1. j - f \in 1..b /\ j = f + (j - f)
            BY <4>2
          <6>. QED
            BY <6>1
        <5>2. Good(g[i], t.call.texts[t.missing[f + i]], ModelOf[p])
          BY <2>6, <2>8 DEF IsBatch
        <5>. QED
          BY <2>10, <5>1, <5>2
      <4>. QED
        BY <4>1, <4>2
    <3>. QED
      BY <2>10, <2>12, <3>1 DEF FreshFits
  <2>15. CallInv("ask", u, ModelOf[p])
    <3>1. IF UsesFiles(t.call) THEN Covered(t, ModelOf[p], 1)
          ELSE Len(t.missing) = Len(t.call.texts) /\ \A i \in 1..Len(t.missing) : t.missing[i] = i
      BY <2>5 DEF CallInv
    <3>2. Covered(t, ModelOf[p], 1) <=> Covered(u, ModelOf[p], 1)
      BY <2>12 DEF Covered, Missed
    <3>3. u.at = Len(u.fresh) + 1
      BY <2>10, <2>12
    <3>. QED
      BY <2>12, <2>13, <2>14, <3>1, <3>2, <3>3 DEF CallInv, Places
  <2>16. task'[p] = u /\ DOMAIN task' = Procs /\ \A q \in Procs \ {p} : task'[q] = task[q]
    <3>1. task'[p] = [t EXCEPT !.at = @ + Len(Batch(p)), !.fresh = @ \o Answered(p, reply)]
      BY <2>1, <2>2 DEF Inv
    <3>2. PICK r : r = [call |-> t.call, at |-> t.at, vectors |-> t.vectors,
                        missing |-> t.missing, fresh |-> t.fresh]
      OBVIOUS
    <3>3. r = t
      BY <2>5, <3>2, Fields, Zenon
    <3>4. task'[p] = [r EXCEPT !.at = f + 1 + b, !.fresh = fresh]
      BY <2>5, <2>7, <2>8, <2>9, <3>1, <3>3
    <3>5. task'[p] = u
      BY <2>11, <3>2, <3>4
    <3>. QED
      BY <2>1, <3>5 DEF Inv
  <2>. QED
    BY <1>1, <2>1, <2>5, <2>15, <2>16, OneStep DEF Inv
<1>. QED
  BY <1>2, <1>3

\* Ollama has answered all that was missing.
LEMMA AskDoneStep ==
  ASSUME Inv, NEW p \in Procs, AskDone(p)
  PROVE  Inv'
<1>1. WorldInv'
  BY WorldStays DEF AskDone, Inv
<1>2. CASE Fail(p)
  BY <1>1, <1>2, EndStep DEF Fail, Go
<1>3. CASE ~Fail(p)
  <2>1. PICK t : t = task[p]
    OBVIOUS
  <2>2. PICK l \in Nat : l = Len(t.missing)
    BY <2>1, CallFacts
  <2>3. /\ CallInv("ask", t, ModelOf[p]) /\ Sized(t) /\ t \in TaskType
        /\ t.fresh \in Seq(Vector) /\ Len(t.fresh) = l /\ Len(t.vectors) = Len(t.call.texts)
    <3>1. pc[p] = "ask" /\ t.at > l
      BY <2>1, <2>2 DEF AskDone
    <3>2. /\ CallInv("ask", t, ModelOf[p]) /\ Sized(t) /\ t \in TaskType
          /\ t.fresh \in Seq(Vector) /\ Len(t.fresh) \in Nat
      BY <2>1, <3>1, CallFacts
    <3>3. t.at = Len(t.fresh) + 1 /\ Len(t.fresh) <= l
      BY <2>2, <3>2 DEF CallInv, Sized
    <3>. QED
      BY <2>2, <3>1, <3>2, <3>3 DEF Sized
  <2>4. CASE UsesFiles(t.call)
    <3>1. task' = [task EXCEPT ![p].at = 1] /\ pc' = [pc EXCEPT ![p] = "store"]
      BY <1>3, <2>1, <2>2, <2>3, <2>4 DEF AskDone, Go
    <3>2. PICK u : u = [call |-> t.call, at |-> 1, vectors |-> t.vectors, missing |-> t.missing,
                        fresh |-> t.fresh]
      OBVIOUS
    <3>3. /\ u.call = t.call /\ u.at = 1 /\ u.vectors = t.vectors /\ u.missing = t.missing
          /\ u.fresh = t.fresh /\ u \in TaskType /\ Sized(u)
      BY <2>3, <3>2 DEF TaskType, Sized
    <3>4. CallInv("store", u, ModelOf[p])
      <4>1. Covered(t, ModelOf[p], 1) /\ FreshFits(t, ModelOf[p])
        BY <2>3, <2>4 DEF CallInv
      <4>2. Covered(u, ModelOf[p], 1) /\ FreshFits(u, ModelOf[p])
        BY <3>3, <4>1 DEF Covered, Missed, FreshFits
      <4>. QED
        BY <2>2, <2>3, <3>3, <4>2 DEF CallInv, Places
    <3>5. task'[p] = u /\ DOMAIN task' = Procs /\ \A q \in Procs \ {p} : task'[q] = task[q]
      <4>1. task'[p] = [t EXCEPT !.at = 1]
        BY <2>1, <3>1 DEF Inv
      <4>2. task'[p] = u
        BY <2>3, <3>2, <4>1, Fields
      <4>. QED
        BY <3>1, <4>2 DEF Inv
    <3>6. pc' \in [Procs -> Places] /\ pc'[p] = "store" /\ \A q \in Procs \ {p} : pc'[q] = pc[q]
      BY <3>1 DEF Inv, Places
    <3>. QED
      BY <1>1, <3>4, <3>5, <3>6, OneStep
  <2>5. CASE ~UsesFiles(t.call)
    <3>1. task' = [task EXCEPT ![p].vectors = t.fresh] /\ pc' = [pc EXCEPT ![p] = "ok"]
      BY <1>3, <2>1, <2>5 DEF AskDone, Go
    <3>2. PICK u : u = [call |-> t.call, at |-> t.at, vectors |-> t.fresh, missing |-> t.missing,
                        fresh |-> t.fresh]
      OBVIOUS
    <3>3. l = Len(t.call.texts) /\ \A i \in 1..l : t.missing[i] = i
      BY <2>2, <2>3, <2>5 DEF CallInv
    <3>4. /\ u.call = t.call /\ u.at = t.at /\ u.vectors = t.fresh /\ u.missing = t.missing
          /\ u.fresh = t.fresh /\ u \in TaskType /\ Sized(u)
      <4>1. t.fresh \in Seq(Vector \cup {Hole})
        BY <2>3
      <4>2. u \in TaskType
        BY <2>3, <3>2, <4>1 DEF TaskType
      <4>. QED
        BY <2>3, <3>2, <3>3, <4>2 DEF Sized
    <3>5. CallInv("ok", u, ModelOf[p])
      <4>1. ASSUME NEW i \in 1..l PROVE Good(t.fresh[i], t.call.texts[i], ModelOf[p])
        BY <2>3, <3>3 DEF CallInv, FreshFits
      <4>. QED
        BY <3>3, <3>4, <4>1 DEF CallInv, Places
    <3>6. task'[p] = u /\ DOMAIN task' = Procs /\ \A q \in Procs \ {p} : task'[q] = task[q]
      <4>1. task'[p] = [t EXCEPT !.vectors = t.fresh]
        BY <2>1, <3>1 DEF Inv
      <4>2. task'[p] = u
        BY <2>3, <3>2, <4>1, Fields
      <4>. QED
        BY <3>1, <4>2 DEF Inv
    <3>7. pc' \in [Procs -> Places] /\ pc'[p] = "ok" /\ \A q \in Procs \ {p} : pc'[q] = pc[q]
      BY <3>1 DEF Inv, Places
    <3>. QED
      BY <1>1, <3>5, <3>6, <3>7, OneStep
  <2>. QED
    BY <2>4, <2>5
<1>. QED
  BY <1>2, <1>3

\* A file is changed to a vector its name says, or to one that is not read.
LEMMA FileStays ==
  ASSUME Inv, NEW p \in Procs, NEW text \in Texts, NEW content, UNCHANGED <<weights, died>>,
         file' = [file EXCEPT ![KeyOf(p, text)] = content],
         content = Torn \/ Good(content, text, ModelOf[p])
  PROVE  WorldInv'
<1>1. PICK k : k = KeyOf(p, text)
  OBVIOUS
<1>2. k \in Keys /\ k[3] = text /\ k[1] = ModelOf[p] /\ file' = [file EXCEPT ![k] = content]
  BY <1>1, KeyIsKey
<1>3. file' \in [Keys -> Vector \cup {Absent, Torn}]
  BY <1>2 DEF Inv, WorldInv, FileInv, Good
<1>4. ASSUME NEW j \in Keys PROVE file'[j] \in {Absent, Torn} \/ Good(file'[j], j[3], j[1])
  <2>1. CASE j = k
    BY <1>2, <2>1 DEF Inv, WorldInv, FileInv
  <2>2. CASE j # k
    <3>1. file'[j] = file[j] /\ (file[j] \in {Absent, Torn} \/ Good(file[j], j[3], j[1]))
      BY <1>2, <2>2 DEF Inv, WorldInv, FileInv
    <3>. QED
      BY <3>1
  <2>. QED
    BY <2>1, <2>2
<1>. QED
  BY <1>3, <1>4 DEF Inv, WorldInv, FileInv

\* The text whose vector is stored, and the vector.
LEMMA StoringFacts ==
  ASSUME Inv, NEW p \in Procs, pc[p] \in {"store", "write"}, task[p].at <= Len(task[p].missing)
  PROVE  LET t == task[p]
         IN  /\ Storing(p) \in Texts /\ t.at \in 1..Len(t.missing)
             /\ t.missing[t.at] \in 1..Len(t.call.texts)
             /\ Storing(p) = t.call.texts[t.missing[t.at]]
             /\ Good(t.fresh[t.at], Storing(p), ModelOf[p])
<1>1. PICK t : t = task[p]
  OBVIOUS
<1>2. PICK a : a = t.at
  OBVIOUS
<1>3. PICK l \in Nat : l = Len(t.missing)
  BY <1>1, CallFacts
<1>4. a \in 1..l /\ FreshFits(t, ModelOf[p]) /\ Len(t.fresh) = l
  BY <1>1, <1>2, <1>3, CallFacts DEF CallInv
<1>5. PICK i : i = t.missing[a]
  OBVIOUS
<1>6. i \in 1..Len(t.call.texts) /\ t.call.texts \in Seq(Texts)
  BY <1>1, <1>3, <1>4, <1>5, CallFacts DEF Sized
<1>7. t.call.texts[i] \in Texts /\ Storing(p) = t.call.texts[i]
  BY <1>1, <1>2, <1>5, <1>6 DEF Storing
<1>8. Good(t.fresh[a], t.call.texts[i], ModelOf[p])
  BY <1>4, <1>5 DEF FreshFits
<1>. QED
  BY <1>1, <1>2, <1>3, <1>4, <1>5, <1>6, <1>7, <1>8

\* The file of the next text is emptied.
LEMMA TruncateStep ==
  ASSUME Inv, NEW p \in Procs, Truncate(p)
  PROVE  Inv'
<1>1. pc[p] = "store" /\ task[p].at <= Len(task[p].missing) /\ Storing(p) \in Texts
  BY StoringFacts DEF Truncate
<1>2. WorldInv'
  BY <1>1, FileStays DEF Truncate
<1>3. CallInv("write", task[p], ModelOf[p])
  BY <1>1, CallFacts DEF CallInv, Places
<1>4. /\ pc' \in [Procs -> Places] /\ pc'[p] = "write" /\ task' = task
      /\ \A q \in Procs \ {p} : pc'[q] = pc[q]
  BY DEF Truncate, Go, Inv, Places
<1>. QED
  BY <1>2, <1>3, <1>4, OneStep DEF Inv

\* The vector of the next text is stored and put at its place.
LEMMA WriteStep ==
  ASSUME Inv, NEW p \in Procs, Write(p)
  PROVE  Inv'
<1>1. pc[p] = "write" /\ task[p].at <= Len(task[p].missing)
  BY CallFacts DEF Write, CallInv
<1>2. PICK t : t = task[p]
  OBVIOUS
<1>3. PICK l \in Nat : l = Len(t.missing)
  BY <1>2, CallFacts
<1>4. PICK n \in Nat : n = Len(t.call.texts)
  BY <1>2, CallFacts
<1>5. PICK a \in 1..l : a = t.at
  BY <1>1, <1>2, <1>3, StoringFacts
<1>6. PICK i \in 1..n : i = t.missing[a]
  BY <1>1, <1>2, <1>4, <1>5, StoringFacts
<1>7. PICK x : x = t.fresh[a]
  OBVIOUS
<1>8. /\ Storing(p) \in Texts /\ Good(x, Storing(p), ModelOf[p])
      /\ Good(x, t.call.texts[i], ModelOf[p])
  BY <1>1, <1>2, <1>5, <1>6, <1>7, StoringFacts
<1>9. /\ CallInv("write", t, ModelOf[p]) /\ t \in TaskType /\ Sized(t)
      /\ t.vectors \in Seq(Vector \cup {Hole}) /\ Len(t.vectors) = n
  BY <1>1, <1>2, <1>4, CallFacts
<1>10. PICK v : v = [t.vectors EXCEPT ![i] = x]
  OBVIOUS
<1>11. /\ v \in Seq(Vector \cup {Hole}) /\ Len(v) = n /\ v[i] = x
       /\ \A j \in 1..n : j # i => v[j] = t.vectors[j]
  <2>1. x \in Vector \cup {Hole}
    BY <1>8 DEF Good
  <2>. QED
    BY <1>9, <1>10, <2>1
<1>12. PICK u : u = [call |-> t.call, at |-> a + 1, vectors |-> v, missing |-> t.missing,
                     fresh |-> t.fresh]
  OBVIOUS
<1>13. /\ u.call = t.call /\ u.at = a + 1 /\ u.vectors = v /\ u.missing = t.missing
       /\ u.fresh = t.fresh
  BY <1>12
<1>14. u \in TaskType /\ Sized(u)
  <2>1. u \in TaskType
    BY <1>9, <1>11, <1>12 DEF TaskType
  <2>. QED
    BY <1>4, <1>9, <1>11, <1>13, <2>1 DEF Sized
<1>15. Covered(u, ModelOf[p], a + 1)
  <2>1. ASSUME NEW j \in 1..n
        PROVE  Good(v[j], t.call.texts[j], ModelOf[p]) \/ Missed(u, j, a + 1)
    <3>1. CASE j = i
      BY <1>8, <1>11, <3>1
    <3>2. CASE j # i
      <4>1. Good(t.vectors[j], t.call.texts[j], ModelOf[p]) \/ Missed(t, j, a)
        BY <1>4, <1>5, <1>9 DEF CallInv, Covered
      <4>2. ASSUME Missed(t, j, a) PROVE Missed(u, j, a + 1)
        <5>1. PICK b \in a..l : t.missing[b] = j
          BY <1>3, <4>2 DEF Missed
        <5>2. b \in (a + 1)..l
          BY <1>6, <3>2, <5>1
        <5>. QED
          BY <1>3, <1>13, <5>1, <5>2 DEF Missed
      <4>3. v[j] = t.vectors[j]
        BY <1>11, <3>2
      <4>. QED
        BY <4>1, <4>2, <4>3
    <3>. QED
      BY <3>1, <3>2
  <2>. QED
    BY <1>4, <1>13, <2>1 DEF Covered
<1>16. CallInv("store", u, ModelOf[p])
  <2>1. Len(t.fresh) = l /\ FreshFits(t, ModelOf[p])
    BY <1>3, <1>9 DEF CallInv
  <2>2. FreshFits(u, ModelOf[p])
    BY <1>13, <2>1 DEF FreshFits
  <2>. QED
    BY <1>3, <1>13, <1>14, <1>15, <2>1, <2>2 DEF CallInv, Places
<1>17. task'[p] = u /\ DOMAIN task' = Procs /\ \A q \in Procs \ {p} : task'[q] = task[q]
  <2>1. task' = [task EXCEPT ![p].vectors[i] = x, ![p].at = @ + 1]
    BY <1>2, <1>5, <1>6, <1>7 DEF Write, Place
  <2>2. task'[p] = [t EXCEPT !.vectors[i] = x, !.at = @ + 1]
    BY <1>2, <2>1 DEF Inv
  <2>3. PICK r : r = [call |-> t.call, at |-> t.at, vectors |-> t.vectors,
                      missing |-> t.missing, fresh |-> t.fresh]
    OBVIOUS
  <2>4. r = t
    BY <1>9, <2>3, Fields, Zenon
  <2>5. PICK s : s = [r EXCEPT !.vectors[i] = x]
    OBVIOUS
  <2>6. s = [r EXCEPT !.vectors = v]
    <3>1. r.vectors = t.vectors
      BY <2>3
    <3>. QED
      BY <1>10, <2>5, <3>1
  <2>7. s = [call |-> t.call, at |-> a, vectors |-> v, missing |-> t.missing, fresh |-> t.fresh]
    BY <1>5, <2>3, <2>6
  <2>8. task'[p] = [s EXCEPT !.at = @ + 1]
    BY <2>2, <2>4, <2>5, Zenon
  <2>9. task'[p] = u
    BY <1>12, <2>7, <2>8
  <2>. QED
    BY <2>1, <2>9 DEF Inv
<1>18. WorldInv'
  BY <1>2, <1>5, <1>7, <1>8, FileStays DEF Write
<1>19. pc' \in [Procs -> Places] /\ pc'[p] = "store" /\ \A q \in Procs \ {p} : pc'[q] = pc[q]
  BY DEF Write, Go, Inv, Places
<1>. QED
  BY <1>16, <1>17, <1>18, <1>19, OneStep

\* All that was missing has been stored.
LEMMA StoreDoneStep ==
  ASSUME Inv, NEW p \in Procs, StoreDone(p)
  PROVE  Inv'
<1>1. PICK t : t = task[p]
  OBVIOUS
<1>2. PICK l \in Nat : l = Len(t.missing)
  BY <1>1, CallFacts
<1>3. CallInv("store", t, ModelOf[p]) /\ t.at \in Nat /\ t.at > l
  BY <1>1, <1>2, CallFacts DEF StoreDone
<1>4. CallInv("ok", t, ModelOf[p])
  <2>1. \A i \in 1..Len(t.call.texts) : ~Missed(t, i, t.at)
    BY <1>2, <1>3 DEF Missed
  <2>. QED
    BY <1>3, <2>1 DEF CallInv, Covered, Places
<1>5. WorldInv'
  BY WorldStays DEF StoreDone, Inv
<1>6. /\ pc' \in [Procs -> Places] /\ pc'[p] = "ok" /\ task' = task
      /\ \A q \in Procs \ {p} : pc'[q] = pc[q]
  BY DEF StoreDone, Go, Inv, Places
<1>. QED
  BY <1>1, <1>4, <1>5, <1>6, OneStep DEF Inv

\* The steps that end a call, and that of the world.
LEMMA OtherSteps ==
  ASSUME Inv
  PROVE  /\ \A p \in Procs : WriteFails(p) \/ Return(p) \/ Crash(p) => Inv'
         /\ \A m \in Models : Pull(m) => Inv'
<1>1. ASSUME NEW p \in Procs, WriteFails(p) PROVE Inv'
  <2>1. WorldInv'
    BY <1>1, WorldStays DEF WriteFails, Inv
  <2>. QED
    BY <1>1, <2>1, EndStep DEF WriteFails, Fail, Go
<1>2. ASSUME NEW p \in Procs, Return(p) PROVE Inv'
  <2>1. WorldInv'
    BY <1>2, WorldStays DEF Return, Inv
  <2>. QED
    BY <1>2, <2>1, EndStep DEF Return, Go
<1>3. ASSUME NEW p \in Procs, Crash(p) PROVE Inv'
  <2>1. WorldInv'
    BY <1>3 DEF Crash, Inv, WorldInv, FileInv
  <2>. QED
    BY <1>3, <2>1, EndStep DEF Crash, Go
<1>4. ASSUME NEW m \in Models, Pull(m) PROVE Inv'
  <2>1. weights' \in [Models -> 0..MaxPulls]
    BY <1>4, EmbeddingAssumption DEF Pull, Inv, WorldInv
  <2>. QED
    BY <1>4, <2>1 DEF Pull, Inv, WorldInv, FileInv
<1>. QED
  BY <1>1, <1>2, <1>3, <1>4

\* Every step leaves calls and files as they should be.
LEMMA NextInv == Inv /\ [Next]_vars => Inv'
<1>. SUFFICES ASSUME Inv, [Next]_vars PROVE Inv'
  OBVIOUS
<1>1. CASE UNCHANGED vars
  BY <1>1 DEF vars, Inv, WorldInv, FileInv
<1>2. ASSUME NEW p \in Procs, NEW c \in Calls, Embed(p, c) PROVE Inv'
  BY <1>2, EmbedStep
<1>3. ASSUME NEW p \in Procs, Step(p) PROVE Inv'
  BY <1>3, LoadStep, LoadDoneStep, AskStep, AskDoneStep, TruncateStep, WriteStep, StoreDoneStep,
     OtherSteps DEF Step
<1>4. ASSUME NEW p \in Procs, Return(p) \/ Crash(p) PROVE Inv'
  BY <1>4, OtherSteps
<1>5. ASSUME NEW m \in Models, Pull(m) PROVE Inv'
  BY <1>5, OtherSteps
<1>. QED
  BY <1>1, <1>2, <1>3, <1>4, <1>5 DEF Next

\* Calls and files are always as they should be.
LEMMA SpecInv == Spec => []Inv
  BY InitInv, NextInv, PTL DEF Spec

\* For any processes, texts, calls, batch sizes, deaths and changes of weights: a
\* vector in hand is a whole one, and no call has more answers than it has asked for
\* (embedcache.go load, vector.go prepareVectors).
THEOREM TypeCorrect == Spec => []TypeOK
<1>1. ASSUME Inv PROVE TypeOK
  <2>1. ASSUME NEW p \in Procs, NEW t, t = task[p]
        PROVE  /\ t.call \in Calls \cup {NoTask.call}
               /\ t.vectors \in Seq(Vector \cup {Hole}) /\ t.fresh \in Seq(Vector)
               /\ Len(t.vectors) = Len(t.call.texts)
               /\ t.missing \in Seq(DOMAIN t.call.texts) /\ Len(t.fresh) <= Len(t.missing)
    <3>1. t \in TaskType /\ Sized(t) /\ DOMAIN t.call.texts = 1..Len(t.call.texts)
      BY <1>1, <2>1, CallFacts
    <3>2. t.missing \in Seq(DOMAIN t.call.texts)
      <4>1. PICK l \in Nat : l = Len(t.missing)
        BY <3>1 DEF TaskType
      <4>2. t.missing \in [1..l -> 1..Len(t.call.texts)]
        BY <3>1, <4>1 DEF TaskType, Sized
      <4>. QED
        BY <3>1, <4>2
    <3>. QED
      BY <3>1, <3>2 DEF TaskType, Sized, AnyCall
  <2>. QED
    BY <1>1, <2>1 DEF TypeOK, Inv, WorldInv, FileInv, Places
<1>. QED
  BY <1>1, SpecInv, PTL

\* For any processes, texts, calls, batch sizes, deaths and changes of weights: a call
\* that succeeds has one vector per text and in their order, each of that text and of
\* its own model, whatever other processes have left in the files (embed.go Embedder,
\* client.go Embed, embedcache.go fill).
THEOREM AnswersAlwaysInOrder == Spec => []AnswersInOrder
<1>1. ASSUME Inv PROVE AnswersInOrder
  <2>1. ASSUME NEW p \in Procs, pc[p] = "ok", NEW t, t = task[p]
        PROVE  /\ Len(t.vectors) = Len(t.call.texts)
               /\ \A i \in DOMAIN t.vectors :
                    t.vectors[i] \in Vector /\ t.vectors[i].text = t.call.texts[i]
                      /\ t.vectors[i].model = ModelOf[p]
    <3>1. CallInv("ok", t, ModelOf[p]) /\ Sized(t) /\ DOMAIN t.vectors = 1..Len(t.call.texts)
      BY <1>1, <2>1, CallFacts
    <3>. QED
      BY <3>1 DEF CallInv, Sized, Good
  <2>. QED
    BY <2>1 DEF AnswersInOrder
<1>. QED
  BY <1>1, SpecInv, PTL
=============================================================================
