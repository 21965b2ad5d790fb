-------------------------- MODULE TranslationsProofs --------------------------
(***************************************************************************)
(* Theorems about Translations for every set of requests, languages,       *)
(* screens and jobs, on both kinds of databases.                           *)
(***************************************************************************)
EXTENDS Translations, TLAPS

(* What a handler remembers fits together and fits what it has written.    *)
GoodTask(s, q, w) ==
  /\ q.made \subseteq q.missing
  /\ \A i \in q.missing : q.texts[i] # NoText
  /\ q.phase = "insert" => q.todo \subseteq q.made
  /\ q.phase = "caller" => s \in Jobs
  /\ q.phase \in {"idle", "shown", "failed"} => w = NoRows
  /\ s \in Screens /\ q.phase \in {"look", "llm"} => w = NoRows
  /\ q.phase \in {"llm", "insert", "reread", "commit", "caller", "shown"} =>
       \A i \in Ids : q.texts[i] # NoText /\ (i \notin q.missing \/ i \in q.made)
                      => q.shown[i] # NoRow
  /\ s \in Screens /\ q.phase = "insert" =>
       \A k \in Keys : w[k] # NoRow => k[1] \in q.made \ q.todo
  /\ s \in Screens /\ q.phase = "failed" =>
       \A i \in Ids : {j \in Ids : q.texts[j] # NoText} # {i}

(* Where ids are not used again, it is also about the right requests.      *)
OwnTask(q, w) ==
  /\ \A i \in Ids : q.shown[i] # NoRow => /\ q.shown[i].of = q.texts[i]
                                          /\ q.shown[i].as = q.lang
  /\ \A i \in Ids : q.texts[i] # NoText => /\ i \in given
                                           /\ requests[i] \in {q.texts[i], NoText}
  /\ \A k \in Keys : w[k] # NoRow => /\ w[k].of = requests[k[1]]
                                     /\ w[k].as = k[2]

TypeInv ==
  /\ sqlite \in BOOLEAN
  /\ requests \in [Ids -> Texts \cup {NoText}]
  /\ filed \in 0..MaxTexts
  /\ given \subseteq Ids
  /\ opened \in 0..MaxCalls
  /\ cache \in [Keys -> Rows \cup {NoRow}]
  /\ wrote \in [Handlers -> [Keys -> Rows \cup {NoRow}]]
  /\ task \in [Handlers -> Tasks]

(* The unique key: nobody has written what is stored or what another       *)
(* transaction has written.                                                *)
KeyInv ==
  /\ \A s, t \in Handlers, k \in Keys :
       s # t => wrote[s][k] = NoRow \/ wrote[t][k] = NoRow
  /\ \A s \in Handlers, k \in Keys : wrote[s][k] # NoRow => cache[k] = NoRow

TaskInv == \A s \in Handlers : GoodTask(s, task[s], wrote[s])

OwnInv ==
  ~sqlite => /\ \A i \in Ids : requests[i] # NoText => i \in given
             /\ StoredBelongs
             /\ \A s \in Handlers : OwnTask(task[s], wrote[s])

Inv == TypeInv /\ KeyInv /\ TaskInv /\ OwnInv

-----------------------------------------------------------------------------
(* A row is about a text; NoRow is not.                                    *)
LEMMA RowFacts ==
  /\ \A r \in Rows : r.of \in Texts /\ r.of # NoText /\ r # NoRow
  /\ NoRows \in [Keys -> Rows \cup {NoRow}] /\ \A k \in Keys : NoRows[k] = NoRow
BY TranslationsAssumption DEF Rows, NoRow, NoRows, Texts, NoText

(* An idle handler is a well-formed one.                                   *)
LEMMA IdleFacts ==
  /\ Idle \in Tasks
  /\ \A s \in Handlers : GoodTask(s, Idle, NoRows)
  /\ OwnTask(Idle, NoRows)
<1>1. (CHOOSE l \in Languages : TRUE) \in Languages
  BY TranslationsAssumption
<1>2. Idle \in Tasks
  BY <1>1 DEF Idle, Tasks, Phases
<1>3. \A s \in Handlers : GoodTask(s, Idle, NoRows)
  BY RowFacts DEF Idle, GoodTask
<1>4. OwnTask(Idle, NoRows)
  BY RowFacts DEF Idle, OwnTask
<1>5. QED BY <1>2, <1>3, <1>4

(* The invariant holds before the first request is filed.                  *)
LEMMA InvInit == Init => Inv
<1> SUFFICES ASSUME Init PROVE Inv
  OBVIOUS
<1>1. TypeInv
  BY TranslationsAssumption, RowFacts, IdleFacts DEF Init, TypeInv, Texts
<1>2. KeyInv /\ TaskInv
  BY RowFacts, IdleFacts DEF Init, KeyInv, TaskInv
<1>3. OwnInv
  BY RowFacts, IdleFacts DEF Init, OwnInv, StoredBelongs, Keys
<1>4. QED BY <1>1, <1>2, <1>3 DEF Inv

-----------------------------------------------------------------------------
(* A handler goes on without a COMMIT.                                     *)
LEMMA TaskStep ==
  ASSUME Inv, NEW s \in Handlers, NEW q \in Tasks,
         NEW w \in [Keys -> Rows \cup {NoRow}],
         GoodTask(s, q, w), ~sqlite => OwnTask(q, w),
         \A k \in Keys : w[k] # NoRow =>
           \/ wrote[s][k] # NoRow
           \/ cache[k] = NoRow /\ \A t \in Handlers \ {s} : wrote[t][k] = NoRow,
         task' = [task EXCEPT ![s] = q], wrote' = [wrote EXCEPT ![s] = w],
         opened' \in 0..MaxCalls,
         UNCHANGED <<sqlite, requests, filed, given, cache>>
  PROVE  Inv'
<1>1. TypeInv'
  BY DEF Inv, TypeInv
<1>2. /\ task'[s] = q /\ wrote'[s] = w
      /\ \A t \in Handlers \ {s} : task'[t] = task[t] /\ wrote'[t] = wrote[t]
  BY DEF Inv, TypeInv
<1>3. KeyInv'
  BY <1>2 DEF Inv, KeyInv
<1>4. TaskInv'
  BY <1>2 DEF Inv, TaskInv
<1>5. OwnInv'
  <2>1. \A t \in Handlers : ~sqlite => OwnTask(task'[t], wrote'[t])
    BY <1>2 DEF Inv, OwnInv
  <2>2. QED BY <2>1 DEF Inv, OwnInv, StoredBelongs, OwnTask
<1>6. QED BY <1>1, <1>3, <1>4, <1>5 DEF Inv

(* The end of a transaction: its rows are stored, or not.                  *)
LEMMA EndStep ==
  ASSUME Inv, NEW s \in Handlers, NEW q \in Tasks,
         GoodTask(s, q, NoRows), ~sqlite => OwnTask(q, NoRows),
         cache' \in {Stored(s), cache},
         task' = [task EXCEPT ![s] = q], wrote' = [wrote EXCEPT ![s] = NoRows],
         UNCHANGED <<sqlite, requests, filed, given, opened>>
  PROVE  Inv'
<1>1. \A k \in Keys : \/ cache'[k] = cache[k]
                      \/ wrote[s][k] # NoRow /\ cache'[k] = wrote[s][k]
  <2>1. CASE cache' = cache
    BY <2>1
  <2>2. CASE cache' = Stored(s)
    BY <2>2 DEF Stored
  <2>3. QED BY <2>1, <2>2
<1>2. cache' \in [Keys -> Rows \cup {NoRow}]
  BY DEF Inv, TypeInv, Stored
<1>3. TypeInv'
  BY <1>2, RowFacts DEF Inv, TypeInv
<1>4. /\ task'[s] = q /\ wrote'[s] = NoRows
      /\ \A t \in Handlers \ {s} : task'[t] = task[t] /\ wrote'[t] = wrote[t]
  BY DEF Inv, TypeInv
<1>5. KeyInv'
  BY <1>1, <1>4, RowFacts DEF Inv, KeyInv
<1>6. TaskInv'
  BY <1>4 DEF Inv, TaskInv
<1>7. OwnInv'
  <2>1. ASSUME ~sqlite, NEW k \in Keys, cache'[k] # NoRow
        PROVE  cache'[k].of = requests[k[1]] /\ cache'[k].as = k[2]
    BY <1>1, <2>1 DEF Inv, OwnInv, StoredBelongs, OwnTask
  <2>2. \A t \in Handlers : ~sqlite => OwnTask(task'[t], wrote'[t])
    BY <1>4 DEF Inv, OwnInv
  <2>3. QED BY <2>1, <2>2 DEF Inv, OwnInv, StoredBelongs, OwnTask
<1>8. QED BY <1>3, <1>5, <1>6, <1>7 DEF Inv

-----------------------------------------------------------------------------
(* A new request has an id nobody knows, if ids are not used again.        *)
LEMMA CreateStep ==
  ASSUME Inv, NEW i \in Ids, Create(i)
  PROVE  Inv'
<1>1. filed + 1 \in Texts /\ filed + 1 \in 0..MaxTexts
  BY TranslationsAssumption DEF Inv, TypeInv, Create, Texts
<1>2. TypeInv'
  BY <1>1 DEF Inv, TypeInv, Create
<1>3. KeyInv' /\ TaskInv'
  BY DEF Inv, KeyInv, TaskInv, Create
<1>4. OwnInv'
  <2> SUFFICES ASSUME ~sqlite PROVE OwnInv'
    BY DEF OwnInv, Create
  <2>1. i \notin given /\ requests[i] = NoText
    BY DEF Create, Fresh, ReuseIds, Inv, OwnInv
  <2>2. \A j \in Ids \ {i} : requests'[j] = requests[j]
    BY DEF Create, Inv, TypeInv
  <2>3. i \in given' /\ \A j \in given : j \in given'
    BY DEF Create
  <2>4. \A k \in Keys : cache[k] # NoRow => k[1] \in Ids \ {i}
    <3>1. \A k \in Keys : cache[k] # NoRow => cache[k].of # NoText
      BY RowFacts DEF Inv, TypeInv
    <3>2. QED BY <2>1, <3>1 DEF Inv, OwnInv, StoredBelongs, Keys
  <2>5. StoredBelongs'
    BY <2>2, <2>4 DEF Create, Inv, OwnInv, StoredBelongs
  <2>6. ASSUME NEW s \in Handlers
        PROVE  OwnTask(task[s], wrote[s])'
    <3>1. OwnTask(task[s], wrote[s])
      BY DEF Inv, OwnInv
    <3>2. \A j \in Ids : task[s].texts[j] # NoText => j # i
      BY <2>1, <3>1 DEF OwnTask
    <3>3. \A k \in Keys : wrote[s][k] # NoRow => k[1] \in Ids \ {i}
      <4>1. \A k \in Keys : wrote[s][k] # NoRow => wrote[s][k].of # NoText
        BY RowFacts DEF Inv, TypeInv
      <4>2. QED BY <2>1, <3>1, <4>1 DEF OwnTask, Keys
    <3>4. QED BY <2>2, <2>3, <3>1, <3>2, <3>3 DEF OwnTask, Create
  <2>7. \A j \in Ids : requests'[j] # NoText => j \in given'
    BY <2>2, <2>3 DEF Inv, OwnInv
  <2>8. QED BY <2>5, <2>6, <2>7 DEF OwnInv
<1>5. QED BY <1>2, <1>3, <1>4 DEF Inv

(* A delete waits for those who have written about the request, and takes  *)
(* its rows along where the database has foreign keys.                     *)
LEMMA DeleteStep ==
  ASSUME Inv, NEW i \in Ids, Delete(i)
  PROVE  Inv'
<1>1. /\ requests' = [requests EXCEPT ![i] = NoText] /\ cache' = WithoutRequest(i)
      /\ UNCHANGED <<sqlite, filed, given, opened, wrote, task>>
  BY DEF Delete
<1>2. \A k \in Keys : cache'[k] = cache[k] \/ (~sqlite /\ k[1] = i /\ cache'[k] = NoRow)
  BY <1>1 DEF WithoutRequest, ForeignKeys
<1>3. cache' \in [Keys -> Rows \cup {NoRow}]
  BY <1>1 DEF WithoutRequest, Inv, TypeInv
<1>4. TypeInv'
  BY <1>1, <1>3 DEF Inv, TypeInv
<1>5. KeyInv' /\ TaskInv'
  BY <1>1, <1>2 DEF Inv, KeyInv, TaskInv
<1>6. OwnInv'
  <2> SUFFICES ASSUME ~sqlite PROVE OwnInv'
    BY <1>1 DEF OwnInv
  <2>1. \A j \in Ids \ {i} : requests'[j] = requests[j]
    BY <1>1 DEF Inv, TypeInv
  <2>2. requests'[i] = NoText
    BY <1>1 DEF Inv, TypeInv
  <2>3. \A k \in Keys : cache'[k] # NoRow => k[1] \in Ids \ {i} /\ cache'[k] = cache[k]
    BY <1>1 DEF WithoutRequest, ForeignKeys, Keys
  <2>4. StoredBelongs'
    BY <2>1, <2>3 DEF Inv, OwnInv, StoredBelongs
  <2>5. \A s \in Handlers, k \in Keys : wrote[s][k] # NoRow => k[1] \in Ids \ {i}
    BY DEF Delete, ForeignKeys, Keys
  <2>6. \A s \in Handlers : OwnTask(task[s], wrote[s])'
    BY <1>1, <2>1, <2>2, <2>5 DEF Inv, OwnInv, OwnTask
  <2>7. \A j \in Ids : requests'[j] # NoText => j \in given'
    BY <1>1, <2>1, <2>2 DEF Inv, OwnInv
  <2>8. QED BY <2>4, <2>6, <2>7 DEF OwnInv
<1>7. QED BY <1>4, <1>5, <1>6 DEF Inv
-----------------------------------------------------------------------------
(* A screen opens, for requests it has just read.                          *)
LEMMA OpenStep ==
  ASSUME Inv, NEW s \in Handlers, Open(s)
  PROVE  Inv'
<1>1. PICK l \in Languages, ids \in SUBSET {i \in Ids : requests[i] # NoText} :
        task' = [task EXCEPT ![s] =
          [Idle EXCEPT !.phase = "look", !.langs = {l}, !.lang = l,
                       !.texts = [i \in Ids |-> IF i \in ids THEN requests[i]
                                                ELSE NoText]]]
  BY DEF Open
<1> DEFINE texts == [i \in Ids |-> IF i \in ids THEN requests[i] ELSE NoText]
           q == [Idle EXCEPT !.phase = "look", !.langs = {l}, !.lang = l,
                             !.texts = texts]
<1>2. texts \in [Ids -> Texts \cup {NoText}]
  BY DEF Inv, TypeInv
<1>3. q \in Tasks
  BY <1>2, IdleFacts DEF Tasks, Phases
<1>4. wrote[s] = NoRows
  BY DEF Inv, TaskInv, GoodTask, Open
<1>5. GoodTask(s, q, NoRows)
  <2>1. q.phase = "look" /\ q.made = {} /\ q.missing = {} /\ q.todo = {}
    BY DEF Idle
  <2> HIDE DEF q
  <2>2. QED BY <2>1, RowFacts DEF GoodTask
<1>6. \A i \in Ids : q.shown[i] = NoRow /\ q.texts[i] = texts[i]
  BY DEF Idle
<1>7. ~sqlite => \A i \in Ids : texts[i] # NoText =>
                   i \in given /\ requests[i] = texts[i]
  BY DEF Inv, OwnInv
<1>8. ~sqlite => OwnTask(q, NoRows)
  <2> HIDE DEF q, texts
  <2>1. QED BY <1>6, <1>7, RowFacts DEF OwnTask
<1>9. /\ task' = [task EXCEPT ![s] = q] /\ wrote' = [wrote EXCEPT ![s] = NoRows]
      /\ opened' \in 0..MaxCalls
      /\ UNCHANGED <<sqlite, requests, filed, given, cache>>
  <2>1. task' = [task EXCEPT ![s] = q]
    BY <1>1
  <2>2. UNCHANGED <<sqlite, requests, filed, given, cache, wrote>>
        /\ opened < MaxCalls /\ opened' = opened + 1
    BY DEF Open
  <2>3. opened' \in 0..MaxCalls
    BY <2>2, TranslationsAssumption DEF Inv, TypeInv
  <2>4. wrote' = [wrote EXCEPT ![s] = NoRows]
    BY <1>4, <2>2 DEF Inv, TypeInv
  <2>5. QED BY <2>1, <2>2, <2>3, <2>4
<1> HIDE DEF q
<1>10. QED BY <1>3, <1>4, <1>5, <1>8, <1>9, RowFacts, TaskStep

(* A request that is visible in the cache exists, where ids are not used   *)
(* again, and its row is about the text it has.                            *)
LEMMA VisibleFacts ==
  ASSUME Inv, NEW s \in Handlers, NEW i \in Ids, NEW l \in Languages
  PROVE  /\ Visible(s, i, l) \in Rows \cup {NoRow}
         /\ ~sqlite /\ Visible(s, i, l) # NoRow =>
              /\ Visible(s, i, l).of = requests[i] /\ Visible(s, i, l).as = l
              /\ requests[i] # NoText
<1> DEFINE k == <<i, l>>
<1>1. k \in Keys /\ k[1] = i /\ k[2] = l
  BY DEF Keys
<1>2. wrote[s][k] \in Rows \cup {NoRow} /\ cache[k] \in Rows \cup {NoRow}
  BY <1>1 DEF Inv, TypeInv
<1>3. ~sqlite => /\ wrote[s][k] # NoRow => wrote[s][k].of = requests[i] /\ wrote[s][k].as = l
                 /\ cache[k] # NoRow => cache[k].of = requests[i] /\ cache[k].as = l
  <2> HIDE DEF k
  <2>1. QED BY <1>1 DEF Inv, OwnInv, OwnTask, StoredBelongs
<1>4. QED BY <1>2, <1>3, RowFacts DEF Visible

(* The cached rows are read.                                               *)
LEMMA LookupStep ==
  ASSUME Inv, NEW s \in Handlers, Lookup(s)
  PROVE  Inv'
<1> DEFINE found == [i \in Ids |-> IF i \in Batch(s)
                                   THEN Visible(s, i, task[s].lang) ELSE NoRow]
           missing == {i \in Batch(s) : found[i] = NoRow}
           q == [task[s] EXCEPT !.shown = found, !.missing = missing,
                                !.made = {}, !.todo = {},
                                !.phase = IF missing # {} THEN "llm"
                                          ELSE IF s \in Screens THEN "shown" ELSE "caller"]
<1>1. /\ task[s] \in Tasks /\ task[s].phase = "look" /\ task[s].lang \in Languages
      /\ GoodTask(s, task[s], wrote[s]) /\ (~sqlite => OwnTask(task[s], wrote[s]))
  BY DEF Lookup, Inv, TypeInv, TaskInv, OwnInv, Tasks
<1>2. found \in [Ids -> Rows \cup {NoRow}]
  BY <1>1, VisibleFacts
<1>3. Batch(s) = {i \in Ids : task[s].texts[i] # NoText}
  BY DEF Batch
<1>4. missing \subseteq Ids /\ \A i \in Ids : i \in missing <=>
                                 task[s].texts[i] # NoText /\ found[i] = NoRow
  BY <1>3
<1>5. ~sqlite => \A i \in Ids : found[i] # NoRow =>
                   found[i].of = task[s].texts[i] /\ found[i].as = task[s].lang
  <2> SUFFICES ASSUME ~sqlite, NEW i \in Ids, found[i] # NoRow
               PROVE  found[i].of = task[s].texts[i] /\ found[i].as = task[s].lang
    OBVIOUS
  <2>1. task[s].texts[i] # NoText /\ found[i] = Visible(s, i, task[s].lang)
    BY <1>3
  <2>2. requests[i] \in {task[s].texts[i], NoText}
    BY <1>1, <2>1 DEF OwnTask
  <2>3. QED BY <1>1, <2>1, <2>2, VisibleFacts
<1>6. task' = [task EXCEPT ![s] = q]
  BY DEF Lookup
<1> HIDE DEF found, missing
<1>7. /\ q.phase = IF missing # {} THEN "llm" ELSE IF s \in Screens THEN "shown" ELSE "caller"
      /\ q.shown = found /\ q.missing = missing /\ q.made = {} /\ q.todo = {}
      /\ q.texts = task[s].texts /\ q.lang = task[s].lang
  BY <1>1 DEF Tasks
<1>8. q \in Tasks
  BY <1>1, <1>2, <1>4 DEF Tasks, Phases
<1> HIDE DEF q
<1>9. GoodTask(s, q, wrote[s])
  BY <1>1, <1>4, <1>7 DEF GoodTask, Handlers
<1>10. ~sqlite => OwnTask(q, wrote[s])
  BY <1>1, <1>5, <1>7 DEF OwnTask
<1>11. wrote[s] \in [Keys -> Rows \cup {NoRow}] /\ wrote' = [wrote EXCEPT ![s] = wrote[s]]
       /\ opened' \in 0..MaxCalls /\ UNCHANGED <<sqlite, requests, filed, given, cache>>
  BY DEF Lookup, Inv, TypeInv
<1>12. QED BY <1>6, <1>8, <1>9, <1>10, <1>11, TaskStep
-----------------------------------------------------------------------------
(* What a handler that is not idle knows about itself.                     *)
LEMMA OwnFacts ==
  ASSUME Inv, NEW s \in Handlers
  PROVE  /\ task[s] \in Tasks /\ task[s].lang \in Languages
         /\ GoodTask(s, task[s], wrote[s]) /\ (~sqlite => OwnTask(task[s], wrote[s]))
         /\ wrote[s] \in [Keys -> Rows \cup {NoRow}]
         /\ wrote = [wrote EXCEPT ![s] = wrote[s]] /\ opened \in 0..MaxCalls
BY DEF Inv, TypeInv, TaskInv, OwnInv, Tasks

(* The LLM answers for the texts that were read.                           *)
LEMMA TranslateStep ==
  ASSUME Inv, NEW s \in Handlers, Translate(s)
  PROVE  Inv'
<1>1. task[s].phase = "llm" /\ UNCHANGED <<sqlite, requests, filed, given, opened, cache, wrote>>
  BY DEF Translate
<1>2. PICK made \in SUBSET task[s].missing :
        task' = [task EXCEPT
         ![s].made = made, ![s].todo = made,
         ![s].shown = [i \in Ids |->
           IF i \in made
           THEN [of |-> task[s].texts[i], as |-> task[s].lang, by |-> s]
           ELSE task[s].shown[i]],
         ![s].phase = IF made = {} THEN "commit" ELSE "insert"]
  BY DEF Translate
<1> DEFINE shown == [i \in Ids |->
             IF i \in made
             THEN [of |-> task[s].texts[i], as |-> task[s].lang, by |-> s]
             ELSE task[s].shown[i]]
           q == [task[s] EXCEPT !.made = made, !.todo = made, !.shown = shown,
                                !.phase = IF made = {} THEN "commit" ELSE "insert"]
<1>3. task' = [task EXCEPT ![s] = q]
  BY <1>2
<1>4. task[s].missing \subseteq Ids /\ task[s].texts \in [Ids -> Texts \cup {NoText}]
      /\ task[s].shown \in [Ids -> Rows \cup {NoRow}]
  BY OwnFacts DEF Tasks
<1>5. \A i \in made : i \in Ids /\ task[s].texts[i] \in Texts
  BY <1>4, OwnFacts DEF GoodTask
<1>6. \A i \in made : shown[i] \in Rows /\ shown[i].of = task[s].texts[i]
                       /\ shown[i].as = task[s].lang
  BY <1>5, OwnFacts DEF Rows
<1>7. \A i \in Ids \ made : shown[i] = task[s].shown[i]
  OBVIOUS
<1>8. shown \in [Ids -> Rows \cup {NoRow}]
  BY <1>4, <1>6, <1>7
<1> HIDE DEF shown
<1>9. /\ q.phase = IF made = {} THEN "commit" ELSE "insert"
      /\ q.shown = shown /\ q.missing = task[s].missing /\ q.made = made
      /\ q.todo = made /\ q.texts = task[s].texts /\ q.lang = task[s].lang
  BY OwnFacts DEF Tasks
<1>10. q \in Tasks
  BY <1>4, <1>8, OwnFacts DEF Tasks, Phases
<1> HIDE DEF q
<1>11. \A i \in made : shown[i] # NoRow
  BY <1>6, RowFacts
<1>12. GoodTask(s, q, wrote[s])
  <2>1. s \in Screens => wrote[s] = NoRows
    BY <1>1, OwnFacts DEF GoodTask
  <2>2. \A i \in Ids : q.texts[i] # NoText /\ (i \notin q.missing \/ i \in q.made)
                       => q.shown[i] # NoRow
    BY <1>1, <1>7, <1>9, <1>11, OwnFacts DEF GoodTask
  <2>3. \A i \in q.missing : q.texts[i] # NoText
    BY <1>9, OwnFacts DEF GoodTask
  <2>4. q.phase \in {"commit", "insert"} /\ q.made \subseteq q.missing /\ q.todo = q.made
    BY <1>9
  <2>5. QED BY <2>1, <2>2, <2>3, <2>4, RowFacts DEF GoodTask
<1>13. ~sqlite => OwnTask(q, wrote[s])
  BY <1>6, <1>7, <1>9, OwnFacts DEF OwnTask
<1>14. QED BY <1>1, <1>3, <1>10, <1>12, <1>13, OwnFacts, TaskStep

(* One row is inserted: nobody has stored or written it.                   *)
LEMMA InsertStep ==
  ASSUME Inv, NEW s \in Handlers, NEW i \in Ids, Insert(s, i)
  PROVE  Inv'
<1> DEFINE k == <<i, task[s].lang>>
           q == [task[s] EXCEPT !.todo = @ \ {i},
                                !.phase = IF task[s].todo = {i} THEN "commit" ELSE "insert"]
           w == [wrote[s] EXCEPT ![k] = task[s].shown[i]]
<1>1. /\ task[s].phase = "insert" /\ i \in task[s].todo
      /\ ~Waits(s, k) /\ ~Refused(k)
      /\ UNCHANGED <<sqlite, requests, filed, given, opened, cache>>
  BY DEF Insert, IsNext
<1>2. task' = [task EXCEPT ![s] = q] /\ wrote' = [wrote EXCEPT ![s] = w]
  BY DEF Insert
<1>3. k \in Keys /\ k[1] = i /\ k[2] = task[s].lang
  BY OwnFacts DEF Keys
<1>4. cache[k] = NoRow /\ \A t \in Handlers \ {s} : wrote[t][k] = NoRow
  BY <1>1, <1>3, RowFacts DEF Waits, Refused, Writing
<1>5. ~sqlite => requests[i] # NoText
  BY <1>1, <1>3 DEF Refused, ForeignKeys
<1>6. i \in task[s].made /\ task[s].texts[i] # NoText
  BY <1>1, OwnFacts DEF GoodTask
<1>7. task[s].shown[i] \in Rows \cup {NoRow}
  BY OwnFacts DEF Tasks
<1>8. ~sqlite /\ task[s].shown[i] # NoRow =>
        task[s].shown[i].of = requests[i] /\ task[s].shown[i].as = task[s].lang
  BY <1>5, <1>6, OwnFacts DEF OwnTask
<1> HIDE DEF k
<1>9. /\ w \in [Keys -> Rows \cup {NoRow}] /\ w[k] = task[s].shown[i]
      /\ \A j \in Keys \ {k} : w[j] = wrote[s][j]
  BY <1>3, <1>7, OwnFacts
<1> HIDE DEF w
<1>10. /\ q.phase = IF task[s].todo = {i} THEN "commit" ELSE "insert"
       /\ q.shown = task[s].shown /\ q.missing = task[s].missing /\ q.made = task[s].made
       /\ q.todo = task[s].todo \ {i} /\ q.texts = task[s].texts /\ q.lang = task[s].lang
       /\ q \in Tasks
  BY OwnFacts DEF Tasks, Phases
<1> HIDE DEF q
<1>11. GoodTask(s, q, w)
  <2>1. GoodTask(s, task[s], wrote[s])
    BY OwnFacts
  <2>2. s \in Screens => \A j \in Keys : w[j] # NoRow => j[1] \in q.made \ q.todo
    BY <1>1, <1>3, <1>6, <1>9, <1>10, <2>1 DEF GoodTask
  <2>3. q.phase \in {"commit", "insert"} /\ q.todo \subseteq q.made
    BY <1>1, <1>10, <2>1 DEF GoodTask
  <2>4. QED BY <1>1, <1>10, <2>1, <2>2, <2>3 DEF GoodTask
<1>12. ~sqlite => OwnTask(q, w)
  BY <1>3, <1>8, <1>9, <1>10, OwnFacts DEF OwnTask
<1>13. \A j \in Keys : w[j] # NoRow =>
         \/ wrote[s][j] # NoRow
         \/ cache[j] = NoRow /\ \A t \in Handlers \ {s} : wrote[t][j] = NoRow
  BY <1>4, <1>9
<1>14. QED BY <1>1, <1>2, <1>9, <1>10, <1>11, <1>12, <1>13, OwnFacts, TaskStep
-----------------------------------------------------------------------------
(* A handler goes on with fewer rows than it had written, or with the same.*)
LEMMA FewerRows ==
  ASSUME Inv, NEW s \in Handlers, NEW q \in Tasks,
         NEW w \in [Keys -> Rows \cup {NoRow}],
         \A k \in Keys : w[k] \in {wrote[s][k], NoRow},
         GoodTask(s, q, w), ~sqlite => OwnTask(q, w),
         task' = [task EXCEPT ![s] = q], wrote' = [wrote EXCEPT ![s] = w],
         UNCHANGED <<sqlite, requests, filed, given, opened, cache>>
  PROVE  Inv'
<1>1. \A k \in Keys : w[k] # NoRow =>
        \/ wrote[s][k] # NoRow
        \/ cache[k] = NoRow /\ \A t \in Handlers \ {s} : wrote[t][k] = NoRow
  OBVIOUS
<1>2. opened' \in 0..MaxCalls
  BY OwnFacts
<1>3. QED BY <1>1, <1>2, TaskStep

(* The savepoint takes back rows of this call and nothing else.            *)
LEMMA SavepointFacts ==
  ASSUME Inv, NEW s \in Handlers
  PROVE  /\ BeforeSavepoint(s) \in [Keys -> Rows \cup {NoRow}]
         /\ \A k \in Keys : BeforeSavepoint(s)[k] \in {wrote[s][k], NoRow}
BY OwnFacts DEF BeforeSavepoint

(* A screen or a job goes on in another phase and keeps what it remembers. *)
LEMMA PhaseFacts ==
  ASSUME Inv, NEW s \in Handlers, NEW p \in Phases
  PROVE  LET q == [task[s] EXCEPT !.phase = p]
         IN  /\ q \in Tasks /\ q.phase = p /\ q.todo = task[s].todo
             /\ q.made = task[s].made /\ q.missing = task[s].missing
             /\ q.shown = task[s].shown /\ q.texts = task[s].texts
             /\ q.lang = task[s].lang
BY OwnFacts DEF Tasks

(* The insert is refused, or the database is busy.                         *)
LEMMA RefusedStep ==
  ASSUME Inv, NEW s \in Handlers,
         Busy(s) \/ \E i \in Ids : Conflict(s, i)
  PROVE  Inv'
<1>1. PICK p \in {"reread", "commit"} :
        /\ task' = [task EXCEPT ![s].phase = p]
        /\ wrote' = [wrote EXCEPT ![s] = BeforeSavepoint(s)]
        /\ task[s].phase = "insert"
        /\ UNCHANGED <<sqlite, requests, filed, given, opened, cache>>
  BY DEF Busy, Conflict
<1> DEFINE q == [task[s] EXCEPT !.phase = p]
           w == BeforeSavepoint(s)
<1>2. task' = [task EXCEPT ![s] = q] /\ p \in Phases
  BY <1>1 DEF Phases
<1>3. /\ q \in Tasks /\ q.phase = p /\ q.todo = task[s].todo
      /\ q.made = task[s].made /\ q.missing = task[s].missing
      /\ q.shown = task[s].shown /\ q.texts = task[s].texts
      /\ q.lang = task[s].lang
  BY <1>2, PhaseFacts
<1>4. w \in [Keys -> Rows \cup {NoRow}] /\ \A k \in Keys : w[k] \in {wrote[s][k], NoRow}
  BY SavepointFacts
<1> HIDE DEF q, w
<1>5. GoodTask(s, q, w)
  BY <1>1, <1>3, OwnFacts DEF GoodTask
<1>6. ~sqlite => OwnTask(q, w)
  BY <1>3, <1>4, OwnFacts DEF OwnTask
<1>7. wrote' = [wrote EXCEPT ![s] = w]
  BY <1>1 DEF w
<1>8. QED BY <1>1, <1>2, <1>3, <1>4, <1>5, <1>6, <1>7, FewerRows

(* The rows of the winner replace the own words, and take none away.       *)
LEMMA AdoptStep ==
  ASSUME Inv, NEW s \in Handlers, AdoptWinner(s)
  PROVE  Inv'
<1> DEFINE shown == [i \in Ids |-> Reread(s, i)]
           q == [task[s] EXCEPT !.shown = shown, !.phase = "commit"]
<1>1. /\ task[s].phase = "reread" /\ task' = [task EXCEPT ![s] = q]
      /\ UNCHANGED <<sqlite, requests, filed, given, opened, cache, wrote>>
  BY DEF AdoptWinner
<1>2. \A i \in Ids : /\ shown[i] \in Rows \cup {NoRow}
                     /\ task[s].shown[i] # NoRow => shown[i] # NoRow
  BY VisibleFacts, OwnFacts DEF Reread, Tasks
<1>3. ASSUME ~sqlite, NEW i \in Ids, shown[i] # NoRow
      PROVE  shown[i].of = task[s].texts[i] /\ shown[i].as = task[s].lang
  <2>1. CASE shown[i] = task[s].shown[i]
    BY <1>3, <2>1, OwnFacts DEF OwnTask
  <2>2. CASE i \in task[s].missing /\ shown[i] = Visible(s, i, task[s].lang)
    <3>1. requests[i] # NoText /\ shown[i].of = requests[i] /\ shown[i].as = task[s].lang
      BY <1>3, <2>2, OwnFacts, VisibleFacts
    <3>2. requests[i] = task[s].texts[i]
      BY <1>3, <2>2, <3>1, OwnFacts DEF GoodTask, OwnTask
    <3>3. QED BY <3>1, <3>2
  <2>3. QED BY <2>1, <2>2 DEF Reread
<1>4. shown \in [Ids -> Rows \cup {NoRow}]
  BY <1>2
<1> HIDE DEF shown
<1>5. /\ q.phase = "commit" /\ q.todo = task[s].todo
      /\ q.made = task[s].made /\ q.missing = task[s].missing
      /\ q.shown = shown /\ q.texts = task[s].texts /\ q.lang = task[s].lang
      /\ q \in Tasks
  BY <1>4, OwnFacts DEF Tasks, Phases
<1> HIDE DEF q
<1>6. GoodTask(s, q, wrote[s])
  BY <1>1, <1>2, <1>5, OwnFacts DEF GoodTask
<1>7. ~sqlite => OwnTask(q, wrote[s])
  BY <1>3, <1>5, OwnFacts DEF OwnTask
<1>8. wrote' = [wrote EXCEPT ![s] = wrote[s]]
  BY <1>1, OwnFacts
<1>9. QED BY <1>1, <1>5, <1>6, <1>7, <1>8, OwnFacts, FewerRows

(* A job returns to its caller, who calls again in another language.       *)
LEMMA CallerStep ==
  ASSUME Inv, NEW s \in Handlers, Return(s) \/ CallAgain(s)
  PROVE  Inv'
<1>1. /\ wrote' = [wrote EXCEPT ![s] = wrote[s]]
      /\ UNCHANGED <<sqlite, requests, filed, given, opened, cache>>
  BY OwnFacts DEF Return, CallAgain
<1>2. CASE Return(s)
  <2> DEFINE q == [task[s] EXCEPT !.phase = "caller"]
  <2>1. task' = [task EXCEPT ![s] = q] /\ task[s].phase = "commit" /\ s \in Jobs
        /\ "caller" \in Phases
    BY <1>2 DEF Return, Phases
  <2>2. /\ q \in Tasks /\ q.phase = "caller" /\ q.todo = task[s].todo
        /\ q.made = task[s].made /\ q.missing = task[s].missing
        /\ q.shown = task[s].shown /\ q.texts = task[s].texts
        /\ q.lang = task[s].lang
    BY <2>1, PhaseFacts
  <2> HIDE DEF q
  <2>3. GoodTask(s, q, wrote[s])
    BY <2>1, <2>2, OwnFacts DEF GoodTask
  <2>4. ~sqlite => OwnTask(q, wrote[s])
    BY <2>2, OwnFacts DEF OwnTask
  <2>5. QED BY <1>1, <2>1, <2>2, <2>3, <2>4, OwnFacts, FewerRows
<1>3. CASE CallAgain(s)
  <2>1. PICK l \in Languages :
       task' = [task EXCEPT ![s].phase = "look", ![s].lang = l,
                            ![s].langs = @ \cup {l},
                            ![s].shown = [i \in Ids |-> NoRow],
                            ![s].missing = {}, ![s].made = {}, ![s].todo = {}]
    BY <1>3 DEF CallAgain
  <2> DEFINE q == [task[s] EXCEPT !.phase = "look", !.lang = l, !.langs = @ \cup {l},
                                  !.shown = [i \in Ids |-> NoRow],
                                  !.missing = {}, !.made = {}, !.todo = {}]
  <2>2. task' = [task EXCEPT ![s] = q] /\ s \in Jobs /\ s \notin Screens
    <3>1. task[s].phase = "caller" /\ GoodTask(s, task[s], wrote[s])
      BY <1>3, OwnFacts DEF CallAgain
    <3>2. s \in Jobs /\ s \notin Screens
      BY <3>1, TranslationsAssumption DEF GoodTask
    <3>3. task' = [task EXCEPT ![s] = q]
      BY <2>1
    <3>4. QED BY <3>2, <3>3
  <2>3. /\ q.phase = "look" /\ q.todo = {} /\ q.made = {} /\ q.missing = {}
        /\ q.shown = [i \in Ids |-> NoRow] /\ q.texts = task[s].texts /\ q.lang = l
        /\ q \in Tasks
    BY OwnFacts DEF Tasks, Phases
  <2> HIDE DEF q
  <2>4. GoodTask(s, q, wrote[s])
    BY <2>2, <2>3, OwnFacts DEF GoodTask
  <2>5. ~sqlite => OwnTask(q, wrote[s])
    BY <2>3, OwnFacts DEF OwnTask
  <2>6. QED BY <1>1, <2>2, <2>3, <2>4, <2>5, OwnFacts, FewerRows
<1>4. QED BY <1>2, <1>3
-----------------------------------------------------------------------------
(* A handler that waits for somebody who waits for it has written before,  *)
(* so its batch has a row that is inserted and one that is not.            *)
LEMMA DeadlockFacts ==
  ASSUME Inv, NEW s \in Screens, NEW waiting \in SUBSET Handlers, s \in waiting,
         Deadlocked(waiting)
  PROVE  /\ task[s].phase = "insert"
         /\ \A i \in Ids : {j \in Ids : task[s].texts[j] # NoText} # {i}
<1>1. s \in Handlers
  BY DEF Handlers
<1>2. PICK i \in task[s].todo : task[s].phase = "insert"
  BY DEF Deadlocked, WaitsAtNext
<1>3. PICK t \in waiting \ {s} :
        \E j \in task[t].todo : wrote[s][<<j, task[t].lang>>] # NoRow
  BY DEF Deadlocked
<1>4. PICK j \in task[t].todo : wrote[s][<<j, task[t].lang>>] # NoRow
  BY <1>3
<1>5. t \in Handlers /\ j \in Ids /\ task[t].lang \in Languages
  BY <1>3, <1>4, OwnFacts DEF Tasks
<1> DEFINE k == <<j, task[t].lang>>
<1>6. k \in Keys /\ k[1] = j
  BY <1>5 DEF Keys
<1>7. GoodTask(s, task[s], wrote[s]) /\ task[s] \in Tasks
  BY <1>1, OwnFacts
<1>8. wrote[s][k] # NoRow
  BY <1>4
<1> HIDE DEF k
<1>9. j \in task[s].made \ task[s].todo /\ i \in task[s].made
  BY <1>2, <1>6, <1>7, <1>8 DEF GoodTask
<1>10. i # j /\ i \in Ids /\ task[s].texts[i] # NoText /\ task[s].texts[j] # NoText
  BY <1>2, <1>5, <1>7, <1>9 DEF GoodTask, Tasks
<1>11. QED BY <1>2, <1>5, <1>10

(* A transaction that the database ends.                                   *)
LEMMA VictimStep ==
  ASSUME Inv, NEW s \in Handlers, DeadlockVictim(s)
  PROVE  Inv'
<1> DEFINE q == [task[s] EXCEPT !.phase = "failed"]
<1>1. PICK waiting \in SUBSET Handlers : s \in waiting /\ Deadlocked(waiting)
  BY DEF DeadlockVictim
<1>2. /\ task' = [task EXCEPT ![s] = q] /\ wrote' = [wrote EXCEPT ![s] = NoRows]
      /\ UNCHANGED <<sqlite, requests, filed, given, opened, cache>>
      /\ "failed" \in Phases
  BY DEF DeadlockVictim, Phases
<1>3. /\ q \in Tasks /\ q.phase = "failed" /\ q.todo = task[s].todo
      /\ q.made = task[s].made /\ q.missing = task[s].missing
      /\ q.shown = task[s].shown /\ q.texts = task[s].texts
      /\ q.lang = task[s].lang
  BY <1>2, PhaseFacts
<1>4. s \in Screens => \A i \in Ids : {j \in Ids : q.texts[j] # NoText} # {i}
  BY <1>1, <1>3, DeadlockFacts
<1> HIDE DEF q
<1>5. GoodTask(s, q, NoRows)
  BY <1>3, <1>4, OwnFacts DEF GoodTask
<1>6. ~sqlite => OwnTask(q, NoRows)
  BY <1>3, RowFacts, OwnFacts DEF OwnTask
<1>7. \A k \in Keys : NoRows[k] \in {wrote[s][k], NoRow}
  BY RowFacts
<1>8. QED BY <1>2, <1>3, <1>5, <1>6, <1>7, RowFacts, FewerRows

(* COMMIT or ROLLBACK, by the call or by its caller.                       *)
LEMMA CommitStep ==
  ASSUME Inv, NEW s \in Handlers, Commit(s) \/ CallerEnds(s)
  PROVE  Inv'
<1> DEFINE q == [task[s] EXCEPT !.phase = "shown"]
<1>1. /\ task[s].phase \in {"commit", "caller"} /\ cache' \in {Stored(s), cache}
      /\ task' = [task EXCEPT ![s] = q] /\ wrote' = [wrote EXCEPT ![s] = NoRows]
      /\ UNCHANGED <<sqlite, requests, filed, given, opened>>
      /\ "shown" \in Phases
  BY DEF Commit, CallerEnds, Phases
<1>2. /\ q \in Tasks /\ q.phase = "shown" /\ q.todo = task[s].todo
      /\ q.made = task[s].made /\ q.missing = task[s].missing
      /\ q.shown = task[s].shown /\ q.texts = task[s].texts
      /\ q.lang = task[s].lang
  BY <1>1, PhaseFacts
<1> HIDE DEF q
<1>3. GoodTask(s, q, NoRows)
  BY <1>1, <1>2, OwnFacts DEF GoodTask
<1>4. ~sqlite => OwnTask(q, NoRows)
  BY <1>2, RowFacts, OwnFacts DEF OwnTask
<1>5. QED BY <1>1, <1>2, <1>3, <1>4, EndStep

(* The screen is left.                                                     *)
LEMMA CloseStep ==
  ASSUME Inv, NEW s \in Handlers, Close(s)
  PROVE  Inv'
<1>1. /\ task[s].phase \in {"shown", "failed"} /\ task' = [task EXCEPT ![s] = Idle]
      /\ UNCHANGED <<sqlite, requests, filed, given, opened, cache, wrote>>
  BY DEF Close
<1>2. wrote[s] = NoRows /\ wrote' = [wrote EXCEPT ![s] = NoRows]
  BY <1>1, OwnFacts DEF GoodTask
<1>3. \A k \in Keys : NoRows[k] \in {wrote[s][k], NoRow}
  BY RowFacts
<1>4. GoodTask(s, Idle, NoRows) /\ OwnTask(Idle, NoRows) /\ Idle \in Tasks
  BY IdleFacts
<1>5. QED BY <1>1, <1>2, <1>3, <1>4, RowFacts, FewerRows

(* The invariant is inductive.                                             *)
LEMMA InvStep == Inv /\ [Next]_vars => Inv'
<1> SUFFICES ASSUME Inv, [Next]_vars PROVE Inv'
  OBVIOUS
<1>1. CASE \E i \in Ids : Create(i) \/ Delete(i)
  BY <1>1, CreateStep, DeleteStep
<1>2. CASE \E s \in Handlers : Open(s) \/ CallAgain(s) \/ Close(s)
  BY <1>2, OpenStep, CallerStep, CloseStep
<1>3. ASSUME NEW s \in Handlers, Proceed(s)
      PROVE  Inv'
  BY <1>3, LookupStep, TranslateStep, AdoptStep, RefusedStep, VictimStep,
     CommitStep, CallerStep, InsertStep DEF Proceed
<1>4. CASE UNCHANGED vars
  <2> USE <1>4 DEF vars
  <2>1. TypeInv' /\ KeyInv' /\ TaskInv'
    BY DEF Inv, TypeInv, KeyInv, TaskInv
  <2>2. OwnInv'
    BY DEF Inv, OwnInv, StoredBelongs, OwnTask
  <2>3. QED BY <2>1, <2>2 DEF Inv
<1>5. QED BY <1>1, <1>2, <1>3, <1>4 DEF Next

-----------------------------------------------------------------------------
(* No two transactions have inserted the same key, and no handler ends     *)
(* with a transaction open.                                                *)
THEOREM TypeCorrect == Spec => []TypeOK
<1>1. Inv => TypeOK
  BY DEF Inv, TypeInv, KeyInv, TaskInv, GoodTask, TypeOK, Writing
<1>2. QED BY InvInit, InvStep, <1>1, PTL DEF Spec

(* Where no id is used again, everybody is shown, and the table keeps, the *)
(* text of the right request in the right language.                        *)
THEOREM TextCorrect == Spec => []OwnText
<1>1. Inv => OwnText
  BY DEF Inv, OwnInv, OwnTask, OwnText, ShowsOwnText, ReuseIds
<1>2. QED BY InvInit, InvStep, <1>1, PTL DEF Spec

(* What was found or translated stays on the screen whatever happens to    *)
(* its row.                                                                *)
THEOREM NothingLostCorrect == Spec => []NothingLost
<1>1. Inv => NothingLost
  BY DEF Inv, TaskInv, GoodTask, NothingLost, Batch
<1>2. QED BY InvInit, InvStep, <1>1, PTL DEF Spec

(* A single card is never the victim of a deadlock.                        *)
THEOREM OneCorrect == Spec => []OneNeverFails
<1>1. Inv => OneNeverFails
  BY DEF Inv, TaskInv, GoodTask, OneNeverFails, Batch, Handlers
<1>2. QED BY InvInit, InvStep, <1>1, PTL DEF Spec

(* A stored translation keeps its words until its request is deleted: a    *)
(* COMMIT adds only rows that nobody has stored.                           *)
THEOREM StoredCorrect == Spec => StoredStays
<1> DEFINE Keeps == \A k \in Keys : /\ cache[k] # NoRow
                                    /\ requests'[k[1]] = requests[k[1]]
                                    => cache'[k] = cache[k]
<1>1. Inv /\ [Next]_vars => [Keeps]_vars
  <2> SUFFICES ASSUME Inv, Next, NEW k \in Keys, cache[k] # NoRow,
                      requests'[k[1]] = requests[k[1]]
               PROVE  cache'[k] = cache[k]
    OBVIOUS
  <2>1. CASE \E i \in Ids : Delete(i)
    <3>1. PICK i \in Ids : Delete(i)
      BY <2>1
    <3>2. requests[i] # NoText /\ requests'[i] = NoText
      BY <3>1 DEF Delete, Inv, TypeInv
    <3>3. k[1] # i
      BY <3>2
    <3>4. QED BY <3>1, <3>3 DEF Delete, WithoutRequest
  <2>2. CASE \E s \in Handlers : Commit(s) \/ CallerEnds(s)
    <3>1. PICK s \in Handlers : Commit(s) \/ CallerEnds(s)
      BY <2>2
    <3>2. wrote[s][k] = NoRow
      BY DEF Inv, KeyInv
    <3>3. CASE cache' = cache
      BY <3>3
    <3>4. CASE cache' = Stored(s)
      BY <3>2, <3>4 DEF Stored
    <3>5. QED BY <3>1, <3>3, <3>4 DEF Commit, CallerEnds
  <2>3. ASSUME ~(\E i \in Ids : Delete(i)),
               ~(\E s \in Handlers : Commit(s) \/ CallerEnds(s))
        PROVE  cache' = cache
    <3>1. CASE \E i \in Ids : Create(i) \/ Delete(i)
      BY <2>3, <3>1 DEF Create
    <3>2. CASE \E s \in Handlers : Open(s) \/ CallAgain(s) \/ Close(s)
      BY <3>2 DEF Open, CallAgain, Close
    <3>3. ASSUME NEW s \in Handlers, Proceed(s) PROVE cache' = cache
      BY <2>3, <3>3 DEF Proceed, Lookup, Translate, AdoptWinner, Busy,
         DeadlockVictim, Return, Insert, Conflict
    <3>4. QED BY <3>1, <3>2, <3>3 DEF Next
  <2>4. QED BY <2>1, <2>2, <2>3
<1>2. QED BY InvInit, InvStep, <1>1, PTL DEF Spec, StoredStays
=============================================================================
