---------------------------- MODULE Translations ----------------------------
(***************************************************************************)
(* The cache of translated descriptions, request_translations.py.          *)
(*                                                                         *)
(* A screen translates a batch of requests: it looks up what is stored,    *)
(* asks the LLM for the rest, inserts the answers inside a savepoint and   *)
(* commits.  A caller that keeps its own transaction (the scheduler)       *)
(* calls once per language and commits or rolls back at its own end.       *)
(* Screens of other chats and a delete run in between.                     *)
(***************************************************************************)
EXTENDS Naturals

CONSTANTS
  Ids,        \* ids of requests, an interval from 1
  Languages,  \* target languages
  Screens,    \* handlers that call with commit_immediately
  Jobs,       \* callers that keep their own transaction (the scheduler)
  Rank,       \* Rank[s][i]: place of id i in the batches of s (newest first,
              \* by priority)
  MaxTexts,   \* bound: descriptions ever filed
  MaxCalls,   \* bound: batches opened by screens and jobs
  Databases   \* the databases to run on: TRUE is SQLite, FALSE PostgreSQL

Texts  == 1..MaxTexts     \* a description, by the order it was filed
Handlers == Screens \cup Jobs
NoText == 0               \* there is no such request
Keys   == Ids \X Languages
Rows   == [of : Texts, as : Languages, by : Handlers]   \* by: whose LLM answer
NoRow  == [of |-> NoText]                              \* nothing stored

ASSUME TranslationsAssumption ==
  /\ Ids \subseteq Nat \ {0} /\ Languages # {} /\ Databases \subseteq BOOLEAN
  /\ MaxTexts \in Nat /\ MaxCalls \in Nat
  /\ Rank \in [Handlers -> [Ids -> Nat]] /\ Screens \cap Jobs = {}

Phases == {"idle", "look", "llm", "insert", "reread", "commit", "caller",
           "shown", "failed"}

Tasks == [phase     : Phases,
          langs     : SUBSET Languages,        \* translated to so far
          lang      : Languages,               \* target_language
          texts     : [Ids -> Texts \cup {NoText}],  \* originals, as read
          missing   : SUBSET Ids,              \* not in the cache
          made      : SUBSET Ids,              \* generated by the LLM
          todo      : SUBSET Ids,              \* still to be inserted
          shown     : [Ids -> Rows \cup {NoRow}]]

VARIABLES
  sqlite,    \* the database is SQLite
  requests,  \* table requests: the description of an id, or NoText
  filed,     \* number of descriptions filed so far
  given,     \* ids that have ever been given out
  opened,    \* batches opened so far
  cache,     \* table request_translations, as committed
  wrote,     \* wrote[s]: the rows a transaction has inserted, by key
  task       \* what a handler remembers

vars == <<sqlite, requests, filed, given, opened, cache, wrote, task>>

(* PostgreSQL checks the foreign key and cascades, locks unique keys and   *)
(* breaks deadlocks.  SQLite does none of it by default, has one writer    *)
(* and gives the highest deleted id out again.                             *)
ReuseIds     == sqlite
ForeignKeys  == ~sqlite
SingleWriter == sqlite

NoRows == [k \in Keys |-> NoRow]
Idle == [phase |-> "idle", langs |-> {},
         lang |-> CHOOSE l \in Languages : TRUE,
         texts |-> [i \in Ids |-> NoText], missing |-> {}, made |-> {},
         todo |-> {}, shown |-> [i \in Ids |-> NoRow]]

Init ==
  /\ sqlite \in Databases
  /\ requests = [i \in Ids |-> NoText]
  /\ filed = 0
  /\ given = {}
  /\ opened = 0
  /\ cache = NoRows
  /\ wrote = [s \in Handlers |-> NoRows]
  /\ task = [s \in Handlers |-> Idle]

-----------------------------------------------------------------------------
(* Helpers.                                                                *)

Writing(s)  == wrote[s] # NoRows
Batch(s)    == {i \in Ids : task[s].texts[i] # NoText}

(* A faulty SELECT that does not ask for the language.                     *)
VisibleAnyLanguage(s, i, l) ==
  IF \E m \in Languages : cache[<<i, m>>] # NoRow
  THEN cache[<<i, CHOOSE m \in Languages : cache[<<i, m>>] # NoRow>>]
  ELSE NoRow

(* What a SELECT of this transaction returns: its own rows and the         *)
(* committed ones.                                                         *)
Visible(s, i, l) ==
  IF wrote[s][<<i, l>>] # NoRow THEN wrote[s][<<i, l>>] ELSE cache[<<i, l>>]

(* The INSERT of key k has to wait for another transaction.                *)
Waits(s, k) ==
  \E t \in Handlers \ {s} :
    IF SingleWriter THEN Writing(t) ELSE wrote[t][k] # NoRow

(* The unique key or the foreign key refuses the row.                      *)
Overwrites(k) == ForeignKeys /\ requests[k[1]] = NoText   \* faulty: an upsert
Refused(k) ==
  \/ cache[k] # NoRow
  \/ ForeignKeys /\ requests[k[1]] = NoText

(* The next row of the INSERT: rows are inserted in the order of the batch.*)
IsNext(s, i) ==
  /\ i \in task[s].todo
  /\ \A j \in task[s].todo : Rank[s][i] <= Rank[s][j]

WaitsAtNext(s) ==
  /\ task[s].phase = "insert"
  /\ \E i \in task[s].todo : IsNext(s, i) /\ Waits(s, <<i, task[s].lang>>)

(* The transaction without the rows of this call: ROLLBACK TO SAVEPOINT.   *)
BeforeSavepoint(s) ==
  [k \in Keys |-> IF k[2] = task[s].lang /\ k[1] \in task[s].made
                  THEN NoRow ELSE wrote[s][k]]

Stored(s) == [k \in Keys |-> IF wrote[s][k] # NoRow THEN wrote[s][k] ELSE cache[k]]

-----------------------------------------------------------------------------
(* The rest of the system.                                                 *)

(* create_request: the id comes from a sequence, or is MAX(id) + 1.        *)
Fresh(i) ==
  IF ReuseIds
  THEN /\ \A j \in Ids : requests[j] # NoText => j < i
       /\ i = 1 \/ (i - 1 \in Ids /\ requests[i - 1] # NoText)
  ELSE i \notin given

Create(i) ==
  /\ filed < MaxTexts
  /\ Fresh(i)
  /\ SingleWriter => \A s \in Handlers : ~Writing(s)
  /\ filed' = filed + 1
  /\ given' = given \cup {i}
  /\ requests' = [requests EXCEPT ![i] = filed + 1]
  /\ UNCHANGED <<sqlite, opened, cache, wrote, task>>

(* delete_request: a bulk DELETE.  Only the foreign key removes the        *)
(* translations; a transaction that inserted one holds the request.        *)
WithoutRequest(i) ==
  IF ForeignKeys THEN [k \in Keys |-> IF k[1] = i THEN NoRow ELSE cache[k]]
  ELSE cache

Delete(i) ==
  /\ requests[i] # NoText
  /\ SingleWriter => \A s \in Handlers : ~Writing(s)
  /\ ForeignKeys => \A s \in Handlers, l \in Languages : wrote[s][<<i, l>>] = NoRow
  /\ requests' = [requests EXCEPT ![i] = NoText]
  /\ cache' = WithoutRequest(i)
  /\ UNCHANGED <<sqlite, filed, given, opened, wrote, task>>

-----------------------------------------------------------------------------
(* localize_request_descriptions.                                          *)

(* A screen has SELECTed its requests and calls.                           *)
Open(s) ==
  /\ task[s].phase = "idle"
  /\ opened < MaxCalls /\ opened' = opened + 1
  /\ \E l \in Languages,
        ids \in SUBSET {i \in Ids : requests[i] # NoText} \ {{}} :
       task' = [task EXCEPT ![s] =
         [Idle EXCEPT !.phase = "look", !.langs = {l},
                      !.lang = l,
                      !.texts = [i \in Ids |-> IF i \in ids THEN requests[i]
                                               ELSE NoText]]]
  /\ UNCHANGED <<sqlite, requests, filed, given, cache, wrote>>

(* The SELECT of the cached rows.  The commit before the LLM call has      *)
(* nothing to write.                                                       *)
Lookup(s) ==
  /\ task[s].phase = "look"
  /\ LET found == [i \in Ids |-> IF i \in Batch(s)
                                 THEN Visible(s, i, task[s].lang) ELSE NoRow]
         missing == {i \in Batch(s) : found[i] = NoRow}
     IN task' = [task EXCEPT
          ![s].shown = found, ![s].missing = missing,
          ![s].made = {}, ![s].todo = {},
          ![s].phase = IF missing # {} THEN "llm"
                       ELSE IF s \in Screens THEN "shown" ELSE "caller"]
  /\ UNCHANGED <<sqlite, requests, filed, given, opened, cache, wrote>>

(* The LLM answers for some of the missing ones, each answer for the text  *)
(* that was read; for none when it is disabled or down.                    *)
Translate(s) ==
  /\ task[s].phase = "llm"
  /\ \E made \in SUBSET task[s].missing :
       task' = [task EXCEPT
         ![s].made = made, ![s].todo = made,
         ![s].shown = [i \in Ids |->
           IF i \in made
           THEN [of |-> task[s].texts[i], as |-> task[s].lang, by |-> s]
           ELSE task[s].shown[i]],
         ![s].phase = IF made = {} THEN "commit" ELSE "insert"]
  /\ UNCHANGED <<sqlite, requests, filed, given, opened, cache, wrote>>

(* One row of the INSERT inside begin_nested.                              *)
Insert(s, i) ==
  LET k == <<i, task[s].lang>> IN
  /\ task[s].phase = "insert"
  /\ IsNext(s, i) /\ ~Waits(s, k) /\ ~Refused(k)
  /\ wrote' = [wrote EXCEPT ![s][k] = task[s].shown[i]]
  /\ task' = [task EXCEPT
       ![s].todo = @ \ {i},
       ![s].phase = IF task[s].todo = {i} THEN "commit" ELSE "insert"]
  /\ UNCHANGED <<sqlite, requests, filed, given, opened, cache>>

(* IntegrityError: the savepoint takes the whole batch back.               *)
ConflictAborts(s, i) ==    \* faulty: without the savepoint
  /\ task[s].phase = "insert"
  /\ IsNext(s, i) /\ ~Waits(s, <<i, task[s].lang>>) /\ Refused(<<i, task[s].lang>>)
  /\ wrote' = [wrote EXCEPT ![s] = NoRows]
  /\ task' = [task EXCEPT ![s].phase = "failed"]
  /\ UNCHANGED <<sqlite, requests, filed, given, opened, cache>>

ConflictRetries(s, i) ==   \* faulty: tries the same rows again
  /\ task[s].phase = "insert"
  /\ IsNext(s, i) /\ ~Waits(s, <<i, task[s].lang>>) /\ Refused(<<i, task[s].lang>>)
  /\ wrote' = [wrote EXCEPT ![s] = BeforeSavepoint(s)]
  /\ task' = [task EXCEPT ![s].todo = task[s].made]
  /\ UNCHANGED <<sqlite, requests, filed, given, opened, cache>>

Conflict(s, i) ==
  /\ task[s].phase = "insert"
  /\ IsNext(s, i) /\ ~Waits(s, <<i, task[s].lang>>) /\ Refused(<<i, task[s].lang>>)
  /\ wrote' = [wrote EXCEPT ![s] = BeforeSavepoint(s)]
  /\ task' = [task EXCEPT ![s].phase = "reread"]
  /\ UNCHANGED <<sqlite, requests, filed, given, opened, cache>>

(* The rows of the winner replace the own words.                           *)
RereadOnly(s, i) == Visible(s, i, task[s].lang)   \* faulty: forgets its own
Reread(s, i) ==
  IF i \in task[s].missing /\ Visible(s, i, task[s].lang) # NoRow
  THEN Visible(s, i, task[s].lang) ELSE task[s].shown[i]

AdoptWinner(s) ==
  /\ task[s].phase = "reread"
  /\ task' = [task EXCEPT ![s].shown = [i \in Ids |-> Reread(s, i)],
                          ![s].phase = "commit"]
  /\ UNCHANGED <<sqlite, requests, filed, given, opened, cache, wrote>>

(* OperationalError, SQLite only: another writer for too long.  The words  *)
(* are shown all the same.                                                 *)
Busy(s) ==
  /\ SingleWriter
  /\ task[s].phase = "insert"
  /\ wrote' = [wrote EXCEPT ![s] = BeforeSavepoint(s)]
  /\ task' = [task EXCEPT ![s].phase = "commit"]
  /\ UNCHANGED <<sqlite, requests, filed, given, opened, cache>>

(* Every member of waiting waits for another member and is waited for.     *)
Deadlocked(waiting) ==
  \A s \in waiting :
    LET WaitsFor(t, u) ==
          \E i \in task[t].todo : /\ IsNext(t, i)
                                  /\ wrote[u][<<i, task[t].lang>>] # NoRow
    IN /\ WaitsAtNext(s)
       /\ \E t \in waiting \ {s} : WaitsFor(s, t)
       /\ \E t \in waiting \ {s} : WaitsFor(t, s)

(* PostgreSQL breaks the cycle; the error is no OperationalError and       *)
(* leaves the handler.                                                     *)
DeadlockVictim(s) ==
  /\ ~SingleWriter
  /\ \E waiting \in SUBSET Handlers : s \in waiting /\ Deadlocked(waiting)
  /\ wrote' = [wrote EXCEPT ![s] = NoRows]
  /\ task' = [task EXCEPT ![s].phase = "failed"]
  /\ UNCHANGED <<sqlite, requests, filed, given, opened, cache>>

(* The end of a call: COMMIT, which may be refused on SQLite, or back to   *)
(* the caller.                                                             *)
Commit(s) ==
  /\ task[s].phase = "commit" /\ s \in Screens
  /\ \/ cache' = Stored(s)
     \/ SingleWriter /\ UNCHANGED cache
  /\ wrote' = [wrote EXCEPT ![s] = NoRows]
  /\ task' = [task EXCEPT ![s].phase = "shown"]
  /\ UNCHANGED <<sqlite, requests, filed, given, opened>>

Return(s) ==
  /\ task[s].phase = "commit" /\ s \in Jobs
  /\ task' = [task EXCEPT ![s].phase = "caller"]
  /\ UNCHANGED <<sqlite, requests, filed, given, opened, cache, wrote>>

(* The caller translates the same requests for a reader of another         *)
(* language, in the same transaction.                                      *)
CallAgain(s) ==
  /\ task[s].phase = "caller"
  /\ \E l \in Languages \ task[s].langs :
       task' = [task EXCEPT ![s].phase = "look", ![s].lang = l,
                            ![s].langs = @ \cup {l},
                            ![s].shown = [i \in Ids |-> NoRow],
                            ![s].missing = {}, ![s].made = {}, ![s].todo = {}]
  /\ UNCHANGED <<sqlite, requests, filed, given, opened, cache, wrote>>

(* The caller commits, or its transaction is rolled back.                  *)
CallerEnds(s) ==
  /\ task[s].phase = "caller"
  /\ cache' \in {Stored(s), cache}
  /\ wrote' = [wrote EXCEPT ![s] = NoRows]
  /\ task' = [task EXCEPT ![s].phase = "shown"]
  /\ UNCHANGED <<sqlite, requests, filed, given, opened>>

(* The handler is done; the screen may be opened again.                    *)
Close(s) ==
  /\ task[s].phase \in {"shown", "failed"}
  /\ task' = [task EXCEPT ![s] = Idle]
  /\ UNCHANGED <<sqlite, requests, filed, given, opened, cache, wrote>>

-----------------------------------------------------------------------------
(* The specification.                                                      *)

(* The steps asyncio, the timeouts of the LLM and the database bring about.*)
Proceed(s) ==
  \/ Lookup(s) \/ Translate(s) \/ AdoptWinner(s) \/ Busy(s)
  \/ DeadlockVictim(s) \/ Commit(s) \/ Return(s) \/ CallerEnds(s)
  \/ \E i \in Ids : Insert(s, i) \/ Conflict(s, i)

Next ==
  \/ \E i \in Ids : Create(i) \/ Delete(i)
  \/ \E s \in Handlers : Open(s) \/ Proceed(s) \/ CallAgain(s) \/ Close(s)

Spec == Init /\ [][Next]_vars
FairSpec == Spec /\ \A s \in Handlers : WF_vars(Proceed(s))

-----------------------------------------------------------------------------
(* Properties.                                                             *)

(* Types; no two transactions have inserted the same key, and a handler    *)
(* that has ended has left no transaction open.                            *)
TypeOK ==
  /\ sqlite \in BOOLEAN
  /\ requests \in [Ids -> Texts \cup {NoText}]
  /\ filed \in 0..MaxTexts
  /\ given \subseteq Ids
  /\ opened \in 0..MaxCalls
  /\ cache \in [Keys -> Rows \cup {NoRow}]
  /\ wrote \in [Handlers -> [Keys -> Rows \cup {NoRow}]]
  /\ task \in [Handlers -> Tasks]
  /\ \A s, t \in Handlers, k \in Keys :
       s # t => wrote[s][k] = NoRow \/ wrote[t][k] = NoRow
  /\ \A s \in Handlers :
       task[s].phase \in {"idle", "shown", "failed"} => ~Writing(s)

(* A translation on a screen is one of the original it is displayed with,  *)
(* in the reader's language: README.md:202-204 says "The AI translation    *)
(* and the original are displayed together so staff can verify ambiguous   *)
(* wording."  False on SQLite, where the id of a deleted request is given  *)
(* out again and delete_request leaves its translations behind             *)
(* (requests.py:306-316); OwnText says where it holds.                     *)
ShowsOwnText ==
  \A s \in Handlers, i \in Ids :
    LET row == task[s].shown[i] IN
    row # NoRow => row.of = task[s].texts[i] /\ row.as = task[s].lang

(* What is stored is about the request that has the id now.                *)
StoredBelongs ==
  \A k \in Keys : cache[k] # NoRow =>
    cache[k].of = requests[k[1]] /\ cache[k].as = k[2]

(* Where no id is used again, screens show and the table keeps the text of *)
(* the right request, whoever translated, deleted and filed meanwhile.     *)
OwnText == ~ReuseIds => ShowsOwnText /\ StoredBelongs

(* A stored translation keeps its words until its request is deleted, so   *)
(* that everybody reads the same (README.md:207, stored once and reused).  *)
StoredStays ==
  [][\A k \in Keys : /\ cache[k] # NoRow
                     /\ requests'[k[1]] = requests[k[1]]
                     => cache'[k] = cache[k]]_vars

(* Losing the race for the cache, a busy database or a refused row never   *)
(* takes a text off the screen that was found or that the LLM delivered.   *)
NothingLost ==
  \A s \in Handlers :
    task[s].phase \in {"insert", "reread", "commit", "caller", "shown"} =>
      \A i \in Batch(s) : i \notin task[s].missing \/ i \in task[s].made
                          => task[s].shown[i] # NoRow

(* "Cache persistence must never make a request unreadable"                *)
(* (request_translations.py:159): true of the card of a single request;    *)
(* two batches in different order can deadlock on PostgreSQL.              *)
OneNeverFails ==
  \A s \in Screens :
    (\E i \in Ids : Batch(s) = {i}) => task[s].phase # "failed"

(* Every screen is answered: no translation waits for another forever.     *)
ScreenEnds ==
  \A s \in Handlers :
    task[s].phase = "look" ~> task[s].phase \in {"shown", "failed"}
=============================================================================
