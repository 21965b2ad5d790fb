# Verification of the housing bot

A Telegram bot (aiogram, SQLAlchemy, APScheduler) through which residents file
service requests, workers claim and complete them, and dispatchers and the
chairman (role `administrator`) supervise. This directory holds TLA+ models of
its stateful parts, the TLC configurations that check them and the TLAPS proofs
about them. Paths below are relative to the root of the repository.

## 1. The system

### How code runs

* aiogram handles every update (a message or a pressed button) in its own
  asyncio task. `main.py:38` creates the dispatcher without `events_isolation`,
  so two updates, even of one user, interleave at every `await`.
* `DbSessionMiddleware` (`middlewares.py:17`) gives each update a database
  session; a handler that does not commit leaves nothing behind.
* Services read a row (`SELECT`), check it in Python, and then issue a
  conditional `UPDATE`. Between the two anything may happen. On SQLite the
  driver's legacy transaction mode makes the `SELECT` autocommit; on PostgreSQL
  the isolation level is READ COMMITTED. In both the `WHERE` clause of the
  `UPDATE` sees the committed row, and sees it after the locks it waited for.
* FSM state (the form a user is in) is kept per user in memory or in Redis.
* Two interval jobs run in every process; several processes may share one
  PostgreSQL database.

### Components

| Component | State | Operations | What is hard | What makes it correct |
|---|---|---|---|---|
| Request lifecycle, `services/requests.py` | table `requests` | create, claim, close, assign, approve, reject, delete; `reject_user` behind its back | check then act on stale reads, ids given out again | no worker before the gate, holder matches status, legal steps only |
| Audit trail, `models.py:287` | table `request_events` | one append per operation, read by `request_history` | events of the losers of a race, deleted requests, a writer without events | the events replay to the row |
| Scheduler, `services/scheduler.py` | `is_escalated`, `dispatched_at` | two jobs, each one transaction | overlap, locks held while sending, rollback after sending | page only what waits, mark only after trying to send, handle everything overdue |
| Completion dialogue, `handlers/worker.py:445-557` | FSM state, the request | choose, comment, review, close, acknowledge, notify, replay | retries, replays, concurrent comments, restart | what is said is what is stored, nothing lost, nothing changed afterwards |
| Translation cache, `services/request_translations.py` | table `request_translations` | look up, translate, insert in a savepoint, re-read, commit | insert races, batches in different orders, text of a reused id | a screen shows the text of its own request, every screen is answered |
| Participants and tenancy, `common.py`, `resident.py:43-206`, `chairman.py:36-120`, `dispatcher.py:1073-1128,1410-1458` | table `users` | register, approve, reject, revoke, add worker, shift | unconditional ORM writes over stale reads | one tenant per flat, approval by the right person |
| Request intake, `resident.py:368-1259` | FSM of the form | category, area, media, text, AI review, duplicates, confirm | double taps, data of an abandoned form, the LLM failing | one request per confirmation, with the fields its category needs |
| Routing and schedules, `request_routing.py`, `schedules.py`, `notify.py:71-124`, `dispatcher.py:1327-1407` | working hours, exceptions, shifts | next dispatch time, availability, audience, edits of a schedule | calendar boundaries, overnight shifts, two dispatchers at once, nobody on shift | duty is the week as entered, cleaning is released in an opening, urgent requests reach somebody |
| Reports, `services/reports.py`, `dispatcher.py:375-506` | none but the buttons of a message and a dialogue of two dates | overview, breakdown, dynamics, CSV, filters, custom period | several queries while others commit, identity map, codes on buttons | it counts what it says, the filters survive, it fails for three reasons only |
| Staff dialogues and announcements, `chairman.py:123-230`, `dispatcher.py:1133-1208,1410-1457` | one FSM context a person, table `announcements` | begin a form, type, confirm, review, publish, broadcast, add a worker, cancel | forms share their data, old buttons, order of registration, cut-offs between commit, clear and message | one verdict a request; for staff who wait for answers, an announcement is heard once and a reason reaches its request |
| LLM client, `services/llm` | none | classify, improve, translate, find duplicates | may fail or time out | callers survive any answer |
| Personas, menus, texts, migrations | little or none | read and show | - | - |

Components interact through the database (all of them), through FSM state (the
handlers of one user), by calls (handlers call services, services call the
notifier and the LLM), and through Telegram messages, which cannot be taken
back.

## 2. Plan

| Order | Module | Status |
|---|---|---|
| 1 | `RequestLifecycle`, `RequestSpec` (abstract), `RequestAudit` | done |
| 2 | `RequestLifecycleProofs` | done |
| 3 | `Scheduler` | done |
| 4 | `Completion` | done |
| 5 | `SchedulerProofs` | done |
| 6 | `Intake` | done |
| 7 | `Participants` | done |
| 8 | `ParticipantsProofs` | done |
| 9 | `DialogueProofs`: the theorems about `Completion` | done |
| 10 | `Translations`, `TranslationsProofs` | done |
| 11 | `Duty`, `DutyProofs` | done |
| 12 | `Reports`, `ReportsProofs` | done |
| 13 | `IntakeProofs` | done |
| 14 | `StaffForms`, its theorems in `DialogueProofs` | done |
| 15 | `Intake` and `IntakeProofs` with handlers of one chat that overlap: which of its promises survive | done |
| 16 | A composition of `Participants` with `RequestLifecycle` and `Completion`: a worker whose access is revoked while he holds a request | open |
| 17 | `Scheduler` shown to implement `RequestSpec` for each request, in `SchedulerProofs` | done |

`Participants` decides who the actors are that `RequestLifecycle` leaves open, and
`Intake` is the source of its `Create`; `Duty` says when a request of
`RequestLifecycle` is released and who is told, and `Scheduler` calls
`Translations` for the readers of a message. `RequestSpec` is the abstract
specification of the table of requests.

## 3. The models

### RequestLifecycle: `services/requests.py`

State: `requests` (the table: a row or `NoRow` for every id), `log` (the events
of every id in commit order) and `task` (what each update in flight remembers).
`ReadFor...` actions are a handler up to its last check, `Write...` actions are
its conditional statement with the event and the commit. `UpdateWhere` is the
conditional `UPDATE`: when the row no longer satisfies the condition (`rowcount`
0) the update ends without effect. `create_request` has no earlier read and is
one action. `Abandon` is an update that fails or dies in between.

One writer of the table goes past the service. `reject_user`
(`dispatcher.py:1105-1128`) deletes the account of anybody an old card names, also
of somebody who has become a worker since. `session.delete` loads his
`assigned_requests` (`models.py:47`, no `passive_deletes`), of any status
(`ReadForRejectUser`), and the flush sets `worker_id` of each of these rows to `NULL`
and deletes the account (`WriteRejectUser`), without an event and without asking
whether the rows still name him. So an accepted request can be left without a worker,
and one that was handed on in between can lose its new one. `leaving` holds these calls
between their read and their write, `gone` the workers deleted so far. PostgreSQL
refuses to delete an account that `request_events.actor_id` (`models.py:302`) or another
request refers to, so there only a worker who was assigned his requests and never acted
on one can go, and an update in flight that names him raises (`Known`); SQLite does not
check foreign keys by default, and gives the ids of accounts out again.

Reduced: the categories plumber, electrician and security behave alike and are
one (`"ordinary"`); descriptions, media, urgency, timestamps and comments are
left out; the clock enters as `DispatchTime`, the instant `dispatch_after`
passes. Whether an actor is approved, on shift, scheduled or of the right
category is a free choice at each read: the results hold however those change,
also between the read and the write.

`FreshId` is the id an `INSERT` gets. A PostgreSQL sequence never gives an id
again. SQLite's `INTEGER PRIMARY KEY` gives `MAX(id) + 1`, so the id of a
deleted last request comes back.

`RequestSpec` is the abstract specification: a request is a ticket that moves
from review or waiting to the queue, to a holder, to done. The refinement
mapping `TicketOf` maps a row to its ticket; `ImplementsTicket` says that every
step of every handler is a step of the ticket or none. It includes that nothing
leaves done or refused, that a withdrawn ticket never returns, and that a worker
gets only queued tickets. A held or completed ticket may lose its holder (`Forget`),
several at once: that is what `reject_user` does to them, and all it does.

`RequestAudit` reads the history back: `Replay`, a recursive function on the
numbers of events read so far, replays the events of an id as an auditor would,
refusing any that is illegal after the one before it, and `AuditReplays` compares
the result with the table, on SQLite. `request_history` shows the events by
`(created_at, id)`. SQLite's single writer makes that the order of the commits, which is
the order of `log`; on PostgreSQL `created_at` is the start of a transaction, so events
may be shown in another order than their commits, and nothing is claimed. What
`reject_user` did is in no event: a row may have no worker where the trail names one,
but only if a worker the trail names was deleted (`LostHolder`).

### Scheduler: `services/scheduler.py`

State: the clock, the committed rows, one `run` per job and process, and `rounds`,
the rounds of messages a run tried to send about a request. A run is one transaction: `Start`
is the `SELECT`, `Pick` takes the next id, `Update` is the conditional `UPDATE`
(waiting in `Queue` for a lock), `TellWorkers` and `TellDispatchers` send,
`Commit` makes the marks visible, `Fail` and `DeadlockVictim` roll them back.
Marks of a run are in `wrote` until the commit; they lock the row (PostgreSQL)
or the database (SQLite, `SingleWriter`). The handlers are reduced to what they
do to a row: `File`, `Accept`, `Approve`, `Delete`. Ids of deleted requests are
not used again here. One round of messages is one step (`SendRound`), an
attempt: `_send` (`notify.py:36-58`) swallows failures, the jobs drop the
`DeliveryReport` they get back, and a normal request that is released while nobody is
on duty is sent to nobody (`notify.py:98`) and marked as dispatched all the same.
`TriedBeforeCommitted` therefore speaks of attempts; who is reached is no promise of the
code. `Ticket(i)` maps a row
and the clock to the ticket of `RequestSpec`: `EveryTicket` says that the jobs, the
clock and the handlers keep every request on the path that `RequestLifecycle` shows
for the handlers alone, where being released was a flag.

### Completion: `handlers/worker.py`

One worker, his requests, his FSM state (`chosen`) and the handlers of his comments. The
phases of a handler are its awaits: `look` (the `SELECT`), `review` (the LLM),
`write` (`close_request` and commit), `ack` (Telegram, with retries), `clear`
(`state.clear()`, an await of its own after the answer), `notify`. A handler cut off
between `ack` and `clear` leaves the FSM state behind, and the next comment replays.
`handler` also names the comment, since every comment has its own text. `dropped`
is a history variable: the context was lost before its acknowledgement, or the
handler died after it. The other side of the system is `Reassign`, which takes a
request away or gives it back; a deleted request and a worker whose access is
revoked are left out here (row 16 of the plan). Constants, variables and actions have
names that no other dialogue uses (`CompletionSpec`, `chosen`, `handler`), since
`DialogueProofs` extends this module and `StaffForms` together.

### Intake: `handlers/resident.py:368-1259`

One resident and his chat. `fsm` is the FSM state with its data, `requests` the
table (ids are positions), `task` what each handler of the chat remembers while it
waits for the LLM or for the database. aiogram does not wait for one update of a
chat before it takes up the next, but a person may: `patient` says that he sends
nothing until he has the answer to what he sent (`Ready`). It is TRUE or FALSE from
the start and never changes. If it is FALSE his handlers overlap on one form: double
taps, a cancel while the LLM thinks, a handler that comes back to a form he has left
or begun anew. Beside him neighbours file, workers complete, a dispatcher revokes the
resident, the process stops. `MemoryStorage` loses the form in a restart and
`RedisStorage` keeps it; both are alternatives of `Restart`.

What survives overlapping handlers is stated without a condition: a handler about to
file has a category (`TypeOK`), the data hold what the state needs (`FormComplete`,
but for the draft behind a decision), and a description is filed once (`FiledOnce`),
with two exceptions that `twice` records. `Share` is the one that overlapping adds: a
tap takes from the form a text that another handler of the chat has already, so that
both file it. `SameForm`, `CompletedNeverBlock` and the draft behind a decision need
`patient`, and are false without it.

A handler goes through `classify` (the LLM looks at the text), `check` and
`recheck` (the LLM compares it with open requests), `create` and `filed`.
`Create` is the `INSERT` with its `COMMIT`, `LeaveForm` the `state.clear()` after
it, since a stop between the two leaves the form behind: the other exception in `twice`.
The LLM may refuse, accept, rewrite, fail, or name one of `Guesses`.

A button is an action whose guard is the state filter of its handler and nothing
else, as in the code: buttons of old messages can be pressed whenever the state
fits. The "file it anyway" button may be pressed as soon as one description was
refused, which is more than the chat allows. Reduced: a description is known by
its number, the duplicates' limit of 12 is never reached, a tap is one step until
its handler waits for the LLM or files (its look at the resident's row, and with
Redis each access to the form, are awaits of their own, and what comes between
them is left out), and service areas, media, urgency, the wording of the AI's
proposal and personal data are left out, though the steps that ask for them are not.

### Participants: `common.py`, `dispatcher.py`, `chairman.py`, `resident.py`

`users` is the table, `fsm` the registration form of every account, and `task`
what a handler remembers between its `SELECT` and its `COMMIT`: the row as it was
read (`copy`) and as it shall be (`want`). `Commit` is what SQLAlchemy does: an
`UPDATE ... WHERE id = ...` of those attributes that differ between the two
(`Written`), whatever the row is by now. Nothing asks again what the handler had
decided upon, except the unique index. Rows that were deleted meanwhile make the
`UPDATE` fail; a handler remembers that its row, or the owner it names, was
deleted in `lost`, so that an account that registers again is not taken for the
old row. `Raise` is every other failure.

Assumed: the database has been migrated. The unique index
`uq_users_one_approved_tenant_per_apartment` is created by migration 06 only
(`migrations/versions/20260326_06_resident_subroles.py:60`); `models.py` does not
declare it, so that a schema made by `create_all` does not have it, and there
`OneTenant` fails (that is its mutant `NoIndex`). The foreign key of
`approved_by_owner_id` is enforced with `ON DELETE SET NULL`, as PostgreSQL does
and SQLite does not by default.

Reduced: the steps of one account's form do not overlap (`Quiet`), those of
different accounts and all decisions do; dispatchers and the chairman act from
outside the table; the choice of a language is part of `Start`; ids are not used
again. `seen` is history: who approved an account last and which flat he saw,
or `Stale` once a `COMMIT` wrote to a row that was not what its handler had read.
`RightPerson` is silent about such rows, and says so.

### Translations: `services/request_translations.py`

State: `requests` (the description of every id), `cache` (the committed rows of
`request_translations`), `wrote` (the rows each open transaction has inserted)
and `task`, the call of a handler. Its phases are `look` (the `SELECT` of the
cache), `llm`, `insert` (row by row inside `begin_nested`, in the order of the
batch), `reread` after an `IntegrityError`, and `commit`. A screen commits; a job
(`commit_immediately=False`, the scheduler) goes back to its caller, which may
translate for a second language in the same transaction before it commits or
rolls back. The LLM answers for any subset of what is missing.

The databases differ in what decides the races. PostgreSQL checks the foreign
key and cascades, an `INSERT` waits for the transaction that holds its unique
key, and a cycle of waiting is broken at the cost of one transaction
(`DeadlockVictim`). SQLite has one writer, gives up waiting (`Busy`, the
`OperationalError` the code catches), does not cascade and gives ids out again.
Both are initial states of one run (`Databases`).

Reduced: a description is known by the order it was filed, a stored row by its
text, its language and the handler whose answer it is. The caller of a job is
only its order and its end.

### Duty: `schedules.py`, `request_routing.py`, `notify.py`

The functions of the calendar are operators on instants, a date and a time of
the organization's day: `NextCleaningDispatch`, `MatchesHour`, `Planned`
(`get_schedule_status`), `Available`, `Audience` (`notify_workers`) and
`MayClaim` (`claim_request`). The state is what they are asked about: the hours,
the exceptions (oldest first, by `created_at`), the approval and the shift of
every worker of a category; and `task`, the message of a dispatcher being
handled, between the `SELECT`s that look for existing intervals and the
`INSERT`s that the unique key may refuse. `SaveException` puts the exception at
any place after those that were there when its transaction began: `created_at`
is that time on PostgreSQL, not the time of the `COMMIT`. `Covering` is the set of
the places of the exceptions around an instant, `Newest` the last of them, by which
`Planned` decides (`ORDER BY created_at DESC`).

Reduced: one time zone without clock changes; a message names one interval for
any of its weekdays; a worker of another category does not appear. A cleaning
request is filed in a run of its own, as schedules do not bear on it.

### Reports: `services/reports.py`, `dispatcher.py:375-506`

State: `today`, `table` (what a report reads of a request), `card` (the report's
message with the codes on its buttons), `dialogue` (the two dates of a custom
period) and `reading`. A report is one transaction of several queries:
`ReadCreated`, `ReadClosed`, `Show`. Each sees what is committed by then and
computes its period from the clock; a row an earlier query loaded stays as it
was loaded (`loaded`, the identity map of the session). `Create`, `Assign`,
`Escalate`, `Close`, `Delete` and `Midnight` come in between. `Encode` and
`Decode` are the tables of codes by which the filters travel on buttons. A report raises
in `ReadCreated` when a typed date lies at the end of the calendar (`Overflows`: adding a
day, or the shift to UTC, leaves `datetime`'s range), and in `Show` when a row closed
meanwhile is still the one loaded before (`Untimed`) or when the breakdown by workers has
to sort a worker without a name beside another group (`Unsortable`, `reports.py:296-312`;
`add_worker_finish`, `dispatcher.py:1453`, adds workers without one).

Reduced: urgency stands for the filters with a value for `NULL`, worker for
those without; dates are local dates; months have one length. Left out: medians,
the layout and the text of the CSV. Seen on the way and modelled as they are: the
reset of the filters keeps the period "custom" and drops its dates, so that it
shows the last seven days (`TapReset`), and a custom period begins with the
default filters (`TypeEnd`).

### StaffForms: `chairman.py:123-230`, `dispatcher.py:1133-1208,1410-1457`

State: `fsm` (the one context that all forms of a person share: state, request,
draft, id), `task` (the handlers, at which await, with what they hold), the
verdicts on requests, `published` (the table), `heard` (broadcasts) and `told`
(what a resident was told). `Registered` is the order in which aiogram tries the
handlers of messages, `Receiver` the one that gets a message; buttons under a
message work in every state. `SetState`, `SetRequest` and `Clear` are what
`set_state`, `set_data` and `clear` leave alone. A handler is cut into steps at
its calls of the storage, the database, the LLM and Telegram, since `Fail` and
`Restart` may end it at each; a restart keeps the forms (Redis) or loses them.

Reduced: the LLM suggests another wording or none; a broadcast is one step; labels
that only show something do nothing; ids of requests are not given out again
(`RequestLifecycle` has that case). What others do (review, delete, revoke) is one
step each, at any moment.

Nothing keeps the updates of one person apart, and `Begin` starts a handler whatever
else runs for him. As in `Intake`, `patient` is TRUE or FALSE from the start: if it is
TRUE, all of the staff send an update only when their last one was answered. What needs
it is stated for the patient. It is false of the others, and taking `patient =>` away
from any of the four gives its trace in `staff_forms`:

* `HeardOnce`: a double tap on a suggestion is two handlers that both read the draft
  before one clears it (`dispatcher.py:1187-1198`), and both broadcast.
* `SuggestionWasShown`: an old card tapped between `update_data` (`dispatcher.py:1157`)
  and the sending of the new card publishes the new suggestion.
* `CommentForItsRequest`: a tap on another request between the actor check and
  `get_data` of a reason that was sent already (`chairman.py:196-197`), or two such taps
  that overlap.
* `CategoryHasId`: a cancel between `update_data` and `set_state`
  (`dispatcher.py:1426-1430`) clears the id, and the state comes after.

`OneVerdict` needs no patience: it rests on the conditional `UPDATE`.

## 4. The runs

| Run | Shows | Bounds |
|---|---|---|
| `lifecycle_postgres` | `WorkerGate`, `HolderMatchesStatus`, `ImplementsTicket` | 1 id, 2 workers, 1 resident, dispatcher and chairman, 2 handlers in flight and up to 2 deletions of workers beside them, no creation or assignment after 4 events |
| `lifecycle_sqlite` | `AuditReplays` with ids used again | as above, 1 deletion of a worker |
| `lifecycle_delete_race` | violation of `ResidentsDeleteOnlyNew` | 2 handlers, 1 deletion of a worker, 4 events |
| `scheduler_overlap` | `PagedWhileWaiting`, `RepeatsOnlyAfterRollback`, `EveryTicket` on PostgreSQL | 2 requests, 2 processes' escalations, clock to 2, 1 failure |
| `scheduler_jobs` | `TriedBeforeCommitted`, `OverdueHandled` on SQLite | 2 requests, both jobs of 1 process, clock to 2, 1 failure |
| `completion` | `AckIsStored`, `CompletionFinal`, `NotLost`, `AnswerEnds` | 2 requests, 2 concurrent comments, 3 comments in all, 2 attempts, 2 failures, 2 reassignments |
| `intake` | `FormComplete`, `SameForm`, `FiledOnce`, `CompletedNeverBlock` | 2 requests; 2 descriptions if he waits for answers, else 2 handlers and 1 description; the LLM names plumber or security, neighbours file plumber requests |
| `participants` | `OneTenant`, `RightPerson`, `OnlyApprovalsApprove` | an owner, his applicant and a newcomer, 1 flat, 2 handlers, 2 decisions |
| `translations` | `OwnText`, `StoredStays`, `NothingLost`, `OneNeverFails`, `ScreenEnds` on both databases | 2 requests, 2 descriptions, 2 languages, a list and the scheduler in opposite orders, 2 batches |
| `duty` | `PlannedIsTheWeek`, `OffDutyOnlyBy`, `AddedUnlessCleared`, `UrgentFallback`, `DeferredToOpening` | 2 workers, 2 dispatchers, 3 edits, 8 dates of 4 times, three kinds of intervals |
| `reports` | `ReportAddsUp`, `FiltersKept`, `FailsForThreeReasons` | 2 requests, 1 worker, who has no name, 3 dates, the last one at the end of the calendar, months of 2 days, 3 changes, 1 tap from any card with one filter set at most |
| `staff_forms` | `HeardOnce`, `SuggestionWasShown`, `CommentForItsRequest`, `OneVerdict`, `CategoryHasId` | 1 chairman, 2 handlers, 2 requests, 2 texts, 1 id, 5 updates with those of others if he waits for answers and 4 if not, 1 failure |

`TypeOK` is model-checked beside these in `participants` and `intake`, where it
says more than types; type correctness is proved of every state machine.

Why the bounds suffice. Handlers of different requests share no state, so one id
carries every race of the lifecycle; the proofs cover any number. Two handlers are a
winner and a loser, and a deletion of a worker runs beside them, on PostgreSQL a second
one; four events allow a request to be created, taken and handed over twice, or to be
deleted and filed again under its id. Escalations interact through at most two
rows (a deadlock needs two), one failure shows what a rollback leaves behind, and
with a threshold of 1 a clock of 2 has requests before, at and after it. In
`Completion` two attempts stand for three: what matters is that one may fail and
that the last one raises. The FSM context is overwritten only by a second
request, so two are enough. In `Intake` two descriptions are what an abandoned
form needs to be mistaken for its successor, and two requests leave room for a
duplicate and for the request filed in spite of it. Without `patient` the promise left
is about one description, which two handlers, tapped or resumed in any order, may try
to file; the proofs cover any number of both. In `Participants` two
decisions may race, or follow on each other around a registration; the third
account is the one that starts from nothing. Three decisions took longer than is
useful to repeat; the proofs cover any number of decisions, accounts, flats and
handlers.

In `Translations` a deadlock needs two keys inserted in opposite orders, a lost
race two handlers, and a mixed-up text a second description under one id. In
`Duty` eight dates from a Monday on contain the step from Sunday to Monday; four
times a day have an instant before, in, between and after opening hours; three
edits allow two overlapping messages and a third, or a clear in the midst; the
intervals are one within the day, one over midnight and one of 24 hours. In
`Reports` sums and races are about one request at a time and the breakdown fails on
two; three dates with months of two days have a first and a last day of a month and a
previous month, three changes take a request from its creation to its end during one
report. The walk starts from a card with a period, a worker or an urgency set, or from a
dialogue, so one tap sets or keeps a second filter; the proofs cover any number of
taps, with which every combination is met.

In `StaffForms` five updates, those of somebody else among them, begin a form, type,
begin another over it, type and press an old button; a mixed-up draft needs two
texts, a misplaced reason two requests, a repeated broadcast one handler cut off. Of
the impatient only `OneVerdict` is claimed, for which four updates are two reviews that
overlap, each with what opens it.

Deadlock checking is off in all runs: ids, time, failures and comments are
bounded, and users need not act, so every model may come to rest.

Symmetry is used for handlers, workers, requests, texts and processes where only
invariants and action properties that treat them alike are checked, never in a
run with liveness.

### Fairness

`RequestLifecycle`, `Intake`, `Participants`, `Duty`, `Reports` and `StaffForms`
assume none: their properties are about what must not happen.

`Scheduler`: `Start`, the steps of a run and the database's deadlock resolution
are weakly fair. The interval trigger fires every minute as long as the process
lives, asyncio resumes a run whose await ends, and PostgreSQL breaks deadlocks.
Residents and staff are not forced to do anything and the clock need not
advance; the property is about requests that are overdue already. `Fail` is
bounded: under a failure in every run nothing would be escalated.

`Completion`: the steps of a handler are weakly fair, for the same reason and
because the LLM and Telegram calls have timeouts. The worker need not do
anything. A failed attempt consumes one of `MaxFailures`.

`Translations`: the steps of a call are weakly fair as one (`Proceed`): the LLM
call has a timeout, PostgreSQL grants a lock once its holder ends and breaks
deadlocks, SQLite gives up waiting. A caller is among them since a job ends by
itself; opening a screen is not.

## 5. What does not hold

One run ends in a violation of what a document of the repository says.

1. **A resident can delete an accepted request** (`lifecycle_delete_race`).
   `delete_request` is the only operation whose write does not repeat its
   condition (`requests.py:315`).

Seven more definitions are false and stand in their modules with a comment that
says so and quotes what the code says of itself, where it says anything. They
have no run of their own; adding the name as an `INVARIANT` to the run in
parentheses gives the counterexample.

2. **On SQLite a claim can take an unreviewed request** (`WorkerGate` in
   `lifecycle_sqlite`). The claim of a deleted request reaches the new request
   with its id, because the `UPDATE` tests id and status only
   (`requests.py:95`).
3. **Escalations can repeat** (`EscalatedOnce` in `scheduler_overlap`). The
   idempotency mark is committed after the messages. Two instances that lock two
   rows in opposite order are enough; so is any exception.
   `RepeatsOnlyAfterRollback` is what remains true: one repetition per failed
   run.
4. **A completion can be announced twice** (`ToldOnce` in `completion`). The
   replay branch notifies again, and nothing records that the first handler did.
5. **A button of an old suggestion card files the new description**
   (`StaleButtonsDead` in `intake`). The state filter cannot tell cards apart and
   the buttons do not name theirs (`resident.py:597`, `resident.py:1215`).
6. **On SQLite a request can show the translation of a deleted one**
   (`ShowsOwnText` in `translations`). `delete_request` leaves the rows of
   `request_translations` behind and the id is given out again.
7. **A menu button is published as an announcement** (`SchedulesButtonOpens` in
   `staff_forms`). `create_ann_finish` (`dispatcher.py:1143`) takes every text
   while its form is open and is registered before the buttons of the schedules
   and of adding a worker, which `README.md:168` says open them. The chairman's
   form for a reason takes all buttons of `dispatcher.py` alike.
8. **A normal request that comes while nobody is on duty is announced to nobody**
   (`AllToldWhenOffDuty` in `duty`). `spec.md:77` says that all workers of the category
   are notified at once then; `notify_workers` falls back for urgent requests only
   (`notify.py:98-104`), as `README.md:172-176` describes it. The two documents disagree,
   and the code follows the second. When a resident files the request the dispatchers
   are told instead (`resident.py:526`); a release by the scheduler and an approval by
   the chairman tell nobody. `UrgentFallback` states what the code does.

Some properties name their exceptions and are false without them. `OneNeverFails`
speaks of a single card, as a list can be the victim of a deadlock;
`FailsForThreeReasons` names the ways in which a report fails; `HolderMatchesStatus` and
`AuditReplays` except requests whose worker was deleted. `SuggestionWasShown` and
`CommentForItsRequest` except what was cut off and `FiledOnce` what was cut off and a
double tap: nothing between a tap on a card (`resident.py:1215`) and the COMMIT tells a
second tap that a first one is at work. `SameForm`, `CompletedNeverBlock` and four of
the properties of `StaffForms` speak of people who wait for answers (section 3).

## 6. What is proved

`RequestLifecycleProofs` proves for every number of ids, users and handlers:

* `TypeCorrect`: `Spec => []TypeOK`.
* `HolderCorrect`: `Spec => []HolderMatchesStatus`, with or without reused ids,
  deletions of workers included.
* `GateCorrect`: `Spec => []WorkerGate`, assuming `~ReuseIds`.
* `TicketCorrect`: `Spec => ImplementsTicket`, assuming `~ReuseIds`.
* `AuditCorrect`: `Spec => []AuditReplays`, which speaks of SQLite.

The assumptions are those of `ConstantsAssumption`: ids are numbers, and the
markers for "no row", "no worker" and "no update" are not rows, workers or
updates. `~ReuseIds` is needed: point 2 of section 5 is the counterexample
without it.

The argument. `WorkerGate` is not inductive: a claim in flight knows that the
request *was* ready, and the `UPDATE` does not ask again. The inductive
invariant adds what is remembered: for every claim or assignment in flight the
row, if it still exists, is still ready, because review and release are never
undone; and for every update in flight its id has been given out, so that, ids
not being used again, no new row can appear under it. With it each `Write...`
action maps to one step of the ticket, or to none when its condition fails. A
`reject_user` in flight knows that the rows it loaded had a worker, so were accepted or
completed by one, and no step makes such a row new again: what it nulls are held and
done tickets, a `Forget`.

`AuditReplays` compares a row with a replay of a list of any length. `ReplayAppend`
says what one more event does to the replay; the list itself is induction on its
length, carried out with the well-foundedness of `<` (a least length at which the
claim fails, and the one before it), since a theorem of the library that takes a
predicate cannot be used here. What remains is one case for each write: it appends
no event and leaves the row, or appends the one whose replay from the old row gives
the new one; or it is `reject_user`, which takes the worker and appends nothing. The
events name every worker a request ever had, so that the deleted one is among them. A
reused id begins with an event of its own.

`SchedulerProofs` proves for any sets of requests and jobs, any number of
failures, and for row locks as well as for a single writer:

* `TypeCorrect`: `Spec => []TypeOK`.
* `PagedCorrect`: `Spec => []PagedWhileWaiting`.
* `TriedCorrect`: `Spec => []TriedBeforeCommitted`.
* `RepeatsCorrect`: `Spec => []RepeatsOnlyAfterRollback`.
* `TicketsCorrect`: `Spec => EveryTicket`.
* `ImplementsOneTicket`: `Spec => Ticket(i)!Spec` for each request `i`, where
  `Ticket(i)` is `RequestSpec` for that request.

The argument is the lock. `PagedWhileWaiting` speaks of the row a run is working
on; that it still waits follows only if every row the run has written is locked
until `COMMIT`. `LockInv` says so: the rows in `wrote` still wait in the
committed database (new, cleared, released, not marked), no run is ahead of the
clock, no row is in the `wrote` of two runs, and only requests that
need no approval are deferred (the release `UPDATE` does not ask for approval).
For the messages, `RoundsInv` keeps an account: the rounds tried for an audience
about a request are at most the rollbacks so far, plus one if a run that has not
committed has tried that audience, or the request is marked or gone.
`NotSettled` shows that a run about to send finds that account open, `COMMIT`
turns what was announced into marks, and a rollback pays for the round it wastes.
For the tickets, `StageIs` reads the stage of a ticket from its row and the clock.
A job moves no ticket, since a run writes only rows that wait and changes neither
status, approval nor `dispatch_after`; a handler moves one; a tick moves any number of
them from `waiting` to `queued`, which is why each request is a specification of its
own here and the table as a whole is one in `RequestLifecycle`. Fairness plays no
part in these proofs.

`ParticipantsProofs` proves for any accounts, flats, handlers at once and number
of decisions:

* `TypeCorrect`: `Spec => []TypeOK`, with it that `approved_by_owner_id` never
  names a deleted account.
* `TenantCorrect`: `Spec => []OneTenant`.
* `PersonCorrect`: `Spec => []RightPerson`.
* `ApprovalsCorrect`: `Spec => OnlyApprovalsApprove`.

The assumptions are those of `ParticipantsAssumption`: the owner and his
applicant are accounts, and the marker for "nothing" is no account, flat, role or
kind of handler. The argument has three parts. `FormInv` ties a row to the form:
who is in the form has no flat yet, and who has a flat has a name and, as a
resident, a subrole; so beginning the form again can never carry an approval over
to another flat. `GoodWant` says which attributes a handler of each kind may
change, and `StillTrue` what remains true of the row it read until it commits or
the row is deleted. `CommitRow` puts the two together with the rule that only
changed attributes are written: a `COMMIT` that is not an approval does not write
`is_approved` unless to withdraw it. Without that rule (the mutant
`WrittenWhole`) a shift toggled during a revocation restores the access that was
revoked. `SeatInv` is the index, which is why two counts of zero tenants do no
harm.

`DialogueProofs` has the theorems of the two modules about FSM contexts. About
`StaffForms` it proves for any staff, requests, texts, handlers at once and number
of updates, cut-offs and restarts:

* `TypeCorrect`: `Spec => []TypeOK`.
* `OnceCorrect`: `Spec => []HeardOnce`.
* `ShownCorrect`: `Spec => []SuggestionWasShown`.
* `CommentCorrect`: `Spec => []CommentForItsRequest`.
* `VerdictCorrect`: `Spec => []OneVerdict`.
* `CategoryCorrect`: `Spec => []CategoryHasId`.

The assumption is `StaffFormsAssumption`: texts, ids, labels and photos are told
apart, and administrators are on the staff. `VerdictCorrect` and `TypeCorrect` hold of
everybody; the properties of the other four speak of the patient. None of the five is
inductive, as each depends on what handlers and forms hold between two awaits. There are
two invariants: `Basics`, which every step keeps, and `Inv`, which the steps keep if
`patient` is TRUE, which never changes (`PatienceStep`), so that what is proved of the
whole is `patient => Inv`. `Basics` is `TypeOK`, what handlers hold (`TaskInv`) and

* `VerdictInv`: a handler with a verdict yet to tell is the one whose conditional
  `UPDATE` found the request pending. There is one such handler for a request, and
  nothing was told before.

`Inv` adds a part for each of the other questions:

* `SerialInv`: one handler of a person at a time, which is what waiting means; the
  actions that begin a handler maintain it.
* `HeardInv` follows a text from its author to the audience. Before it is typed it
  is nowhere; then one person's handlers and form hold it, no other's; when a handler
  is about to broadcast it, the form no longer does (`state.clear()` comes first); and
  once it was heard nobody holds it. So whoever is cut off, and wherever, nothing is
  left that could broadcast again.
* `ShownInv`: a suggestion in a form was on a card, or its handler is about to show
  the card, or was cut off there.
* `AskedInv`: the request in a form is the one the question was put about, or the
  handler that will put it is at work, or was cut off.
* `FormInv`: the data a state needs is stored before the state.

`TaskKept`, `VerdictKept`, `SerialKept`, `FormKept`, `HeardKept`, `ShownKept` and
`AskedKept` say what a step must leave behind to keep each part, so that the proof of a
handler's step is the list of those that it could disturb.

About `Completion` it proves for any requests and comments, any number of attempts,
failures, restarts and reassignments:

* `CompletionTypeCorrect`: `CompletionSpec => []CompletionTypeOK`.
* `AckCorrect`: `CompletionSpec => []AckIsStored`.
* `NotLostCorrect`: `CompletionSpec => []NotLost`.
* `FinalCorrect`: `CompletionSpec => CompletionFinal`.

The assumption is `CompletionAssumption`. `NotLost` is not inductive, as it trusts
any handler of the request, also one that is about to find it closed. `LostInv`
is sharper: a closed request, no state being lost, was told to the resident, is still in the FSM, or a handler has cleared it and is in its last phase `notify`. `Good` keeps that
true: a handler that has not closed its request yet still has its context in the
FSM, or somebody else has closed the request.

`TranslationsProofs` proves for any requests, languages, screens and jobs, on
both databases:

* `TypeCorrect`: `Spec => []TypeOK`, with it the unique key among transactions.
* `TextCorrect`: `Spec => []OwnText`.
* `NothingLostCorrect`: `Spec => []NothingLost`.
* `OneCorrect`: `Spec => []OneNeverFails`.
* `StoredCorrect`: `Spec => StoredStays`.

The assumption is `TranslationsAssumption`. `KeyInv` is the unique key: nobody has
written what is stored, or what another transaction has written; so a `COMMIT`
overwrites nothing. `OwnInv` carries, on PostgreSQL, that a text a handler read is
still that of its request or the request is gone, and that a row somebody has
inserted keeps its request from being deleted. `GoodTask` says that the keys a
screen holds are those of its batch it has passed; a batch of one therefore holds
nothing while it waits, and nobody can wait for it.

`DutyProofs` proves for any workers and dispatchers, any division of the day, any
opening hours and any number of edits:

* `TypeCorrect`: `Spec => []TypeOK`, with it that an exception ends after it
  starts.
* `OpeningCorrect`: `Spec => []DeferredToOpening`.
* `AddedCorrect`: `Spec => []AddedUnlessCleared`.
* `WeekCorrect`: an instant matches a weekly interval just when it lies in one of
  the concrete shifts the interval stands for.
* `PlannedCorrect`: `Spec => []PlannedIsTheWeek`.
* `OffDutyCorrect`: `Spec => OffDutyOnlyBy`.

The assumption is `DutyAssumption`, of which the opening hours' order is needed.
The calendar is arithmetic modulo 7 (`WorkdayFacts`, `OpenFacts`); the rest of the
argument is `TaskInv`: what a message found missing, together with what is stored,
covers what it asked for until its worker's hours are cleared.

`PlannedCorrect` takes the exceptions as a list of any length: if one covers the
instant there is a newest (`NewestFacts`, a greatest element of a bounded set of
places), and if none does the hours decide, which is `WeekCorrect`. For
`OffDutyCorrect` the point is that a new exception may be placed before older ones
that were committed later: putting it in moves the places behind it up by one and
keeps their order, so the newest exception at an instant stays what it was unless
it is the new one, which takes a worker off duty only if it is an absence. The other
way off duty is the first hours of a worker who had none, and so was always on.

`ReportsProofs` proves for any requests, workers, dates and changes:

* `TypeCorrect`: `Spec => []TypeOK`.
* `FiltersCorrect`: `Spec => FiltersKept`.
* `FailureCorrect`: `Spec => []FailsForThreeReasons`.
* `AddsUpCorrect`: `Spec => []ReportAddsUp`.

The assumption is `ReportsAssumption`. `RoundTrip` shows that no two codes on the
buttons coincide and that what is encoded is decoded again. `Consistent` says that
between the first and the second query nothing is loaded but what the first one
found, and that each loaded row is still the one in the table unless the request
was touched since; so a row counted as closed that the session holds as open was
counted as created, and touched in between.

`ReportAddsUp` is arithmetic and history. The arithmetic, for months and years of any
length: the interval a report computes holds the days the name of its period stands
for (`PeriodDays`), and no line of the dynamics holds two days, or two months
(`LineFacts`). The history (`SumInv`): once a query was made, its result names the
requests whose date and filters fit, apart from those touched since the report began,
and neither `Midnight` under typed dates nor a change of another request undoes that.

`IntakeProofs` proves, for any number of descriptions and requests and any number of
handlers of the chat at once:

* `TypeCorrect`: `Spec => []TypeOK`.
* `FormCorrect`: `Spec => []FormComplete`.
* `OnceCorrect`: `Spec => []FiledOnce`.
* `BlockCorrect`: `Spec => []CompletedNeverBlock`.
* `SameFormCorrect`: `Spec => SameForm`.

The assumption is `IntakeAssumption`. Nearly all of the 27 actions do the same thing
about texts: they pass on what the form and their handler hold (`Passes`), drop it when
the form is begun anew, and mark it when they share it with another handler (`Marks`).
`FiledOnce` is then an account of where a text is. `KnownInv`: every text in the form, a
handler or the table was typed before, so that a new description is nowhere. `SoleInv`:
unless it is marked, one handler has it. `HeldInv`: unless it is marked, a text that the
form or a handler holds is not in the table, or a handler has just filed it (`Filing`)
and is about to clear the form. So a handler that is about to file holds a text that
no row has: the handler of `HeldInv` that has just filed it would be another one, which
`SoleInv` excludes.

What depends on `patient` has its own parts: `AloneInv`, one handler at a time, which
makes the form that a handler finds the one it left; `TypedInv`, every text was typed
since the form was begun; `BlockInv`, a handler that compares again holds only requests
that were open at the answer. TLC checked the invariant on the run's instance first.

Every invariant and every action property of the runs is a theorem except the one
that is false and `UrgentFallback`, which says of every state what the definitions of
`Audience` and `MayClaim` mean and is left to TLC. Only model-checked is liveness: `OverdueHandled`, `AnswerEnds` and
`ScreenEnds`. Fairness brings in `ENABLED`, and a proof of termination would be an
induction over the work a handler has left; the provers have neither. Also out of
reach are recursive operators and the library's induction theorems, which take a
predicate as a parameter. Where a proof needs induction over numbers, places of a
list or lengths, recursion is written as a function on numbers and the induction is
done by a least counterexample in a set of numbers.

## 7. What is not modelled

* Development personas (`identity.py`, `dev.py`): off in production. Under `DEV_MODE`
  they delete and change accounts too.
* The LLM client: external and stateless. Its answer is a free choice, or a
  failure, wherever it matters.
* Menus, texts, configuration, migrations and the demo data: no state whose
  consistency an interleaving could break. The schema shows up as the types of the
  modules, and the migration that `Participants` depends on is named there.
* The composition of row 16 of the plan. `PROJECT.json` lists the hazard that waits for
  it, with what keeps it from being covered.
