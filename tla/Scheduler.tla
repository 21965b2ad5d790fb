------------------------------ MODULE Scheduler ------------------------------
(***************************************************************************)
(* The periodic jobs of bot/services/scheduler.py.                         *)
(*                                                                         *)
(* Each bot process runs two APScheduler jobs, one escalating overdue      *)
(* requests, one releasing deferred cleaning requests.  A run of a job is  *)
(* one database transaction: SELECT the ids, then for each id a conditional*)
(* UPDATE and, when it matched, the Telegram messages, and one COMMIT at   *)
(* the end.  Messages cannot be taken back; the UPDATEs can.  Handlers     *)
(* claim, approve and delete requests meanwhile, and several processes may *)
(* share the database.                                                     *)
(***************************************************************************)
EXTENDS Naturals, FiniteSets

CONSTANTS
  Ids,            \* requests
  EscalationJobs, \* check_escalation, one per bot process
  DispatchJobs,   \* check_deferred_dispatch, one per bot process
  Escalation,     \* ESCALATION_MINUTES
  SingleWriter,   \* TRUE: SQLite, one writer at a time; FALSE: row locks
  MaxNow,         \* bound on the clock
  MaxRollbacks,   \* bound: how often a transaction may fail by itself
  DispatchTimes,  \* when a deferred request may be due
  NoRow,          \* the request has not been filed
  Gone,           \* the request was deleted; its id is not used again
  None            \* SQL NULL, or no request

Jobs == EscalationJobs \cup DispatchJobs
Time == 0..MaxNow

Rows == [status     : {"new", "accepted"},
         approval   : {"none", "pending", "approved"},
         created    : Time,
         dispatch   : DispatchTimes \cup {None},     \* dispatch_after
         escalated  : BOOLEAN,
         dispatched : BOOLEAN]               \* dispatched_at is not null

Runs == [phase : {"idle", "pick", "update", "queued", "workers", "dispatchers"},
         at    : Time,                       \* utc_now() when the run began
         todo  : SUBSET Ids,                 \* selected and not handled yet
         cur   : Ids \cup {None},
         wrote : SUBSET Ids]                 \* updated, not committed: locked

ASSUME SchedulerAssumption ==
  /\ EscalationJobs \cap DispatchJobs = {}
  /\ Escalation \in Nat /\ MaxNow \in Nat /\ MaxRollbacks \in Nat
  /\ SingleWriter \in BOOLEAN
  /\ DispatchTimes \subseteq Nat
  /\ NoRow \notin Rows /\ Gone \notin Rows /\ NoRow # Gone
  /\ None \notin Ids /\ None \notin Nat

VARIABLES
  now,        \* the clock, in minutes
  rows,       \* table requests, as committed
  run,        \* the run of every job
  rounds,     \* rounds[i][audience]: rounds of messages tried about request i
  rollbacks   \* failed runs so far

vars == <<now, rows, run, rounds, rollbacks>>

Audiences == {"workers", "dispatchers", "released"}
IdleRun == [phase |-> "idle", at |-> 0, todo |-> {}, cur |-> None, wrote |-> {}]

Init ==
  /\ now = 0
  /\ rows = [i \in Ids |-> NoRow]
  /\ run = [j \in Jobs |-> IdleRun]
  /\ rounds = [i \in Ids |-> [a \in Audiences |-> 0]]
  /\ rollbacks = 0

-----------------------------------------------------------------------------
(* Helpers.                                                                *)

Exists(i) == rows[i] \notin {NoRow, Gone}

(* Approved if it needs approval.                                          *)
Cleared(r) == r.approval \in {"none", "approved"}

(* The conditions of the two SELECTs, at the instant the run began; the    *)
(* escalation cutoff is ESCALATION_MINUTES before that instant.            *)
OldEnough(r, at) == r.created + Escalation <= at
WaitOver(r, at)  == r.dispatch # None => r.dispatch + Escalation <= at
DispatchDue(r, at) == r.dispatch # None /\ r.dispatch <= at

(* The WHERE clauses of the two UPDATEs.                                   *)
EscalateAnyStatus(i, at) ==   \* faulty: without the test of the status
  /\ Exists(i)
  /\ ~rows[i].escalated
  /\ Cleared(rows[i]) /\ WaitOver(rows[i], at)

MayEscalate(i, at) ==
  /\ Exists(i)
  /\ rows[i].status = "new" /\ ~rows[i].escalated
  /\ Cleared(rows[i]) /\ WaitOver(rows[i], at)

MayDispatch(i, at) ==
  /\ Exists(i)
  /\ rows[i].status = "new" /\ ~rows[i].dispatched
  /\ DispatchDue(rows[i], at)

(* A faulty SELECT that looks at the requests of the last interval only.   *)
SelectedJustNow(j) ==
  IF j \in EscalationJobs
  THEN {i \in Ids : MayEscalate(i, now) /\ rows[i].created + Escalation = now}
  ELSE {i \in Ids : MayDispatch(i, now)}

Selected(j) ==
  IF j \in EscalationJobs
  THEN {i \in Ids : MayEscalate(i, now) /\ OldEnough(rows[i], now)}
  ELSE {i \in Ids : MayDispatch(i, now)}

(* A faulty UPDATE that trusts the SELECT for all but the status.          *)
MatchesStatus(j, i) == Exists(i) /\ rows[i].status = "new"

Matches(j, i) ==
  IF j \in EscalationJobs THEN MayEscalate(i, run[j].at) ELSE MayDispatch(i, run[j].at)

(* Who else may write row i now: nobody while a run that wrote it (on      *)
(* SQLite, a run that wrote anything) has not committed.                   *)
Holds(j, i) == IF SingleWriter THEN run[j].wrote # {} ELSE i \in run[j].wrote
Locked(i) == \E j \in Jobs : Holds(j, i)
LockedFor(j, i) == \E k \in Jobs \ {j} : Holds(k, i)

(* A round of messages is over.  Whom it reached is not known to the job:  *)
(* _send turns every failure into False, the job drops the DeliveryReport, *)
(* and notify_workers may find nobody to write to.  A round that is cut off*)
(* by an exception is a Fail.                                              *)
SendRound(i, audience) == rounds' = [rounds EXCEPT ![i][audience] = @ + 1]

-----------------------------------------------------------------------------
(* The handlers, and time.                                                 *)

(* A resident files a request: ordinary, deferred cleaning or needing the  *)
(* chairman's approval.                                                    *)
File(i, approval, dispatch) ==
  /\ rows[i] = NoRow
  /\ dispatch # None => approval = "none" /\ dispatch > now
  /\ rows' = [rows EXCEPT ![i] =
       [status |-> "new", approval |-> approval, created |-> now,
        dispatch |-> dispatch, escalated |-> FALSE, dispatched |-> FALSE]]
  /\ UNCHANGED <<now, run, rounds, rollbacks>>

(* Deferred no longer, or never.                                           *)
Released(i) == rows[i].dispatch # None => rows[i].dispatch <= now

(* A faulty claim that does not look at dispatch_after.                    *)
AcceptDeferred(i) ==
  /\ Exists(i) /\ ~Locked(i)
  /\ rows[i].status = "new" /\ Cleared(rows[i])
  /\ rows' = [rows EXCEPT ![i].status = "accepted"]
  /\ UNCHANGED <<now, run, rounds, rollbacks>>

(* claim_request (or assign_request): waits for the row.                   *)
Accept(i) ==
  /\ Exists(i) /\ ~Locked(i)
  /\ rows[i].status = "new" /\ Cleared(rows[i]) /\ Released(i)
  /\ rows' = [rows EXCEPT ![i].status = "accepted"]
  /\ UNCHANGED <<now, run, rounds, rollbacks>>

(* approve_request.                                                        *)
Approve(i) ==
  /\ Exists(i) /\ ~Locked(i)
  /\ rows[i].status = "new" /\ rows[i].approval = "pending"
  /\ rows' = [rows EXCEPT ![i].approval = "approved"]
  /\ UNCHANGED <<now, run, rounds, rollbacks>>

(* delete_request.                                                         *)
Delete(i) ==
  /\ Exists(i) /\ ~Locked(i)
  /\ rows' = [rows EXCEPT ![i] = Gone]
  /\ UNCHANGED <<now, run, rounds, rollbacks>>

Tick ==
  /\ now < MaxNow
  /\ now' = now + 1
  /\ UNCHANGED <<rows, run, rounds, rollbacks>>

-----------------------------------------------------------------------------
(* A run of a job.                                                         *)

(* APScheduler starts the job; max_instances=1 keeps one run per process.  *)
Start(j) ==
  /\ run[j].phase = "idle"
  /\ Selected(j) # {}                    \* otherwise the run changes nothing
  /\ run' = [run EXCEPT ![j] =
       [phase |-> "pick", at |-> now, todo |-> Selected(j), cur |-> None, wrote |-> {}]]
  /\ UNCHANGED <<now, rows, rounds, rollbacks>>

(* The loop takes the ids in the order of the SELECT, which has no ORDER BY*)
Pick(j) ==
  /\ run[j].phase = "pick"
  /\ \E i \in run[j].todo :
       run' = [run EXCEPT ![j].phase = "update", ![j].cur = i, ![j].todo = @ \ {i}]
  /\ UNCHANGED <<now, rows, rounds, rollbacks>>

(* The conditional UPDATE waits for the lock and then sees the row as      *)
(* committed.  PostgreSQL gives a row lock to the runs that wait for it    *)
(* before a new one; SQLite's waiters poll.                                *)
Queue(j) ==
  /\ run[j].phase = "update"
  /\ LockedFor(j, run[j].cur)
  /\ run' = [run EXCEPT ![j].phase = "queued"]
  /\ UNCHANGED <<now, rows, rounds, rollbacks>>

Written(j, r) ==
  IF j \in EscalationJobs THEN [r EXCEPT !.escalated = TRUE]
                          ELSE [r EXCEPT !.dispatched = TRUE]

(* A faulty job that commits every UPDATE before it sends the messages.    *)
UpdateAndCommit(j) ==
  /\ run[j].phase \in {"update", "queued"}
  /\ ~LockedFor(j, run[j].cur)
  /\ IF Matches(j, run[j].cur)
     THEN /\ run' = [run EXCEPT ![j].phase = "workers"]
          /\ rows' = [rows EXCEPT ![run[j].cur] = Written(j, @)]
     ELSE /\ run' = [run EXCEPT ![j].phase = "pick", ![j].cur = None]
          /\ UNCHANGED rows
  /\ UNCHANGED <<now, rounds, rollbacks>>

Update(j) ==
  /\ run[j].phase \in {"update", "queued"}
  /\ ~LockedFor(j, run[j].cur)
  /\ run[j].phase = "update" /\ ~SingleWriter
       => \A k \in Jobs \ {j} : ~(run[k].phase = "queued" /\ run[k].cur = run[j].cur)
  /\ IF Matches(j, run[j].cur)
     THEN run' = [run EXCEPT ![j].phase = "workers", ![j].wrote = @ \cup {run[j].cur}]
     ELSE run' = [run EXCEPT ![j].phase = "pick", ![j].cur = None]
  /\ UNCHANGED <<now, rows, rounds, rollbacks>>

(* notify_workers_force of an escalation, notify_workers of a dispatch.    *)
TellWorkers(j) ==
  /\ run[j].phase = "workers"
  /\ IF j \in EscalationJobs
     THEN /\ SendRound(run[j].cur, "workers")
          /\ run' = [run EXCEPT ![j].phase = "dispatchers"]
     ELSE /\ SendRound(run[j].cur, "released")
          /\ run' = [run EXCEPT ![j].phase = "pick", ![j].cur = None]
  /\ UNCHANGED <<now, rows, rollbacks>>

TellDispatchers(j) ==
  /\ run[j].phase = "dispatchers"
  /\ SendRound(run[j].cur, "dispatchers")
  /\ run' = [run EXCEPT ![j].phase = "pick", ![j].cur = None]
  /\ UNCHANGED <<now, rows, rollbacks>>

Commit(j) ==
  /\ run[j].phase = "pick" /\ run[j].todo = {}
  /\ rows' = [i \in Ids |-> IF i \in run[j].wrote THEN Written(j, rows[i]) ELSE rows[i]]
  /\ run' = [run EXCEPT ![j] = IdleRun]
  /\ UNCHANGED <<now, rounds, rollbacks>>

Rollback(j) ==
  /\ run' = [run EXCEPT ![j] = IdleRun]
  /\ rollbacks' = rollbacks + 1
  /\ UNCHANGED <<now, rows, rounds>>

(* A statement, the LLM cache or the COMMIT fails, or the process dies.    *)
Fail(j) ==
  /\ run[j].phase # "idle"
  /\ rollbacks < MaxRollbacks
  /\ Rollback(j)

(* PostgreSQL aborts one run of a cycle of runs that wait for each other.  *)
WaitsFor(j, k) == j # k /\ run[j].phase = "queued" /\ Holds(k, run[j].cur)

DeadlockVictim(j) ==
  /\ \E S \in SUBSET Jobs :
       /\ j \in S
       /\ \A a \in S : (\E b \in S : WaitsFor(a, b)) /\ (\E b \in S : WaitsFor(b, a))
  /\ Rollback(j)

-----------------------------------------------------------------------------
JobStep(j) ==
  Pick(j) \/ Queue(j) \/ Update(j) \/ TellWorkers(j) \/ TellDispatchers(j) \/ Commit(j)

Next ==
  \/ Tick
  \/ \E i \in Ids :
       \/ \E a \in {"none", "pending"}, d \in DispatchTimes \cup {None} : File(i, a, d)
       \/ Accept(i) \/ Approve(i) \/ Delete(i)
  \/ \E j \in Jobs : Start(j) \/ JobStep(j) \/ Fail(j) \/ DeadlockVictim(j)

(* The interval trigger keeps starting the jobs, a started run goes on, and*)
(* the database resolves its deadlocks.  Nobody is forced to do anything.  *)
Fairness ==
  \A j \in Jobs :
    WF_vars(Start(j)) /\ WF_vars(JobStep(j)) /\ WF_vars(DeadlockVictim(j))

Spec == Init /\ [][Next]_vars
FairSpec == Spec /\ Fairness

-----------------------------------------------------------------------------
(* TypeOK: types, and a run has a current request exactly while it works on*)
(* one, which it will not meet again.                                      *)
TypeOK ==
  /\ now \in Time
  /\ rows \in [Ids -> Rows \cup {NoRow, Gone}]
  /\ run \in [Jobs -> Runs]
  /\ rounds \in [Ids -> [Audiences -> Nat]]
  /\ rollbacks \in Nat
  /\ \A j \in Jobs :
       /\ (run[j].cur = None) <=> run[j].phase \in {"idle", "pick"}
       /\ run[j].cur \notin run[j].todo

(* PagedWhileWaiting: workers and dispatchers are only ever paged about a  *)
(* request that is still waiting: not accepted, not deleted, cleared,      *)
(* released, and not escalated (or dispatched) by another run before.  The *)
(* check was made by an earlier UPDATE, against the clock of the start of  *)
(* the run; its lock has to keep it true until COMMIT.                     *)
PagedWhileWaiting ==
  \A j \in Jobs : run[j].phase \in {"workers", "dispatchers"} =>
    LET i == run[j].cur IN
    /\ Exists(i) /\ rows[i].status = "new" /\ Cleared(rows[i]) /\ Released(i)
    /\ IF j \in EscalationJobs THEN ~rows[i].escalated ELSE ~rows[i].dispatched

(* TriedBeforeCommitted: the mark that stops further attempts is committed *)
(* only after an attempt was carried through: a request marked escalated   *)
(* went through the sends to the workers and to the dispatchers, one marked*)
(* dispatched through those to the workers, whatever failed on the way.    *)
(* That anybody was reached is not said, and is false: the sends may all   *)
(* have failed (notify.py:36-58), and a normal request released while      *)
(* nobody is on duty has no recipients (notify.py:90-105); it is marked    *)
(* dispatched all the same, and waits for its escalation.                  *)
TriedBeforeCommitted ==
  \A i \in Ids : Exists(i) =>
    /\ rows[i].escalated => rounds[i].workers > 0 /\ rounds[i].dispatchers > 0
    /\ rows[i].dispatched => rounds[i].released > 0

(* RepeatsOnlyAfterRollback: with every run that fails at most one more    *)
(* round of messages is sent, whatever processes overlap.                  *)
RepeatsOnlyAfterRollback ==
  \A i \in Ids, a \in Audiences : rounds[i][a] <= 1 + rollbacks

(* The ticket a row stands for.  Who holds it is not modelled here, and    *)
(* time moves many tickets at once: each is a specification of its own.    *)
StageOf(i) ==
  CASE rows[i] = NoRow -> "unused"
    [] rows[i] = Gone  -> "withdrawn"
    [] Exists(i) /\ rows[i].status = "accepted" -> "held"
    [] Exists(i) /\ rows[i].status = "new" ->
         IF ~Cleared(rows[i]) THEN "review"
         ELSE IF Released(i) THEN "queued" ELSE "waiting"

TicketOf(i) == [stage  |-> StageOf(i),
                holder |-> IF StageOf(i) = "held" THEN "worker" ELSE "nobody"]

Ticket(i) == INSTANCE RequestSpec WITH
               Ids <- {i}, Holders <- {"worker"}, Nobody <- "nobody",
               tickets <- [k \in {i} |-> TicketOf(k)]

(* EveryTicket: the clock, the jobs and the handlers together move every   *)
(* request along the path of the abstract ticket: a job that commits late  *)
(* undoes nothing, and only time lets a deferred request into the queue.   *)
EveryTicket ==
  [][\A i \in Ids : Ticket(i)!Next \/ UNCHANGED TicketOf(i)]_vars

(* OverdueHandled: an overdue request that waits for a worker is escalated,*)
(* or taken, or deleted.                                                   *)
Overdue(i) == MayEscalate(i, now) /\ OldEnough(rows[i], now)
OverdueHandled ==
  \A i \in Ids : Overdue(i) ~> ~(Exists(i) /\ rows[i].status = "new" /\ ~rows[i].escalated)

(* EscalatedOnce: "Claim and notify overdue requests once ... The          *)
(* conditional UPDATE is the idempotency boundary".  It does not hold: a   *)
(* deadlock or a failure after the messages rolls the mark back.           *)
EscalatedOnce == \A i \in Ids : rounds[i].workers <= 1

=============================================================================
