-------------------------- MODULE RequestLifecycle --------------------------
(***************************************************************************)
(* The life of a service request as bot/services/requests.py writes it.    *)
(*                                                                         *)
(* Every Telegram update runs as its own asyncio task with its own         *)
(* database session.  A handler first SELECTs the request and checks it,   *)
(* then awaits, then issues one conditional UPDATE (or DELETE) whose WHERE *)
(* clause is evaluated on the committed row, adds an audit event and       *)
(* commits.  The model keeps exactly that split: a Read action leaves what *)
(* the handler remembers in task[t], a Write action evaluates the WHERE    *)
(* clause on the row as it is then.  Any number of handlers may stand      *)
(* between their read and their write.                                     *)
(*                                                                         *)
(* Whether a user holds a role, is approved, is on shift, is scheduled or  *)
(* has the right category when the handler looks is left open: any user of *)
(* the role may pass those checks or fail them (a failed check is an       *)
(* update that does nothing).  The results hold however access changes.    *)
(*                                                                         *)
(* One writer of the table goes past bot/services/requests.py: reject_user *)
(* deletes an account, and the ORM takes it out of worker_id of the        *)
(* requests it had loaded, without an event.                               *)
(***************************************************************************)
EXTENDS Naturals, Sequences, FiniteSets

CONSTANTS
  RequestIds,   \* primary keys of table requests, 1..n
  Residents,    \* users whose role is resident
  Workers,      \* users whose role is worker
  Dispatchers,  \* users whose role is dispatcher
  Chairmen,     \* users whose role is administrator
  Tasks,        \* updates that can be in flight at the same time
  ReuseIds,     \* TRUE: SQLite, MAX(id) + 1; FALSE: a PostgreSQL sequence
  MaxEvents,    \* bound: no new assignment or creation past this many events
  MaxRejects,   \* bound: accounts of workers deleted, or being deleted
  NoRow,        \* the request with this id is not in the table
  NoWorker,     \* SQL NULL in worker_id
  Idle          \* no update in this slot

Users == Residents \cup Workers \cup Dispatchers \cup Chairmen
Staff == Dispatchers \cup Chairmen

(* The categories the lifecycle tells apart: plumber, electrician and      *)
(* security requests are all "ordinary".                                   *)
Categories == {"ordinary", "cleaning", "kazakhdomofon"}

Rows == [resident : Residents,
         category : Categories,
         status   : {"new", "accepted", "closed"},
         worker   : Workers \cup {NoWorker},
         approval : {"none", "pending", "approved", "rejected"},
         deferred : BOOLEAN]     \* dispatch_after lies in the future

Events == [action   : {"created", "claimed", "assigned", "reassigned",
                       "closed", "approved", "rejected", "deleted"},
           actor    : Users,
           worker   : Workers \cup {NoWorker},
           previous : Workers \cup {NoWorker}]

(* What a handler remembers between its SELECT and its UPDATE.             *)
Pending == [op       : {"claim", "close", "assign", "approve", "reject", "delete"},
            actor    : Users,
            id       : RequestIds,
            worker   : Workers \cup {NoWorker},
            previous : Workers \cup {NoWorker}]

(* A reject_user between its SELECT of the requests and its UPDATE.        *)
Dismissals == [worker : Workers, rows : SUBSET RequestIds]

ASSUME ConstantsAssumption ==
  /\ RequestIds \subseteq Nat
  /\ ReuseIds \in BOOLEAN
  /\ {MaxEvents, MaxRejects} \subseteq Nat
  /\ NoRow \notin Rows
  /\ NoWorker \notin Workers
  /\ Idle \notin Pending

VARIABLES
  requests,  \* table requests
  log,       \* table request_events: for every request id, in commit order
  task,      \* the updates in flight
  leaving,   \* the calls of reject_user in flight
  gone       \* workers whose account was deleted, so far

vars == <<requests, log, task, leaving, gone>>
accounts == <<leaving, gone>>

Init ==
  /\ requests = [i \in RequestIds |-> NoRow]
  /\ log = [i \in RequestIds |-> <<>>]
  /\ task = [t \in Tasks |-> Idle]
  /\ leaving = {} /\ gone = {}

-----------------------------------------------------------------------------
(* Helpers.                                                                *)

Exists(i) == requests[i] # NoRow

(* The id an INSERT gets.                                                  *)
FreshId(i) ==
  IF ReuseIds
  THEN \A j \in RequestIds :
         IF j < i THEN j + 1 = i => Exists(j) ELSE ~Exists(j)
  ELSE \A j \in RequestIds :
         IF j < i THEN j + 1 = i => log[j] # <<>> ELSE log[j] = <<>>

(* is_worker_ready: approved if it needs approval, and past its deferral.  *)
Ready(r) == r.approval \in {"none", "approved"} /\ ~r.deferred

Event(action, actor, worker, previous) ==
  [action |-> action, actor |-> actor, worker |-> worker, previous |-> previous]

Record(i, e) == log' = [log EXCEPT ![i] = Append(@, e)]

(* PostgreSQL checks the foreign keys to users and gives no id again; on   *)
(* SQLite the id of a deleted account may be that of a new one.            *)
Known(u) == ReuseIds \/ u \notin gone

Begin(t, op, actor, i, worker, previous) ==
  /\ task[t] = Idle
  /\ Known(actor) /\ Known(worker)
  /\ task' = [task EXCEPT ![t] = [op |-> op, actor |-> actor, id |-> i,
                                  worker |-> worker, previous |-> previous]]
  /\ UNCHANGED <<requests, log, accounts>>

Finish(t) == task' = [task EXCEPT ![t] = Idle]

(* The conditional UPDATE of task t: when the row still satisfies where    *)
(* (rowcount 1) it becomes row and e is recorded; otherwise nothing is     *)
(* written and the user is told so.  Naming a deleted account raises.      *)
UpdateWhere(t, where, row, e) ==
  /\ Finish(t) /\ UNCHANGED accounts
  /\ IF where /\ Known(task[t].actor) /\ Known(task[t].worker)
     THEN /\ requests' = [requests EXCEPT ![task[t].id] = row]
          /\ Record(task[t].id, e)
     ELSE UNCHANGED <<requests, log>>

-----------------------------------------------------------------------------
(* create_request: one INSERT, no earlier read.                            *)
Create(i, resident, category, deferred) ==
  /\ FreshId(i)
  /\ Len(log[i]) < MaxEvents
  /\ deferred => category = "cleaning"
  /\ requests' = [requests EXCEPT ![i] =
       [resident |-> resident,
        category |-> category,
        status   |-> "new",
        worker   |-> NoWorker,
        approval |-> IF category = "kazakhdomofon" THEN "pending" ELSE "none",
        deferred |-> deferred]]
  /\ Record(i, Event("created", resident, NoWorker, NoWorker))
  /\ UNCHANGED <<task, accounts>>

(* The clock passes dispatch_after.                                        *)
DispatchTime(i) ==
  /\ Exists(i)
  /\ requests[i].deferred
  /\ requests' = [requests EXCEPT ![i].deferred = FALSE]
  /\ UNCHANGED <<log, task, accounts>>

-----------------------------------------------------------------------------
(* claim_request.                                                          *)
ReadForClaim(t, w, i) ==
  /\ Exists(i)
  /\ requests[i].status = "new"
  /\ Ready(requests[i])
  /\ Begin(t, "claim", w, i, w, NoWorker)

(* A faulty claim_request: its UPDATE does not test the status again.      *)
UnconditionalClaim(t) ==
  LET p == task[t]  r == requests[p.id] IN
  /\ p # Idle /\ p.op = "claim"
  /\ UpdateWhere(t,
       Exists(p.id),
       [r EXCEPT !.status = "accepted", !.worker = p.actor],
       Event("claimed", p.actor, p.actor, NoWorker))

WriteClaim(t) ==
  LET p == task[t]  r == requests[p.id] IN
  /\ p # Idle /\ p.op = "claim"
  /\ UpdateWhere(t,
       Exists(p.id) /\ r.status = "new",
       [r EXCEPT !.status = "accepted", !.worker = p.actor],
       Event("claimed", p.actor, p.actor, NoWorker))

(* close_request: a worker completes the request he holds, a dispatcher or *)
(* the chairman any accepted one.                                          *)
ReadForClose(t, a, i) ==
  /\ Exists(i)
  /\ requests[i].status = "accepted"
  /\ IF a \in Workers THEN requests[i].worker = a ELSE a \in Staff
  /\ Begin(t, "close", a, i, NoWorker, NoWorker)

WriteClose(t) ==
  LET p == task[t]  r == requests[p.id] IN
  /\ p # Idle /\ p.op = "close"
  /\ UpdateWhere(t,
       /\ Exists(p.id)
       /\ r.status = "accepted"
       /\ p.actor \in Workers => r.worker = p.actor,
       [r EXCEPT !.status = "closed"],
       Event("closed", p.actor, NoWorker, NoWorker))

(* A faulty assign_request: it does not ask is_worker_ready.               *)
ReadForAssignUnready(t, d, w, i) ==
  /\ Exists(i)
  /\ requests[i].status \in {"new", "accepted"}
  /\ requests[i].category # "cleaning"
  /\ Len(log[i]) < MaxEvents
  /\ Begin(t, "assign", d, i, w, requests[i].worker)

(* assign_request: previous is the worker the dispatcher's read showed.    *)
ReadForAssign(t, d, w, i) ==
  /\ Exists(i)
  /\ requests[i].status \in {"new", "accepted"}
  /\ requests[i].category # "cleaning"
  /\ Ready(requests[i])
  /\ Len(log[i]) < MaxEvents
  /\ Begin(t, "assign", d, i, w, requests[i].worker)

(* A faulty assign_request that does not compare worker_id with the worker *)
(* it read.                                                                *)
AssignOverAnother(t) ==
  LET p == task[t]  r == requests[p.id] IN
  /\ p # Idle /\ p.op = "assign"
  /\ UpdateWhere(t,
       Exists(p.id) /\ r.status \in {"new", "accepted"},
       [r EXCEPT !.status = "accepted", !.worker = p.worker],
       Event(IF p.previous = NoWorker THEN "assigned" ELSE "reassigned",
             p.actor, p.worker, p.previous))

WriteAssign(t) ==
  LET p == task[t]  r == requests[p.id] IN
  /\ p # Idle /\ p.op = "assign"
  /\ UpdateWhere(t,
       /\ Exists(p.id)
       /\ r.status \in {"new", "accepted"}
       /\ r.worker = p.previous,
       [r EXCEPT !.status = "accepted", !.worker = p.worker],
       Event(IF p.previous = NoWorker THEN "assigned" ELSE "reassigned",
             p.actor, p.worker, p.previous))

-----------------------------------------------------------------------------
(* approve_request and reject_request, by the chairman.                    *)
AwaitsReview(r) ==
  r.category = "kazakhdomofon" /\ r.status = "new" /\ r.approval = "pending"

ReadForReview(t, c, i, verdict) ==
  /\ Exists(i)
  /\ AwaitsReview(requests[i])
  /\ Begin(t, verdict, c, i, NoWorker, NoWorker)

(* A faulty review: the WHERE clause compares the approval only.           *)
NotYetReviewed(i) ==
  Exists(i) /\ requests[i].approval \in {"pending", "approved"}

(* The WHERE clause does not test the category again.                      *)
StillPending(i) ==
  Exists(i) /\ requests[i].status = "new" /\ requests[i].approval = "pending"

WriteApprove(t) ==
  LET p == task[t] IN
  /\ p # Idle /\ p.op = "approve"
  /\ UpdateWhere(t, StillPending(p.id),
       [requests[p.id] EXCEPT !.approval = "approved"],
       Event("approved", p.actor, NoWorker, NoWorker))

WriteReject(t) ==
  LET p == task[t] IN
  /\ p # Idle /\ p.op = "reject"
  /\ UpdateWhere(t, StillPending(p.id),
       [requests[p.id] EXCEPT !.approval = "rejected", !.status = "closed"],
       Event("rejected", p.actor, NoWorker, NoWorker))

(* delete_request: the chairman may delete any request, a resident its own *)
(* while the read shows it new.  The DELETE has no condition but the id,   *)
(* and its rowcount is not looked at: the event is recorded either way.    *)
ReadForDelete(t, u, i) ==
  /\ Exists(i)
  /\ \/ u \in Chairmen
     \/ u = requests[i].resident /\ requests[i].status = "new"
  /\ Begin(t, "delete", u, i, NoWorker, NoWorker)

WriteDelete(t) ==
  LET p == task[t] IN
  /\ p # Idle /\ p.op = "delete"
  /\ requests' = [requests EXCEPT ![p.id] = NoRow]
  /\ Record(p.id, Event("deleted", p.actor, NoWorker, NoWorker))
  /\ Finish(t) /\ UNCHANGED accounts

(* A later check fails, the handler raises or the bot restarts: the        *)
(* session is rolled back and nothing of the update remains.               *)
Abandon(t) ==
  /\ task[t] # Idle
  /\ Finish(t)
  /\ UNCHANGED <<requests, log, accounts>>

-----------------------------------------------------------------------------
(* reject_user, of somebody who is a worker by now: session.delete loads   *)
(* his assigned_requests, whatever their status, ...                       *)
HeldBy(w) == {i \in RequestIds : Exists(i) /\ requests[i].worker = w}

ReadForRejectUser(w) ==
  /\ Known(w)
  /\ Cardinality(leaving) + Cardinality(gone) < MaxRejects
  /\ leaving' = leaving \cup {[worker |-> w, rows |-> HeldBy(w)]}
  /\ UNCHANGED <<requests, log, task, gone>>

(* ... then sets worker_id of each to NULL, whoever it names meanwhile, and*)
(* deletes the account.  That raises if the only request it loaded is gone,*)
(* on PostgreSQL also if an event or another request still refers to him.  *)
Unassigned(rows) ==
  [i \in RequestIds |-> IF i \in rows /\ Exists(i)
                        THEN [requests[i] EXCEPT !.worker = NoWorker]
                        ELSE requests[i]]

Referred(w, rows) ==
  \E i \in RequestIds :
    \/ \E n \in DOMAIN log[i] : log[i][n].actor = w
    \/ i \in HeldBy(w) \ rows

WriteRejectUser(d) ==
  /\ d.rows = {} \/ \E i \in d.rows : Exists(i)
  /\ ReuseIds \/ (d.worker \notin gone /\ ~Referred(d.worker, d.rows))
  /\ requests' = Unassigned(d.rows)
  /\ leaving' = leaving \ {d}
  /\ gone' = gone \cup {d.worker}
  /\ UNCHANGED <<log, task>>

AbandonRejectUser(d) ==
  /\ leaving' = leaving \ {d}
  /\ UNCHANGED <<requests, log, task, gone>>

-----------------------------------------------------------------------------
Write(t) ==
  \/ WriteClaim(t) \/ WriteClose(t) \/ WriteAssign(t)
  \/ WriteApprove(t) \/ WriteReject(t) \/ WriteDelete(t)

Next ==
  \/ \E i \in RequestIds, u \in Residents, c \in Categories, d \in BOOLEAN :
       Create(i, u, c, d)
  \/ \E i \in RequestIds : DispatchTime(i)
  \/ \E t \in Tasks, i \in RequestIds :
       \/ \E w \in Workers : ReadForClaim(t, w, i)
       \/ \E a \in Users : ReadForClose(t, a, i)
       \/ \E d \in Staff, w \in Workers : ReadForAssign(t, d, w, i)
       \/ \E c \in Chairmen, v \in {"approve", "reject"} : ReadForReview(t, c, i, v)
       \/ \E u \in Users : ReadForDelete(t, u, i)
  \/ \E t \in Tasks : Write(t) \/ Abandon(t)
  \/ \E w \in Workers : ReadForRejectUser(w)
  \/ \E d \in leaving : WriteRejectUser(d) \/ AbandonRejectUser(d)

Spec == Init /\ [][Next]_vars

-----------------------------------------------------------------------------
(* TypeOK: every variable stays in its type.                               *)
TypeOK ==
  /\ requests \in [RequestIds -> Rows \cup {NoRow}]
  /\ log \in [RequestIds -> Seq(Events)]
  /\ task \in [Tasks -> Pending \cup {Idle}]
  /\ leaving \subseteq Dismissals /\ gone \subseteq Workers

(* WorkerGate: a request that has a worker was released to the workers:    *)
(* approved by the chairman if it is a Kazakhdomofon request, past its     *)
(* dispatch time if it is a deferred cleaning request.  The UPDATEs of     *)
(* claim_request and assign_request test neither again (lines 95-99 and    *)
(* 188-200): the answer of an earlier SELECT has to stay true.             *)
WorkerGate ==
  \A i \in RequestIds :
    Exists(i) /\ requests[i].worker # NoWorker
      => /\ Ready(requests[i])
         /\ requests[i].category = "kazakhdomofon" => requests[i].approval = "approved"

(* HolderMatchesStatus: new and rejected requests have no worker; accepted *)
(* ones have one and a request completed by a worker keeps him, unless the *)
(* account of somebody who held it was deleted: reject_user leaves such a  *)
(* request without a worker, whatever its status (dispatcher.py:1120,      *)
(* models.py:47).                                                          *)
LostHolder(i) == \E n \in DOMAIN log[i] : log[i][n].worker \in gone

HolderMatchesStatus ==
  \A i \in RequestIds :
    Exists(i) =>
      LET r == requests[i] IN
      IF r.status = "new" \/ r.approval = "rejected"
      THEN r.worker = NoWorker
      ELSE r.worker # NoWorker \/ LostHolder(i)

-----------------------------------------------------------------------------
(* The ticket a row stands for.                                            *)
StageOf(i) ==
  LET r == requests[i] IN
  CASE ~Exists(i) -> IF log[i] = <<>> THEN "unused" ELSE "withdrawn"
    [] Exists(i) /\ r.status = "new" ->
         IF r.approval = "pending" THEN "review"
         ELSE IF r.deferred THEN "waiting" ELSE "queued"
    [] Exists(i) /\ r.status = "accepted" -> "held"
    [] Exists(i) /\ r.status = "closed" ->
         IF r.approval = "rejected" THEN "refused" ELSE "done"

TicketOf(i) == [stage  |-> StageOf(i),
                holder |-> IF Exists(i) THEN requests[i].worker ELSE NoWorker]

Tickets == [i \in RequestIds |-> TicketOf(i)]

Ticket == INSTANCE RequestSpec WITH
            Ids <- RequestIds, Holders <- Workers, Nobody <- NoWorker, tickets <- Tickets

(* ImplementsTicket: every committed step of every handler is a legal step *)
(* of the tickets, whatever it raced with; deleting a worker takes him off *)
(* several of them at once.                                                *)
ImplementsTicket == Ticket!Spec

(* ResidentsDeleteOnlyNew: a resident's delete never removes a request     *)
(* that a worker has taken (delete_request's docstring).                   *)
ResidentsDeleteOnlyNew ==
  [][\A t \in Tasks :
       WriteDelete(t) /\ task[t].actor \in Residents /\ Exists(task[t].id)
         => requests[task[t].id].status = "new"]_vars

=============================================================================
