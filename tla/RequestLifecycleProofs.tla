----------------------- MODULE RequestLifecycleProofs -----------------------
(***************************************************************************)
(* Theorems about RequestLifecycle for every set of users, ids and tasks.  *)
(***************************************************************************)
EXTENDS RequestAudit, SequenceTheorems, WellFoundedInduction, TLAPS

(* Who acts in which kind of update.                                       *)
ActorsOK ==
  \A t \in Tasks :
    task[t] # Idle =>
      /\ task[t].op = "claim" => task[t].actor \in Workers
      /\ task[t].op = "assign" => task[t].worker \in Workers

TypeInv == TypeOK /\ ActorsOK

(* An event appended to a log of events leaves a non-empty log of events.  *)
LEMMA AppendEvent ==
  ASSUME NEW s \in Seq(Events), NEW e \in Events
  PROVE  Append(s, e) \in Seq(Events) /\ Append(s, e) # <<>>
BY AppendProperties, EmptySeq

(* The types hold in the empty database.                                   *)
LEMMA TypeInit == Init => TypeInv
BY EmptySeq DEF Init, TypeInv, TypeOK, ActorsOK

(* A row written by UpdateWhere is a row, and an event is an event.        *)
LEMMA UpdateWhereType ==
  ASSUME TypeInv, NEW t \in Tasks, task[t] # Idle,
         NEW where, NEW row, NEW e,
         where => row \in Rows, e \in Events,
         UpdateWhere(t, where, row, e)
  PROVE  TypeInv'
<1>1. task[t] \in Pending /\ task[t].id \in RequestIds
  BY DEF TypeInv, TypeOK, Pending
<1>2. task' \in [Tasks -> Pending \cup {Idle}] /\ ActorsOK'
  BY DEF TypeInv, TypeOK, ActorsOK, UpdateWhere, Finish
<1> DEFINE written == where /\ Known(task[t].actor) /\ Known(task[t].worker)
<1>3. CASE written
  <2>1. requests' \in [RequestIds -> Rows \cup {NoRow}]
    BY <1>1, <1>3 DEF TypeInv, TypeOK, UpdateWhere
  <2>2. log' \in [RequestIds -> Seq(Events)]
    <3>1. log[task[t].id] \in Seq(Events)
      BY <1>1 DEF TypeInv, TypeOK
    <3>2. Append(log[task[t].id], e) \in Seq(Events)
      BY <3>1, AppendEvent
    <3>3. QED BY <1>1, <1>3, <3>2 DEF TypeInv, TypeOK, UpdateWhere, Record
  <2>3. QED BY <2>1, <2>2, <1>2 DEF TypeInv, TypeOK, UpdateWhere, accounts
<1>4. CASE ~written
  BY <1>2, <1>4 DEF TypeInv, TypeOK, UpdateWhere, accounts
<1>5. QED BY <1>3, <1>4

(* Starting a handler records a well-typed update.                         *)
LEMMA BeginType ==
  ASSUME TypeInv, NEW t \in Tasks, NEW op, NEW actor, NEW i, NEW w, NEW previous,
         [op |-> op, actor |-> actor, id |-> i, worker |-> w, previous |-> previous]
           \in Pending,
         op = "claim" => actor \in Workers,
         op = "assign" => w \in Workers,
         Begin(t, op, actor, i, w, previous)
  PROVE  TypeInv'
BY DEF TypeInv, TypeOK, ActorsOK, Begin, accounts

(* Every step keeps the types.                                             *)
LEMMA TypeStep == TypeInv /\ [Next]_vars => TypeInv'
<1> SUFFICES ASSUME TypeInv, [Next]_vars PROVE TypeInv'
  OBVIOUS
<1>1. ASSUME NEW i \in RequestIds, NEW u \in Residents, NEW c \in Categories,
             NEW d \in BOOLEAN, Create(i, u, c, d)
      PROVE  TypeInv'
  <2>1. Event("created", u, NoWorker, NoWorker) \in Events
    BY DEF Event, Events, Users
  <2>2. log' \in [RequestIds -> Seq(Events)]
    BY <1>1, <2>1, AppendEvent DEF TypeInv, TypeOK, Create, Record
  <2>3. requests' \in [RequestIds -> Rows \cup {NoRow}]
    BY <1>1 DEF TypeInv, TypeOK, Create, Rows
  <2>4. QED BY <1>1, <2>2, <2>3 DEF TypeInv, TypeOK, ActorsOK, Create, accounts
<1>2. ASSUME NEW i \in RequestIds, DispatchTime(i)
      PROVE  TypeInv'
  <2>1. requests' \in [RequestIds -> Rows \cup {NoRow}]
    BY <1>2 DEF TypeInv, TypeOK, DispatchTime, Exists, Rows
  <2>2. QED BY <1>2, <2>1 DEF TypeInv, TypeOK, ActorsOK, DispatchTime, accounts
<1>3. /\ \A t \in Tasks, i \in RequestIds, w \in Workers : ReadForClaim(t, w, i) => TypeInv'
      /\ \A t \in Tasks, i \in RequestIds, a \in Users : ReadForClose(t, a, i) => TypeInv'
  BY BeginType DEF ReadForClaim, ReadForClose, Pending, Users
<1>4. ASSUME NEW t \in Tasks, NEW i \in RequestIds, NEW d \in Staff, NEW w \in Workers,
             ReadForAssign(t, d, w, i)
      PROVE  TypeInv'
  <2>1. requests[i].worker \in Workers \cup {NoWorker}
    BY <1>4 DEF ReadForAssign, TypeInv, TypeOK, Exists, Rows
  <2>2. QED BY <1>4, <2>1, BeginType DEF ReadForAssign, Pending, Users, Staff
<1>5. ASSUME NEW t \in Tasks, NEW i \in RequestIds, NEW c \in Chairmen,
             NEW v \in {"approve", "reject"}, ReadForReview(t, c, i, v)
      PROVE  TypeInv'
  BY <1>5, BeginType DEF ReadForReview, Pending, Users
<1>6. ASSUME NEW t \in Tasks, NEW i \in RequestIds, NEW u \in Users, ReadForDelete(t, u, i)
      PROVE  TypeInv'
  BY <1>6, BeginType DEF ReadForDelete, Pending
<1>7. ASSUME NEW t \in Tasks, Write(t)
      PROVE  TypeInv'
  <2> DEFINE p == task[t]
             r == requests[p.id]
  <2>1. p # Idle
    BY <1>7 DEF Write, WriteClaim, WriteClose, WriteAssign, WriteApprove, WriteReject, WriteDelete
  <2>2. /\ p \in Pending /\ p.id \in RequestIds /\ p.actor \in Users
        /\ p.worker \in Workers \cup {NoWorker} /\ p.previous \in Workers \cup {NoWorker}
        /\ p.op = "claim" => p.actor \in Workers
        /\ p.op = "assign" => p.worker \in Workers
    BY <2>1 DEF TypeInv, TypeOK, ActorsOK, Pending
  <2>3. Exists(p.id) => r \in Rows
    BY <2>2 DEF TypeInv, TypeOK, Exists
  <2>4. CASE WriteClaim(t)
    <3>1. Event("claimed", p.actor, p.actor, NoWorker) \in Events
      BY <2>2, <2>4 DEF Event, Events, WriteClaim
    <3>2. Exists(p.id) => [r EXCEPT !.status = "accepted", !.worker = p.actor] \in Rows
      BY <2>2, <2>3, <2>4 DEF Rows, WriteClaim
    <3>3. QED BY <2>1, <2>4, <3>1, <3>2, UpdateWhereType DEF WriteClaim
  <2>5. CASE WriteClose(t)
    <3>1. Event("closed", p.actor, NoWorker, NoWorker) \in Events
      BY <2>2, <2>5 DEF Event, Events, WriteClose
    <3>2. Exists(p.id) => [r EXCEPT !.status = "closed"] \in Rows
      BY <2>3 DEF Rows
    <3>3. QED BY <2>1, <2>5, <3>1, <3>2, UpdateWhereType DEF WriteClose
  <2>6. CASE WriteAssign(t)
    <3>1. Event(IF p.previous = NoWorker THEN "assigned" ELSE "reassigned",
                p.actor, p.worker, p.previous) \in Events
      BY <2>2 DEF Event, Events
    <3>2. Exists(p.id) => [r EXCEPT !.status = "accepted", !.worker = p.worker] \in Rows
      BY <2>2, <2>3 DEF Rows
    <3>3. QED BY <2>1, <2>6, <3>1, <3>2, UpdateWhereType DEF WriteAssign
  <2>7. CASE WriteApprove(t)
    <3>1. Event("approved", p.actor, NoWorker, NoWorker) \in Events
      BY <2>2 DEF Event, Events
    <3>2. StillPending(p.id) => [r EXCEPT !.approval = "approved"] \in Rows
      BY <2>3 DEF Rows, StillPending
    <3>3. QED BY <2>1, <2>7, <3>1, <3>2, UpdateWhereType DEF WriteApprove
  <2>8. CASE WriteReject(t)
    <3>1. Event("rejected", p.actor, NoWorker, NoWorker) \in Events
      BY <2>2 DEF Event, Events
    <3>2. StillPending(p.id) => [r EXCEPT !.approval = "rejected", !.status = "closed"] \in Rows
      BY <2>3 DEF Rows, StillPending
    <3>3. QED BY <2>1, <2>8, <3>1, <3>2, UpdateWhereType DEF WriteReject
  <2>9. CASE WriteDelete(t)
    <3>1. Event("deleted", p.actor, NoWorker, NoWorker) \in Events
      BY <2>2 DEF Event, Events
    <3>2. log' \in [RequestIds -> Seq(Events)]
      BY <2>2, <2>9, <3>1, AppendEvent DEF TypeInv, TypeOK, WriteDelete, Record
    <3>3. requests' \in [RequestIds -> Rows \cup {NoRow}]
      BY <2>2, <2>9 DEF TypeInv, TypeOK, WriteDelete
    <3>4. QED
      BY <2>9, <3>2, <3>3 DEF TypeInv, TypeOK, ActorsOK, WriteDelete, Finish, accounts
  <2>10. QED BY <1>7, <2>4, <2>5, <2>6, <2>7, <2>8, <2>9 DEF Write
<1>8. ASSUME NEW t \in Tasks, Abandon(t)
      PROVE  TypeInv'
  BY <1>8 DEF TypeInv, TypeOK, ActorsOK, Abandon, Finish, accounts
<1>9. CASE UNCHANGED vars
  BY <1>9 DEF vars, TypeInv, TypeOK, ActorsOK
<1>10. ASSUME NEW w \in Workers, ReadForRejectUser(w)
       PROVE  TypeInv'
  <2>1. [worker |-> w, rows |-> HeldBy(w)] \in Dismissals
    BY DEF Dismissals, HeldBy
  <2>2. QED BY <1>10, <2>1 DEF ReadForRejectUser, TypeInv, TypeOK, ActorsOK
<1>11. ASSUME NEW d \in leaving, WriteRejectUser(d)
       PROVE  TypeInv'
  <2>1. d.worker \in Workers /\ d.rows \subseteq RequestIds
    BY DEF TypeInv, TypeOK, Dismissals
  <2>2. requests' \in [RequestIds -> Rows \cup {NoRow}]
    <3>1. \A r \in Rows : [r EXCEPT !.worker = NoWorker] \in Rows
      BY DEF Rows
    <3>2. QED
      BY <1>11, <3>1 DEF WriteRejectUser, Unassigned, Exists, TypeInv, TypeOK
  <2>3. QED BY <1>11, <2>1, <2>2 DEF WriteRejectUser, TypeInv, TypeOK, ActorsOK
<1>12. ASSUME NEW d \in leaving, AbandonRejectUser(d)
       PROVE  TypeInv'
  BY <1>12 DEF AbandonRejectUser, TypeInv, TypeOK, ActorsOK
<1>13. QED
  BY <1>1, <1>2, <1>3, <1>4, <1>5, <1>6, <1>7, <1>8, <1>9, <1>10, <1>11, <1>12 DEF Next

(* Every reachable state is typed, whichever database assigns the ids.     *)
THEOREM TypeCorrect == Spec => []TypeOK
<1>1. TypeInv => TypeOK
  BY DEF TypeInv
<1>2. QED BY TypeInit, TypeStep, <1>1, PTL DEF Spec

-----------------------------------------------------------------------------
(***************************************************************************)
(* What a step does to one row, field by field.  The actions are expanded  *)
(* once, in StepEffect; everything below argues about effects.             *)
(***************************************************************************)
Kept(i) == requests'[i] = requests[i] /\ log'[i] = log[i]

Extended(i) == \E e \in Events : log'[i] = Append(log[i], e)

SameNature(q, r) == q.category = r.category /\ q.deferred = r.deferred

Created(i) ==
  /\ FreshId(i) /\ requests'[i] \in Rows
  /\ requests'[i].status = "new" /\ requests'[i].worker = NoWorker
  /\ requests'[i].deferred => requests'[i].category = "cleaning"
  /\ requests'[i].approval = IF requests'[i].category = "kazakhdomofon"
                             THEN "pending" ELSE "none"

Released(i) ==
  LET r == requests[i]  q == requests'[i] IN
  /\ r \in Rows /\ q \in Rows /\ r.deferred /\ ~q.deferred
  /\ q.category = r.category /\ q.status = r.status /\ q.worker = r.worker
  /\ q.approval = r.approval /\ log'[i] = log[i]

(* A worker gets the request, through the update of task t.                *)
Handed(i, t) ==
  LET r == requests[i]  q == requests'[i] IN
  /\ r \in Rows /\ q \in Rows /\ SameNature(q, r)
  /\ task[t] # Idle /\ task[t].id = i /\ task[t].op \in {"claim", "assign"}
  /\ r.status \in {"new", "accepted"}
  /\ q.status = "accepted" /\ q.worker \in Workers /\ q.approval = r.approval
  /\ \E e \in Events : log'[i] = Append(log[i], e) /\ e.worker = q.worker

Completed(i) ==
  LET r == requests[i]  q == requests'[i] IN
  /\ r \in Rows /\ q \in Rows /\ SameNature(q, r)
  /\ r.status = "accepted" /\ q.status = "closed"
  /\ q.worker = r.worker /\ q.approval = r.approval

Reviewed(i) ==
  LET r == requests[i]  q == requests'[i] IN
  /\ r \in Rows /\ q \in Rows /\ SameNature(q, r)
  /\ r.status = "new" /\ r.approval = "pending" /\ q.worker = r.worker
  /\ \/ q.approval = "approved" /\ q.status = "new"
     \/ q.approval = "rejected" /\ q.status = "closed"

Removed(i) ==
  /\ requests'[i] = NoRow
  /\ \E t \in Tasks : task[t] # Idle /\ task[t].id = i

Effect(i) ==
  \/ Released(i)
  \/ /\ Extended(i)
     /\ \/ Created(i) \/ Completed(i) \/ Reviewed(i) \/ Removed(i)
        \/ \E t \in Tasks : Handed(i, t)

(* reject_user took worker_id out of some rows.                            *)
Unheld(i) ==
  LET r == requests[i]  q == requests'[i] IN
  /\ log'[i] = log[i]
  /\ \/ q = r
     \/ /\ r \in Rows /\ q \in Rows /\ SameNature(q, r)
        /\ q.status = r.status /\ q.approval = r.approval
        /\ r.worker # NoWorker /\ q.worker = NoWorker
        /\ \E d \in leaving : i \in d.rows /\ d.worker \in gone'

(* What reject_request leaves in a row.                                    *)
LEMMA TwoReviewFields ==
  ASSUME NEW r \in Rows
  PROVE  LET q == [r EXCEPT !.approval = "rejected", !.status = "closed"] IN
         /\ q \in Rows /\ SameNature(q, r) /\ q.worker = r.worker
         /\ q.status = "closed" /\ q.approval = "rejected"
BY DEF Rows, SameNature

(* A conditional UPDATE leaves every other row alone.                      *)
LEMMA UpdateWhereEffect ==
  ASSUME TypeInv, NEW t \in Tasks, task[t] # Idle,
         NEW where, NEW row, NEW e \in Events,
         UpdateWhere(t, where, row, e)
  PROVE  \/ UNCHANGED <<requests, log>>
         \/ /\ where
            /\ requests'[task[t].id] = row
            /\ log'[task[t].id] = Append(log[task[t].id], e)
            /\ \A j \in RequestIds \ {task[t].id} : Kept(j)
<1>1. task[t].id \in RequestIds
  BY DEF TypeInv, TypeOK, Pending
<1>2. CASE where /\ Known(task[t].actor) /\ Known(task[t].worker)
  BY <1>1, <1>2 DEF TypeInv, TypeOK, UpdateWhere, Record, Kept
<1>3. CASE ~(where /\ Known(task[t].actor) /\ Known(task[t].worker))
  BY <1>3 DEF UpdateWhere
<1>4. QED BY <1>2, <1>3

(* What each write does to the row of its own request.                     *)
LEMMA WriteEffect ==
  ASSUME TypeInv, NEW t \in Tasks, Write(t)
  PROVE  \/ UNCHANGED <<requests, log>>
         \/ /\ Effect(task[t].id)
            /\ \A j \in RequestIds \ {task[t].id} : Kept(j)
<1> DEFINE p == task[t]
           r == requests[p.id]
<1>1. p # Idle
  BY DEF Write, WriteClaim, WriteClose, WriteAssign, WriteApprove, WriteReject, WriteDelete
<1>2. /\ p \in Pending /\ p.id \in RequestIds /\ p.actor \in Users
      /\ p.worker \in Workers \cup {NoWorker} /\ p.previous \in Workers \cup {NoWorker}
      /\ p.op = "claim" => p.actor \in Workers
      /\ p.op = "assign" => p.worker \in Workers
  BY <1>1 DEF TypeInv, TypeOK, ActorsOK, Pending
<1>3. Exists(p.id) => r \in Rows
  BY <1>2 DEF TypeInv, TypeOK, Exists
<1>4. CASE WriteClaim(t)
  <2> DEFINE where == Exists(p.id) /\ r.status = "new"
             row == [r EXCEPT !.status = "accepted", !.worker = p.actor]
             e == Event("claimed", p.actor, p.actor, NoWorker)
  <2>1. e \in Events
    BY <1>2, <1>4 DEF Event, Events, WriteClaim
  <2>2. UpdateWhere(t, where, row, e)
    BY <1>4 DEF WriteClaim
  <2>3. \/ UNCHANGED <<requests, log>>
        \/ /\ where
           /\ requests'[p.id] = row /\ log'[p.id] = Append(log[p.id], e)
           /\ \A j \in RequestIds \ {p.id} : Kept(j)
    <3> HIDE DEF where, row, e
    <3>1. QED BY <1>1, <2>1, <2>2, UpdateWhereEffect
  <2>4. p.op = "claim"
    BY <1>4 DEF WriteClaim
  <2>5. p.actor \in Workers
    BY <1>2, <2>4
  <2>6. Exists(p.id) => /\ row \in Rows /\ SameNature(row, r)
                        /\ row.approval = r.approval
                        /\ row.status = "accepted" /\ row.worker = p.actor
    BY <1>3, <2>5 DEF SameNature, Rows
  <2>7. where => Exists(p.id) /\ r.status \in {"new", "accepted"}
    OBVIOUS
  <2>8. e.worker = row.worker \/ ~Exists(p.id)
    BY <2>6 DEF Event
  <2>9. QED
    <3> HIDE DEF where, row, e
    <3>1. QED
      BY <1>1, <1>2, <1>3, <2>1, <2>3, <2>4, <2>5, <2>6, <2>7, <2>8
      DEF Effect, Extended, Handed
<1>5. CASE WriteClose(t)
  <2> DEFINE where == /\ Exists(p.id)
                      /\ r.status = "accepted"
                      /\ p.actor \in Workers => r.worker = p.actor
             row == [r EXCEPT !.status = "closed"]
             e == Event("closed", p.actor, NoWorker, NoWorker)
  <2>1. e \in Events
    BY <1>2, <1>5 DEF Event, Events, WriteClose
  <2>2. UpdateWhere(t, where, row, e)
    BY <1>5 DEF WriteClose
  <2>3. \/ UNCHANGED <<requests, log>>
        \/ /\ where
           /\ requests'[p.id] = row /\ log'[p.id] = Append(log[p.id], e)
           /\ \A j \in RequestIds \ {p.id} : Kept(j)
    <3> HIDE DEF where, row, e
    <3>1. QED BY <1>1, <2>1, <2>2, UpdateWhereEffect
  <2>4. QED BY <1>2, <1>3, <2>1, <2>3 DEF Effect, Extended, Completed, SameNature, Rows
<1>6. CASE WriteAssign(t)
  <2> DEFINE where == /\ Exists(p.id)
                      /\ r.status \in {"new", "accepted"}
                      /\ r.worker = p.previous
             row == [r EXCEPT !.status = "accepted", !.worker = p.worker]
             e == Event(IF p.previous = NoWorker THEN "assigned" ELSE "reassigned",
                        p.actor, p.worker, p.previous)
  <2>1. e \in Events
    BY <1>2 DEF Event, Events
  <2>2. UpdateWhere(t, where, row, e)
    BY <1>6 DEF WriteAssign
  <2>3. \/ UNCHANGED <<requests, log>>
        \/ /\ where
           /\ requests'[p.id] = row /\ log'[p.id] = Append(log[p.id], e)
           /\ \A j \in RequestIds \ {p.id} : Kept(j)
    <3> HIDE DEF where, row, e
    <3>1. QED BY <1>1, <2>1, <2>2, UpdateWhereEffect
  <2>4. p.op = "assign"
    BY <1>6 DEF WriteAssign
  <2>5. p.worker \in Workers
    BY <1>2, <2>4
  <2>6. Exists(p.id) => /\ row \in Rows /\ SameNature(row, r)
                        /\ row.approval = r.approval
                        /\ row.status = "accepted" /\ row.worker = p.worker
    BY <1>3, <2>5 DEF SameNature, Rows
  <2>7. where => Exists(p.id) /\ r.status \in {"new", "accepted"}
    OBVIOUS
  <2>8. e.worker = row.worker \/ ~Exists(p.id)
    BY <2>6 DEF Event
  <2>9. QED
    <3> HIDE DEF where, row, e
    <3>1. QED
      BY <1>1, <1>2, <1>3, <2>1, <2>3, <2>4, <2>5, <2>6, <2>7, <2>8
      DEF Effect, Extended, Handed
<1>7. CASE WriteApprove(t)
  <2> DEFINE where == StillPending(p.id)
             row == [r EXCEPT !.approval = "approved"]
             e == Event("approved", p.actor, NoWorker, NoWorker)
  <2>1. e \in Events
    BY <1>2 DEF Event, Events
  <2>2. UpdateWhere(t, where, row, e)
    BY <1>7 DEF WriteApprove
  <2>3. \/ UNCHANGED <<requests, log>>
        \/ /\ where
           /\ requests'[p.id] = row /\ log'[p.id] = Append(log[p.id], e)
           /\ \A j \in RequestIds \ {p.id} : Kept(j)
    <3> HIDE DEF where, row, e
    <3>1. QED BY <1>1, <2>1, <2>2, UpdateWhereEffect
  <2>4. QED
    BY <1>2, <1>3, <2>1, <2>3
    DEF Effect, Extended, Reviewed, SameNature, Rows, StillPending
<1>8. CASE WriteReject(t)
  <2> DEFINE where == StillPending(p.id)
             row == [r EXCEPT !.approval = "rejected", !.status = "closed"]
             e == Event("rejected", p.actor, NoWorker, NoWorker)
  <2>1. e \in Events
    BY <1>2 DEF Event, Events
  <2>2. UpdateWhere(t, where, row, e)
    BY <1>8 DEF WriteReject
  <2>3. \/ UNCHANGED <<requests, log>>
        \/ /\ where
           /\ requests'[p.id] = row /\ log'[p.id] = Append(log[p.id], e)
           /\ \A j \in RequestIds \ {p.id} : Kept(j)
    <3> HIDE DEF where, row, e
    <3>1. QED BY <1>1, <2>1, <2>2, UpdateWhereEffect
  <2>4. QED
    BY <1>2, <1>3, <2>1, <2>3, TwoReviewFields
    DEF Effect, Extended, Reviewed, StillPending
<1>9. CASE WriteDelete(t)
  <2>1. Event("deleted", p.actor, NoWorker, NoWorker) \in Events
    BY <1>2 DEF Event, Events
  <2>4. Extended(p.id) /\ requests'[p.id] = NoRow
    BY <1>2, <1>9, <2>1 DEF WriteDelete, TypeInv, TypeOK, Record, Extended
  <2>5. \A j \in RequestIds \ {p.id} : Kept(j)
    BY <1>2, <1>9 DEF WriteDelete, TypeInv, TypeOK, Record, Kept
  <2>6. QED BY <1>1, <2>4, <2>5 DEF Effect, Removed
<1>10. QED BY <1>4, <1>5, <1>6, <1>7, <1>8, <1>9 DEF Write

(* What reject_user does to the rows.                                      *)
LEMMA UnheldEffect ==
  ASSUME TypeInv, NEW d \in leaving, WriteRejectUser(d), NEW i \in RequestIds
  PROVE  Unheld(i)
<1>1. requests'[i] = IF i \in d.rows /\ Exists(i)
                     THEN [requests[i] EXCEPT !.worker = NoWorker] ELSE requests[i]
  BY DEF WriteRejectUser, Unassigned
<1>2. log'[i] = log[i] /\ d.worker \in gone'
  BY DEF WriteRejectUser
<1>3. Exists(i) => requests[i] \in Rows
  BY DEF Exists, TypeInv, TypeOK
<1>4. ASSUME NEW r \in Rows
      PROVE  LET q == [r EXCEPT !.worker = NoWorker] IN
             /\ q \in Rows /\ SameNature(q, r) /\ q.status = r.status
             /\ q.approval = r.approval /\ q.worker = NoWorker
             /\ r.worker = NoWorker => q = r
  BY <1>4 DEF Rows, SameNature
<1>5. QED BY <1>1, <1>2, <1>3, <1>4 DEF Unheld

(* Every step touches at most one row, in one of the known ways, or takes  *)
(* the worker out of some.                                                 *)
LEMMA StepEffect ==
  ASSUME TypeInv, [Next]_vars
  PROVE  \/ UNCHANGED <<requests, log>>
         \/ \E i \in RequestIds :
              Effect(i) /\ \A j \in RequestIds \ {i} : Kept(j)
         \/ \A i \in RequestIds : Unheld(i)
<1>1. ASSUME NEW i \in RequestIds, NEW u \in Residents, NEW c \in Categories,
             NEW d \in BOOLEAN, Create(i, u, c, d)
      PROVE  Effect(i) /\ \A j \in RequestIds \ {i} : Kept(j)
  <2>1. Event("created", u, NoWorker, NoWorker) \in Events
    BY DEF Event, Events, Users
  <2>3. Extended(i)
    BY <1>1, <2>1 DEF TypeInv, TypeOK, Create, Record, Extended
  <2>4. Created(i)
    BY <1>1 DEF TypeInv, TypeOK, Create, Created, Rows
  <2>5. \A j \in RequestIds \ {i} : Kept(j)
    BY <1>1 DEF TypeInv, TypeOK, Create, Record, Kept
  <2>6. QED BY <2>3, <2>4, <2>5 DEF Effect
<1>2. ASSUME NEW i \in RequestIds, DispatchTime(i)
      PROVE  Effect(i) /\ \A j \in RequestIds \ {i} : Kept(j)
  <2>1. requests[i] \in Rows
    BY <1>2 DEF TypeInv, TypeOK, DispatchTime, Exists
  <2>2. Released(i)
    BY <1>2, <2>1 DEF TypeInv, TypeOK, DispatchTime, Released, Rows
  <2>3. QED BY <1>2, <2>2 DEF TypeInv, TypeOK, DispatchTime, Kept, Effect
<1>3. ASSUME NEW t \in Tasks, Write(t)
      PROVE  \/ UNCHANGED <<requests, log>>
             \/ \E i \in RequestIds :
                  Effect(i) /\ \A j \in RequestIds \ {i} : Kept(j)
  <2>1. task[t] # Idle
    BY <1>3 DEF Write, WriteClaim, WriteClose, WriteAssign, WriteApprove, WriteReject, WriteDelete
  <2>2. task[t].id \in RequestIds
    BY <2>1 DEF TypeInv, TypeOK, Pending
  <2>3. QED BY <1>3, <2>2, WriteEffect
<1>4. QED
  BY <1>1, <1>2, <1>3, UnheldEffect
  DEF Next, vars, ReadForClaim, ReadForClose, ReadForAssign, ReadForReview,
      ReadForDelete, Begin, Abandon, ReadForRejectUser, AbandonRejectUser

-----------------------------------------------------------------------------
(* Who is named in the trail of an id stays named, who is gone stays gone. *)
Named(i, w) == \E n \in DOMAIN log[i] : log[i][n].worker = w

(* An event appended to a log leaves it non-empty, and adds its worker.    *)
LEMMA ExtendedLog ==
  ASSUME NEW s \in Seq(Events), NEW e \in Events
  PROVE  /\ Append(s, e) # <<>>
         /\ \A n \in DOMAIN s : n \in DOMAIN Append(s, e) /\ Append(s, e)[n] = s[n]
         /\ \E n \in DOMAIN Append(s, e) : Append(s, e)[n] = e
<1>1. /\ Append(s, e) \in Seq(Events) /\ Append(s, e) # <<>>
      /\ Len(Append(s, e)) = Len(s) + 1
      /\ \A n \in 1..Len(s) : Append(s, e)[n] = s[n]
      /\ Append(s, e)[Len(s) + 1] = e
  BY AppendProperties, AppendEvent
<1>2. DOMAIN s = 1..Len(s) /\ DOMAIN Append(s, e) = 1..(Len(s) + 1) /\ Len(s) \in Nat
  BY <1>1, LenProperties
<1>3. QED BY <1>1, <1>2

(* No event is ever forgotten.                                             *)
LEMMA LogStays ==
  ASSUME TypeInv, [Next]_vars, NEW i \in RequestIds
  PROVE  /\ log[i] # <<>> => log'[i] # <<>>
         /\ \A w : Named(i, w) => Named(i, w)'
         /\ log'[i] = log[i] \/ Extended(i)
<1>1. log'[i] = log[i] \/ Extended(i)
  BY StepEffect DEF Kept, Effect, Released, Handed, Extended, Unheld
<1>2. CASE log'[i] = log[i]
  BY <1>2 DEF Named
<1>3. ASSUME NEW e \in Events, log'[i] = Append(log[i], e)
      PROVE  log'[i] # <<>> /\ \A w : Named(i, w) => Named(i, w)'
  <2>1. log[i] \in Seq(Events)
    BY DEF TypeInv, TypeOK
  <2>2. QED BY <1>3, <2>1, ExtendedLog DEF Named
<1>4. QED BY <1>1, <1>2, <1>3 DEF Extended

(* A deleted account stays deleted, and what was lost through it lost.     *)
LEMMA GoneStays ==
  ASSUME TypeInv, [Next]_vars
  PROVE  gone \subseteq gone' /\ \A i \in RequestIds : LostHolder(i) => LostHolder(i)'
<1>1. gone \subseteq gone'
  <2>1. CASE \E t \in Tasks : Write(t) \/ Abandon(t)
    BY <2>1 DEF Write, WriteClaim, WriteClose, WriteAssign, WriteApprove, WriteReject,
       WriteDelete, UpdateWhere, Abandon, accounts
  <2>2. CASE ~\E t \in Tasks : Write(t) \/ Abandon(t)
    BY <2>2 DEF Next, vars, Create, DispatchTime, ReadForClaim, ReadForClose, ReadForAssign,
       ReadForReview, ReadForDelete, Begin, ReadForRejectUser, WriteRejectUser,
       AbandonRejectUser, accounts
  <2>3. QED BY <2>1, <2>2
<1>2. ASSUME NEW i \in RequestIds, LostHolder(i)
      PROVE  LostHolder(i)'
  <2>1. PICK w \in gone : Named(i, w)
    BY <1>2 DEF LostHolder, Named
  <2>2. w \in gone' /\ Named(i, w)'
    BY <1>1, <2>1, LogStays
  <2>3. QED BY <2>2 DEF LostHolder, Named
<1>3. QED BY <1>1, <1>2

-----------------------------------------------------------------------------
(* The shape of a row, whichever database assigns the ids.                 *)
RowShape(i) ==
  LET r == requests[i] IN
  /\ r.status = "new" => r.worker = NoWorker
  /\ r.approval = "rejected" => r.status = "closed" /\ r.worker = NoWorker
  /\ r.category = "kazakhdomofon" <=> r.approval # "none"
  /\ r.deferred => r.category = "cleaning"

ShapeInv == \A i \in RequestIds : Exists(i) => RowShape(i)

(* The shape of the rows holds in the empty database.                      *)
LEMMA ShapeInit == Init => ShapeInv
BY DEF Init, ShapeInv, Exists

(* Every step keeps the shape of the rows.                                 *)
LEMMA ShapeStep == TypeInv /\ ShapeInv /\ [Next]_vars => ShapeInv'
<1> SUFFICES ASSUME TypeInv, ShapeInv, [Next]_vars, NEW j \in RequestIds, Exists(j)'
             PROVE  RowShape(j)'
  BY DEF ShapeInv
<1>1. CASE requests'[j] = requests[j]
  BY <1>1 DEF ShapeInv, RowShape, Exists
<1>2. CASE requests'[j] # requests[j]
  <2>1. Effect(j) \/ Unheld(j)
    BY <1>2, StepEffect DEF Kept
  <2>2. requests[j] \in Rows => Exists(j)
    BY ConstantsAssumption DEF Exists
  <2>3. CASE Created(j)
    BY <2>3 DEF Created, RowShape
  <2>4. CASE Released(j)
    BY <2>2, <2>4 DEF Released, ShapeInv, RowShape
  <2>5. ASSUME NEW t \in Tasks, Handed(j, t)
        PROVE  RowShape(j)'
    BY <2>2, <2>5, ConstantsAssumption DEF Handed, SameNature, ShapeInv, RowShape, Rows
  <2>6. CASE Completed(j)
    BY <2>2, <2>6 DEF Completed, SameNature, ShapeInv, RowShape
  <2>7. CASE Reviewed(j)
    BY <2>2, <2>7 DEF Reviewed, SameNature, ShapeInv, RowShape
  <2>8. CASE Removed(j)
    BY <2>8 DEF Removed, Exists
  <2>9. CASE Unheld(j)
    BY <1>2, <2>2, <2>9 DEF Unheld, SameNature, ShapeInv, RowShape
  <2>10. QED BY <2>1, <2>3, <2>4, <2>5, <2>6, <2>7, <2>8, <2>9 DEF Effect
<1>3. QED BY <1>1, <1>2

(* A request without a worker that should have one was held by somebody    *)
(* whose account is deleted.  For that, the trail of a request must name   *)
(* its worker, and that of a request a reject_user has loaded his.         *)
HolderShape(i) ==
  LET r == requests[i] IN
  /\ r.worker # NoWorker => Named(i, r.worker)
  /\ r.status # "new" /\ r.approval # "rejected" => r.worker # NoWorker \/ LostHolder(i)

HolderInv ==
  /\ \A i \in RequestIds : Exists(i) => HolderShape(i)
  /\ \A d \in leaving : \A i \in d.rows : Named(i, d.worker)

(* There is no request, and no reject_user in flight, at the start.        *)
LEMMA HolderInit == Init => HolderInv
BY DEF Init, HolderInv, Exists

(* Every step keeps the workers of the rows named in their trails.         *)
LEMMA HolderStep == TypeInv /\ ShapeInv /\ HolderInv /\ [Next]_vars => HolderInv'
<1> SUFFICES ASSUME TypeInv, ShapeInv, HolderInv, [Next]_vars PROVE HolderInv'
  OBVIOUS
<1>1. ASSUME NEW j \in RequestIds, Exists(j)'
      PROVE  HolderShape(j)'
  <2>1. /\ \A w : Named(j, w) => Named(j, w)'
        /\ LostHolder(j) => LostHolder(j)'
    BY LogStays, GoneStays
  <2>2. CASE requests'[j] = requests[j]
    BY <1>1, <2>1, <2>2 DEF HolderInv, HolderShape, Exists
  <2>3. CASE requests'[j] # requests[j]
    <3>1. Effect(j) \/ Unheld(j)
      BY <2>3, StepEffect DEF Kept
    <3>2. requests[j] \in Rows => Exists(j)
      BY ConstantsAssumption DEF Exists
    <3>3. CASE Created(j)
      BY <3>3 DEF Created, HolderShape
    <3>4. CASE Released(j)
      BY <2>1, <3>2, <3>4 DEF Released, HolderInv, HolderShape
    <3>5. ASSUME NEW t \in Tasks, Handed(j, t)
          PROVE  HolderShape(j)'
      <4>1. PICK e \in Events : log'[j] = Append(log[j], e) /\ e.worker = requests'[j].worker
        BY <3>5 DEF Handed
      <4>2. log[j] \in Seq(Events)
        BY DEF TypeInv, TypeOK
      <4>3. \E n \in DOMAIN log'[j] : log'[j][n].worker = requests'[j].worker
        BY <4>1, <4>2, ExtendedLog DEF Named
      <4>4. requests'[j].worker # NoWorker
        BY <3>5, ConstantsAssumption DEF Handed
      <4>5. QED BY <4>3, <4>4 DEF HolderShape, Named
    <3>6. CASE Completed(j)
      BY <2>1, <3>2, <3>6 DEF Completed, SameNature, ShapeInv, RowShape, HolderInv, HolderShape
    <3>7. CASE Reviewed(j)
      BY <2>1, <3>2, <3>7 DEF Reviewed, ShapeInv, RowShape, HolderInv, HolderShape
    <3>8. CASE Removed(j)
      BY <1>1, <3>8 DEF Removed, Exists
    <3>9. CASE Unheld(j)
      <4>1. PICK d \in leaving : j \in d.rows /\ d.worker \in gone'
        BY <2>3, <3>9 DEF Unheld
      <4>2. Named(j, d.worker) /\ log'[j] = log[j]
        BY <3>9, <4>1 DEF HolderInv, Unheld
      <4>3. LostHolder(j)'
        BY <4>1, <4>2 DEF LostHolder, Named
      <4>4. requests'[j].worker = NoWorker
        BY <2>3, <3>9 DEF Unheld
      <4>5. QED BY <4>3, <4>4 DEF HolderShape
    <3>10. QED BY <3>1, <3>3, <3>4, <3>5, <3>6, <3>7, <3>8, <3>9 DEF Effect
  <2>4. QED BY <2>2, <2>3
<1>2. ASSUME NEW d \in leaving', NEW i \in d.rows
      PROVE  Named(i, d.worker)'
  <2>1. CASE d \in leaving
    <3>1. i \in RequestIds /\ Named(i, d.worker)
      BY <2>1 DEF HolderInv, TypeInv, TypeOK, Dismissals
    <3>2. \A w : Named(i, w) => Named(i, w)'
      BY <3>1, LogStays
    <3>3. QED BY <3>1, <3>2
  <2>2. CASE d \notin leaving
    <3>1. PICK w \in Workers : ReadForRejectUser(w)
      <4>1. CASE \E t \in Tasks : Write(t) \/ Abandon(t)
        BY <2>2, <4>1 DEF Write, WriteClaim, WriteClose, WriteAssign, WriteApprove,
           WriteReject, WriteDelete, UpdateWhere, Abandon, accounts
      <4>2. CASE ~\E t \in Tasks : Write(t) \/ Abandon(t)
        BY <2>2, <4>2 DEF Next, vars, Create, DispatchTime, ReadForClaim, ReadForClose,
           ReadForAssign, ReadForReview, ReadForDelete, Begin, WriteRejectUser,
           AbandonRejectUser, accounts
      <4>3. QED BY <4>1, <4>2
    <3>2. d = [worker |-> w, rows |-> HeldBy(w)] /\ log' = log
      BY <2>2, <3>1 DEF ReadForRejectUser
    <3>3. i \in RequestIds /\ Exists(i) /\ requests[i].worker = w
      BY <3>2 DEF HeldBy
    <3>4. Named(i, w)
      BY <3>3, ConstantsAssumption DEF HolderInv, HolderShape
    <3>5. QED BY <3>2, <3>4 DEF Named
  <2>3. QED BY <2>1, <2>2
<1>3. QED BY <1>1, <1>2 DEF HolderInv

(* The worker column agrees with the status, with either database, except  *)
(* where the account of a former holder was deleted.                       *)
THEOREM HolderCorrect == Spec => []HolderMatchesStatus
<1>1. ShapeInv /\ HolderInv => HolderMatchesStatus
  BY DEF ShapeInv, RowShape, HolderInv, HolderShape, HolderMatchesStatus
<1>2. QED
  BY TypeInit, TypeStep, ShapeInit, ShapeStep, HolderInit, HolderStep, <1>1, PTL DEF Spec

-----------------------------------------------------------------------------
(***************************************************************************)
(* The audit trail.  Every committed step but that of reject_user adds at  *)
(* most one event to the trail of one request, and that event is the step  *)
(* the row takes.                                                          *)
(***************************************************************************)
(* Every non-empty set of numbers has a least one.                         *)
LEMMA Least ==
  ASSUME NEW T \in SUBSET Nat, T # {}
  PROVE  \E x \in T : \A y \in T : x <= y
<1>1. /\ IsWellFoundedOn(OpToRel(<, Nat), Nat)
      /\ \A x, y \in Nat : y < x => <<y, x>> \in OpToRel(<, Nat)
  <2>1. IsWellFoundedOn(OpToRel(<, Nat), Nat)
    BY NatLessThanWellFounded
  <2>2. \A x, y \in Nat : y < x => <<y, x>> \in OpToRel(<, Nat)
    BY DEF OpToRel
  <2>3. QED BY <2>1, <2>2, Zenon
<1>2. PICK R : IsWellFoundedOn(R, Nat) /\ \A x, y \in Nat : y < x => <<y, x>> \in R
  BY <1>1, Zenon
<1>3. PICK x \in T : \A y \in T : <<y, x>> \notin R
  BY <1>2, WFMin
<1>4. ASSUME NEW y \in T PROVE x <= y
  <2>1. x \in Nat /\ y \in Nat
    OBVIOUS
  <2>2. ~(y < x)
    BY <1>2, <1>3, <2>1
  <2>3. QED BY <2>1, <2>2
<1>5. QED BY <1>4

(* Induction on numbers, for a set of them.                                *)
LEMMA Induct ==
  ASSUME NEW S, 0 \in S, \A n \in Nat : n \in S => n + 1 \in S
  PROVE  Nat \subseteq S
<1> SUFFICES ASSUME ~(Nat \subseteq S) PROVE FALSE
  OBVIOUS
<1> DEFINE T == Nat \ S
<1>1. T \in SUBSET Nat /\ T # {}
  OBVIOUS
<1>2. PICK x \in T : \A y \in T : x <= y
  BY <1>1, Least
<1>3. x - 1 \in Nat /\ x - 1 \notin T
  BY <1>2
<1>4. QED BY <1>3

(* f lists what an auditor knows after each of the first n events.         *)
Replays(f, events, n) ==
  f = [k \in 0..n |-> IF k = 0 THEN Gone ELSE Step(f[k - 1], events[k])]

(* Any events can be replayed, as many of them as one likes.               *)
LEMMA ReplayExists ==
  ASSUME NEW events, NEW n \in Nat
  PROVE  \E f : Replays(f, events, n)
<1> DEFINE S == {m \in Nat : \E f : Replays(f, events, m)}
<1>1. 0 \in S
  <2>1. Replays([k \in 0..0 |-> Gone], events, 0)
    BY DEF Replays
  <2>2. QED BY <2>1
<1>2. ASSUME NEW m \in Nat, m \in S
      PROVE  m + 1 \in S
  <2>1. PICK f : Replays(f, events, m)
    BY <1>2
  <2> DEFINE g == [k \in 0..(m + 1) |-> IF k = m + 1 THEN Step(f[m], events[m + 1]) ELSE f[k]]
  <2>2. /\ \A k \in 0..m : g[k] = f[k]
        /\ g[m + 1] = Step(f[m], events[m + 1])
    OBVIOUS
  <2>3. \A k \in 0..m : f[k] = IF k = 0 THEN Gone ELSE Step(f[k - 1], events[k])
    BY <2>1 DEF Replays
  <2>4. \A k \in 0..(m + 1) :
          g[k] = IF k = 0 THEN Gone ELSE Step(g[k - 1], events[k])
    <3> HIDE DEF g
    <3>1. ASSUME NEW k \in 0..m
          PROVE  g[k] = IF k = 0 THEN Gone ELSE Step(g[k - 1], events[k])
      <4>1. k = 0 \/ k - 1 \in 0..m
        OBVIOUS
      <4>2. QED BY <4>1, <2>2, <2>3
    <3>2. QED BY <2>2, <3>1
  <2>5. Replays(g, events, m + 1)
    BY <2>4 DEF Replays
  <2>6. QED BY <2>5
<1> HIDE DEF S
<1>3. Nat \subseteq S
  BY <1>1, <1>2, Induct
<1>4. QED BY <1>3 DEF S

(* What is known after n events does not depend on how many are replayed.  *)
LEMMA ReplayUnique ==
  ASSUME NEW events, NEW n \in Nat, NEW m \in Nat, n <= m, NEW f, NEW g,
         Replays(f, events, n), Replays(g, events, m)
  PROVE  f[n] = g[n]
<1> DEFINE S == {k \in Nat : k <= n => f[k] = g[k]}
<1>1. /\ \A k \in 0..n : f[k] = IF k = 0 THEN Gone ELSE Step(f[k - 1], events[k])
      /\ \A k \in 0..m : g[k] = IF k = 0 THEN Gone ELSE Step(g[k - 1], events[k])
  BY DEF Replays
<1>2. 0 \in S
  BY <1>1
<1>3. ASSUME NEW k \in Nat, k \in S
      PROVE  k + 1 \in S
  BY <1>1, <1>3
<1> HIDE DEF S
<1>4. Nat \subseteq S
  BY <1>2, <1>3, Induct
<1>5. QED BY <1>4 DEF S

(* Replay is the last entry of such a list.                                *)
LEMMA ReplayRun ==
  ASSUME NEW events \in Seq(Events)
  PROVE  \E f : Replays(f, events, Len(events)) /\ Replay(events) = f[Len(events)]
<1> DEFINE f == CHOOSE g : Replays(g, events, Len(events))
<1>1. Replays(f, events, Len(events))
  BY ReplayExists, LenProperties
<1>2. Replay(events) = f[Len(events)]
  BY DEF Replay, Replays
<1>3. QED BY <1>1, <1>2

(* Without events there is no request.                                     *)
LEMMA ReplayEmpty == Replay(<<>>) = Gone
<1>1. <<>> \in Seq(Events) /\ Len(<<>>) = 0
  BY EmptySeq
<1>2. PICK f : Replays(f, <<>>, 0) /\ Replay(<<>>) = f[0]
  BY <1>1, ReplayRun
<1>3. QED BY <1>2 DEF Replays

(* One event more is one step more.                                        *)
LEMMA ReplayAppend ==
  ASSUME NEW events \in Seq(Events), NEW e \in Events
  PROVE  Replay(Append(events, e)) = Step(Replay(events), e)
<1> DEFINE n == Len(events)
           longer == Append(events, e)
<1>1. /\ n \in Nat /\ longer \in Seq(Events) /\ Len(longer) = n + 1
      /\ \A k \in 1..n : longer[k] = events[k]
      /\ longer[n + 1] = e
  BY AppendProperties, LenProperties
<1> HIDE DEF n, longer
<1>2. PICK f : Replays(f, events, n) /\ Replay(events) = f[n]
  BY ReplayRun DEF n
<1>3. PICK g : Replays(g, longer, n + 1) /\ Replay(longer) = g[n + 1]
  BY <1>1, ReplayRun
<1>4. Replays(f, longer, n)
  <2>1. \A k \in 0..n : k = 0 \/ k \in 1..n
    BY <1>1
  <2>2. \A k \in 0..n : (IF k = 0 THEN Gone ELSE Step(f[k - 1], events[k]))
                       = (IF k = 0 THEN Gone ELSE Step(f[k - 1], longer[k]))
    BY <1>1, <2>1
  <2>3. QED BY <1>2, <2>2 DEF Replays
<1>5. g[n] = f[n]
  BY <1>1, <1>3, <1>4, ReplayUnique
<1>6. g[n + 1] = Step(g[n], longer[n + 1])
  BY <1>1, <1>3 DEF Replays
<1>7. QED BY <1>1, <1>2, <1>3, <1>5, <1>6 DEF longer

(* What an auditor may find: the status and the worker of the row, or one  *)
(* it has lost.                                                            *)
Fits(s, r, lost) ==
  IF r = NoRow
  THEN s = Gone
  ELSE /\ s.status = r.status
       /\ s.worker = r.worker \/ (r.worker = NoWorker /\ lost)
       /\ s.orphaned => lost

(* The same, row by row; whichever database assigns the ids, in the order  *)
(* of the commits.                                                         *)
TrailInv == \A i \in RequestIds : Fits(Replay(log[i]), requests[i], LostHolder(i))

(* What e makes of a state of the trail fits what became of the row.       *)
Told(e, i, row) ==
  \A s : Fits(s, requests[i], LostHolder(i)) => Fits(Step(s, e), row, LostHolder(i))

(* The step leaves the trail and the row of i as they are, or adds the     *)
(* event that says what became of the row.                                 *)
Audited(i) ==
  \/ /\ log'[i] = log[i]
     /\ \A s : Fits(s, requests[i], LostHolder(i)) => Fits(s, requests'[i], LostHolder(i))
  \/ \E e \in Events : log'[i] = Append(log[i], e) /\ Told(e, i, requests'[i])

(* A conditional UPDATE whose event tells what it does is audited.         *)
LEMMA UpdateWhereAudited ==
  ASSUME TypeInv, NEW t \in Tasks, task[t] # Idle,
         NEW where, NEW row, NEW e \in Events,
         UpdateWhere(t, where, row, e),
         where => Told(e, task[t].id, row),
         NEW i \in RequestIds
  PROVE  Audited(i)
<1> DEFINE written == where /\ Known(task[t].actor) /\ Known(task[t].worker)
<1>1. task[t].id \in RequestIds
  BY DEF TypeInv, TypeOK, Pending
<1>2. CASE written /\ i = task[t].id
  <2>1. requests'[i] = row /\ log'[i] = Append(log[i], e)
    BY <1>1, <1>2 DEF TypeInv, TypeOK, UpdateWhere, Record
  <2>2. QED BY <1>2, <2>1 DEF Audited
<1>3. CASE ~(written /\ i = task[t].id)
  <2>1. requests'[i] = requests[i] /\ log'[i] = log[i]
    BY <1>1, <1>3 DEF TypeInv, TypeOK, UpdateWhere, Record
  <2>2. QED BY <2>1 DEF Audited
<1>4. QED BY <1>2, <1>3

(* Every write of a handler is audited.                                    *)
LEMMA WriteAudited ==
  ASSUME TypeInv, ShapeInv, HolderInv, NEW t \in Tasks, Write(t), NEW i \in RequestIds
  PROVE  Audited(i)
<1> DEFINE p == task[t]
           r == requests[p.id]
<1>1. p # Idle
  BY DEF Write, WriteClaim, WriteClose, WriteAssign, WriteApprove, WriteReject, WriteDelete
<1>2. /\ p \in Pending /\ p.id \in RequestIds /\ p.actor \in Users
      /\ p.worker \in Workers \cup {NoWorker} /\ p.previous \in Workers \cup {NoWorker}
      /\ p.op = "claim" => p.actor \in Workers
      /\ p.op = "assign" => p.worker \in Workers
  BY <1>1 DEF TypeInv, TypeOK, ActorsOK, Pending
<1>3. Exists(p.id) =>
        /\ r \in Rows /\ r # NoRow
        /\ r.status = "new" => r.worker = NoWorker
        /\ r.approval = "rejected" => r.status = "closed"
        /\ r.status = "accepted" => r.worker # NoWorker \/ LostHolder(p.id)
  BY <1>2 DEF TypeInv, TypeOK, Exists, ShapeInv, RowShape, HolderInv, HolderShape
<1>4. NoRow \notin Rows /\ NoWorker \notin Workers /\ r = requests[p.id]
  BY ConstantsAssumption
<1>5. CASE WriteClaim(t)
  <2> DEFINE row == [r EXCEPT !.status = "accepted", !.worker = p.actor]
             e == Event("claimed", p.actor, p.actor, NoWorker)
  <2>1. p.actor \in Workers
    BY <1>2, <1>5 DEF WriteClaim
  <2>2. e \in Events /\ e.action = "claimed" /\ e.worker = p.actor
    BY <1>2, <2>1 DEF Event, Events
  <2>3. Exists(p.id) => row \in Rows /\ row.status = "accepted" /\ row.worker = p.actor
    BY <1>3, <2>1 DEF Rows
  <2>4. Exists(p.id) /\ r.status = "new" => Told(e, p.id, row)
    <3> HIDE DEF row, e, r, p
    <3>1. QED BY <1>3, <1>4, <2>2, <2>3 DEF Told, Fits, Step, State, Gone
  <2>5. UpdateWhere(t, Exists(p.id) /\ r.status = "new", row, e)
    BY <1>5 DEF WriteClaim
  <2>6. QED
    <3> HIDE DEF row, e
    <3>1. QED BY <1>1, <2>2, <2>4, <2>5, UpdateWhereAudited
<1>6. CASE WriteClose(t)
  <2> DEFINE row == [r EXCEPT !.status = "closed"]
             e == Event("closed", p.actor, NoWorker, NoWorker)
             where == /\ Exists(p.id)
                      /\ r.status = "accepted"
                      /\ p.actor \in Workers => r.worker = p.actor
  <2>1. e \in Events /\ e.action = "closed" /\ e.actor = p.actor
    BY <1>2 DEF Event, Events
  <2>2. Exists(p.id) => row \in Rows /\ row.status = "closed" /\ row.worker = r.worker
    BY <1>3 DEF Rows
  <2>3. where => Told(e, p.id, row)
    <3> HIDE DEF row, e, r, p
    <3>1. QED BY <1>3, <1>4, <2>1, <2>2 DEF Told, Fits, Step, State, Gone
  <2>4. UpdateWhere(t, where, row, e)
    BY <1>6 DEF WriteClose
  <2>5. QED
    <3> HIDE DEF row, e, where
    <3>1. QED BY <1>1, <2>1, <2>3, <2>4, UpdateWhereAudited
<1>7. CASE WriteAssign(t)
  <2> DEFINE row == [r EXCEPT !.status = "accepted", !.worker = p.worker]
             e == Event(IF p.previous = NoWorker THEN "assigned" ELSE "reassigned",
                        p.actor, p.worker, p.previous)
             where == /\ Exists(p.id)
                      /\ r.status \in {"new", "accepted"}
                      /\ r.worker = p.previous
  <2>1. p.worker \in Workers
    BY <1>2, <1>7 DEF WriteAssign
  <2>2. /\ e \in Events /\ e.worker = p.worker /\ e.previous = p.previous
        /\ e.action = IF p.previous = NoWorker THEN "assigned" ELSE "reassigned"
    BY <1>2, <2>1 DEF Event, Events
  <2>3. Exists(p.id) => row \in Rows /\ row.status = "accepted" /\ row.worker = p.worker
    BY <1>3, <2>1 DEF Rows
  <2>4. where => Told(e, p.id, row)
    <3> HIDE DEF row, e, r, p
    <3>1. ASSUME where, p.previous = NoWorker
          PROVE  Told(e, p.id, row)
      BY <1>3, <1>4, <2>2, <2>3, <3>1 DEF Told, Fits, Step, State, Gone
    <3>2. ASSUME where, p.previous # NoWorker
          PROVE  Told(e, p.id, row)
      BY <1>3, <1>4, <2>2, <2>3, <3>2 DEF Told, Fits, Step, State, Gone
    <3>3. QED BY <3>1, <3>2
  <2>5. UpdateWhere(t, where, row, e)
    BY <1>7 DEF WriteAssign
  <2>6. QED
    <3> HIDE DEF row, e, where
    <3>1. QED BY <1>1, <2>2, <2>4, <2>5, UpdateWhereAudited
<1>8. CASE WriteApprove(t)
  <2> DEFINE row == [r EXCEPT !.approval = "approved"]
             e == Event("approved", p.actor, NoWorker, NoWorker)
  <2>1. e \in Events /\ e.action = "approved"
    BY <1>2 DEF Event, Events
  <2>2. Exists(p.id) => row \in Rows /\ row.status = r.status /\ row.worker = r.worker
    BY <1>3 DEF Rows
  <2>3. StillPending(p.id) => Told(e, p.id, row)
    <3> HIDE DEF row, e
    <3>1. QED BY <1>3, <1>4, <2>1, <2>2 DEF Told, Fits, Step, State, Gone, StillPending
  <2>4. UpdateWhere(t, StillPending(p.id), row, e)
    BY <1>8 DEF WriteApprove
  <2>5. QED
    <3> HIDE DEF row, e
    <3>1. QED BY <1>1, <2>1, <2>3, <2>4, UpdateWhereAudited
<1>9. CASE WriteReject(t)
  <2> DEFINE row == [r EXCEPT !.approval = "rejected", !.status = "closed"]
             e == Event("rejected", p.actor, NoWorker, NoWorker)
  <2>1. e \in Events /\ e.action = "rejected"
    BY <1>2 DEF Event, Events
  <2>2. Exists(p.id) => row \in Rows /\ row.status = "closed" /\ row.worker = r.worker
    BY <1>3, TwoReviewFields
  <2>3. StillPending(p.id) => Told(e, p.id, row)
    <3> HIDE DEF row, e
    <3>1. QED BY <1>3, <1>4, <2>1, <2>2 DEF Told, Fits, Step, State, Gone, StillPending
  <2>4. UpdateWhere(t, StillPending(p.id), row, e)
    BY <1>9 DEF WriteReject
  <2>5. QED
    <3> HIDE DEF row, e
    <3>1. QED BY <1>1, <2>1, <2>3, <2>4, UpdateWhereAudited
<1>10. CASE WriteDelete(t)
  <2> DEFINE e == Event("deleted", p.actor, NoWorker, NoWorker)
  <2>1. e \in Events /\ e.action = "deleted"
    BY <1>2 DEF Event, Events
  <2>2. \A s : Step(s, e) = Gone
    <3> HIDE DEF e
    <3>1. QED BY <2>1 DEF Step
  <2>3. CASE i = p.id
    <3>1. requests'[i] = NoRow /\ log'[i] = Append(log[i], e)
      BY <1>2, <1>10, <2>3 DEF WriteDelete, TypeInv, TypeOK, Record
    <3>2. Told(e, i, requests'[i])
      BY <2>2, <3>1 DEF Told, Fits
    <3>3. QED BY <2>1, <3>1, <3>2 DEF Audited
  <2>4. CASE i # p.id
    <3>1. requests'[i] = requests[i] /\ log'[i] = log[i]
      BY <1>2, <1>10, <2>4 DEF WriteDelete, TypeInv, TypeOK, Record
    <3>2. QED BY <3>1 DEF Audited
  <2>5. QED BY <2>3, <2>4
<1>11. QED BY <1>5, <1>6, <1>7, <1>8, <1>9, <1>10 DEF Write

(* Every step but that of reject_user is audited; a new request starts     *)
(* where the trail of its id says there is none.                           *)
LEMMA StepAudited ==
  ASSUME TypeInv, ShapeInv, HolderInv, TrailInv, [Next]_vars, NEW i \in RequestIds
  PROVE  Audited(i) \/ Unheld(i)
<1>1. ASSUME NEW j \in RequestIds, NEW u \in Residents, NEW c \in Categories,
             NEW d \in BOOLEAN, Create(j, u, c, d)
      PROVE  Audited(i)
  <2> DEFINE e == Event("created", u, NoWorker, NoWorker)
  <2>1. e \in Events /\ e.action = "created"
    BY DEF Event, Events, Users
  <2>2. requests[j] = NoRow
    <3>1. ~(j < j) /\ (~Exists(j) \/ log[j] = <<>>)
      BY <1>1, ConstantsAssumption DEF Create, FreshId
    <3>2. CASE ~Exists(j)
      BY <3>2 DEF Exists
    <3>3. CASE log[j] = <<>>
      <4>1. requests[j] # NoRow => requests[j].status \in {"new", "accepted", "closed"}
        BY DEF TypeInv, TypeOK, Rows
      <4>2. Replay(log[j]) = Gone
        BY <3>3, ReplayEmpty
      <4>3. Fits(Gone, requests[j], LostHolder(j))
        BY <4>2 DEF TrailInv
      <4>4. QED BY <4>1, <4>3 DEF Fits, Gone, State
    <3>4. QED BY <3>1, <3>2, <3>3
  <2>3. Step(Gone, e) = State("new", NoWorker, FALSE)
    <3> HIDE DEF e
    <3>1. QED BY <2>1 DEF Step, Gone, State
  <2>4. /\ requests'[j] \in Rows
        /\ requests'[j].status = "new" /\ requests'[j].worker = NoWorker
    BY <1>1 DEF TypeInv, TypeOK, Create, Rows
  <2>5. /\ log'[j] = Append(log[j], e)
        /\ i # j => requests'[i] = requests[i] /\ log'[i] = log[i]
    BY <1>1 DEF TypeInv, TypeOK, Create, Record
  <2>6. Told(e, j, requests'[j])
    <3> HIDE DEF e
    <3>1. QED BY <2>2, <2>3, <2>4, ConstantsAssumption DEF Told, Fits, State
  <2>7. QED
    <3> HIDE DEF e
    <3>1. QED BY <2>1, <2>5, <2>6 DEF Audited
<1>2. ASSUME NEW j \in RequestIds, DispatchTime(j)
      PROVE  Audited(i)
  <2>1. requests[j] \in Rows
    BY <1>2 DEF TypeInv, TypeOK, DispatchTime, Exists
  <2>2. /\ i = j => /\ requests'[i] \in Rows
                   /\ requests'[i].status = requests[i].status
                   /\ requests'[i].worker = requests[i].worker
        /\ i # j => requests'[i] = requests[i]
        /\ log' = log
    BY <1>2, <2>1 DEF TypeInv, TypeOK, DispatchTime, Rows
  <2>3. QED BY <2>1, <2>2, ConstantsAssumption DEF Audited, Fits
<1>3. ASSUME UNCHANGED <<requests, log>>
      PROVE  Audited(i)
  BY <1>3 DEF Audited
<1>4. QED
  BY <1>1, <1>2, <1>3, WriteAudited, UnheldEffect
  DEF Next, vars, ReadForClaim, ReadForClose, ReadForAssign, ReadForReview,
      ReadForDelete, Begin, Abandon, ReadForRejectUser, AbandonRejectUser

(* The trail of an id, replayed, gives its row, but for lost workers.      *)
THEOREM AuditCorrect == Spec => []AuditReplays
<1> DEFINE Inv == TypeInv /\ ShapeInv /\ HolderInv /\ TrailInv
<1>1. Init => Inv
  <2>1. Init => TrailInv
    BY ReplayEmpty DEF Init, TrailInv, Fits
  <2>2. QED BY <2>1, TypeInit, ShapeInit, HolderInit
<1>2. Inv /\ [Next]_vars => Inv'
  <2> SUFFICES ASSUME Inv, [Next]_vars PROVE Inv'
    OBVIOUS
  <2>1. TypeInv' /\ ShapeInv' /\ HolderInv'
    BY TypeStep, ShapeStep, HolderStep
  <2>2. ASSUME NEW i \in RequestIds
        PROVE  Fits(Replay(log'[i]), requests'[i], LostHolder(i)')
    <3>1. log[i] \in Seq(Events)
      BY DEF TypeInv, TypeOK
    <3>2. Fits(Replay(log[i]), requests[i], LostHolder(i))
      BY DEF TrailInv
    <3>3. LostHolder(i) => LostHolder(i)'
      BY GoneStays
    <3>4. Audited(i) \/ Unheld(i)
      BY StepAudited
    <3>5. CASE Audited(i)
      <4>1. Fits(Replay(log'[i]), requests'[i], LostHolder(i))
        <5>1. CASE log'[i] = log[i] /\ \A s : Fits(s, requests[i], LostHolder(i))
                                            => Fits(s, requests'[i], LostHolder(i))
          BY <3>2, <5>1
        <5>2. ASSUME NEW e \in Events, log'[i] = Append(log[i], e), Told(e, i, requests'[i])
              PROVE  Fits(Replay(log'[i]), requests'[i], LostHolder(i))
          <6>1. Replay(log'[i]) = Step(Replay(log[i]), e)
            BY <3>1, <5>2, ReplayAppend
          <6>2. QED BY <3>2, <5>2, <6>1 DEF Told
        <5>3. QED BY <3>5, <5>1, <5>2 DEF Audited
      <4>2. QED BY <3>3, <4>1 DEF Fits
    <3>6. CASE Unheld(i)
      <4>1. CASE requests'[i] = requests[i]
        BY <3>2, <3>3, <3>6, <4>1 DEF Unheld, Fits
      <4>2. CASE requests'[i] # requests[i]
        <5>1. PICK d \in leaving : i \in d.rows /\ d.worker \in gone'
          BY <3>6, <4>2 DEF Unheld
        <5>2. Named(i, d.worker) /\ log'[i] = log[i]
          BY <3>6, <5>1 DEF HolderInv, Unheld
        <5>3. LostHolder(i)'
          BY <5>1, <5>2 DEF LostHolder, Named
        <5>4. /\ requests[i] # NoRow /\ requests'[i] # NoRow
              /\ requests'[i].status = requests[i].status /\ requests'[i].worker = NoWorker
          BY <3>6, <4>2, ConstantsAssumption DEF Unheld
        <5>5. QED BY <3>2, <5>2, <5>3, <5>4 DEF Fits
      <4>3. QED BY <4>1, <4>2
    <3>7. QED BY <3>4, <3>5, <3>6
  <2>3. TrailInv'
    BY <2>2 DEF TrailInv
  <2>4. QED BY <2>1, <2>3
<1>3. Inv => AuditReplays
  BY DEF TrailInv, Fits, AuditReplays, Exists
<1>4. QED BY <1>1, <1>2, <1>3, PTL DEF Spec

-----------------------------------------------------------------------------
(***************************************************************************)
(* From here on ids are never reused, as on PostgreSQL.  What a claim or   *)
(* an assignment read then stays true until it writes: its request was     *)
(* ready, and a request that is ready stays ready until it is deleted.     *)
(***************************************************************************)
WasReady(t) ==
  LET p == task[t] IN
  /\ log[p.id] # <<>>
  /\ p.op \in {"claim", "assign"} /\ Exists(p.id) => Ready(requests[p.id])

GateInv ==
  /\ \A i \in RequestIds : Exists(i) => log[i] # <<>>
  /\ \A i \in RequestIds :
       Exists(i) /\ requests[i].worker # NoWorker => Ready(requests[i])
  /\ \A t \in Tasks : task[t] # Idle => WasReady(t)

FullInv == TypeInv /\ ShapeInv /\ GateInv

(* No handler is in flight at the start.                                   *)
LEMMA GateInit == Init => GateInv
BY DEF Init, GateInv, Exists

(* A request that is ready stays ready, or is gone.                        *)
LEMMA ReadyStays ==
  ASSUME ~ReuseIds, TypeInv, ShapeInv, [Next]_vars, NEW i \in RequestIds,
         log[i] # <<>>, Exists(i) => Ready(requests[i]), Exists(i)'
  PROVE  Ready(requests[i])'
<1>1. CASE requests'[i] = requests[i]
  BY <1>1 DEF Exists, Ready
<1>2. CASE requests'[i] # requests[i]
  <2>1. Effect(i) \/ Unheld(i)
    BY <1>2, StepEffect DEF Kept
  <2>2. requests[i] \in Rows => Exists(i)
    BY ConstantsAssumption DEF Exists
  <2>3. ~Created(i)
    BY ConstantsAssumption DEF Created, FreshId
  <2>4. CASE Released(i)
    BY <2>2, <2>4 DEF Released, Ready
  <2>5. ASSUME NEW t \in Tasks, Handed(i, t)
        PROVE  Ready(requests[i])'
    BY <2>2, <2>5 DEF Handed, SameNature, Ready
  <2>6. CASE Completed(i)
    BY <2>2, <2>6 DEF Completed, SameNature, Ready
  <2>7. ~Reviewed(i)
    BY <2>2 DEF Reviewed, Ready
  <2>8. ~Removed(i)
    BY DEF Removed, Exists
  <2>9. CASE Unheld(i)
    BY <1>2, <2>2, <2>9 DEF Unheld, SameNature, Ready
  <2>10. QED BY <2>1, <2>3, <2>4, <2>5, <2>6, <2>7, <2>8, <2>9 DEF Effect
<1>3. QED BY <1>1, <1>2

(* A task is new, as it was, or done; a new one has just read its request. *)
LEMMA TaskEffect ==
  ASSUME TypeInv, GateInv, [Next]_vars, NEW t \in Tasks, task'[t] # Idle
  PROVE  \/ task'[t] = task[t]
         \/ /\ UNCHANGED <<requests, log>>
            /\ task'[t].id \in RequestIds /\ Exists(task'[t].id)
            /\ task'[t].op \in {"claim", "assign"} => Ready(requests[task'[t].id])
<1>1. CASE \E u \in Tasks : Write(u) \/ Abandon(u)
  BY <1>1 DEF TypeInv, TypeOK, Write, WriteClaim, WriteClose, WriteAssign, WriteApprove,
     WriteReject, WriteDelete, Abandon, UpdateWhere, Finish
<1>2. CASE \E i \in RequestIds : DispatchTime(i)
  BY <1>2 DEF DispatchTime
<1>3. CASE \E i \in RequestIds, u \in Residents, c \in Categories, d \in BOOLEAN :
             Create(i, u, c, d)
  BY <1>3 DEF Create
<1>4. ASSUME NEW u \in Tasks, NEW i \in RequestIds, NEW op, NEW a, NEW w, NEW v,
             Exists(i), op \in {"claim", "assign"} => Ready(requests[i]),
             Begin(u, op, a, i, w, v)
      PROVE  \/ task'[t] = task[t]
             \/ /\ UNCHANGED <<requests, log>>
                /\ task'[t].id \in RequestIds /\ Exists(task'[t].id)
                /\ task'[t].op \in {"claim", "assign"} => Ready(requests[task'[t].id])
  BY <1>4 DEF Begin, TypeInv, TypeOK
<1>5. CASE \/ UNCHANGED vars
           \/ \E w \in Workers : ReadForRejectUser(w)
           \/ \E d \in leaving : WriteRejectUser(d) \/ AbandonRejectUser(d)
  BY <1>5 DEF vars, ReadForRejectUser, WriteRejectUser, AbandonRejectUser
<1>6. QED
  BY <1>1, <1>2, <1>3, <1>4, <1>5
  DEF Next, ReadForClaim, ReadForClose, ReadForAssign, ReadForReview, ReadForDelete

(* What is known of requests in flight stays true if ids are not reused.   *)
LEMMA GateStep == ~ReuseIds /\ FullInv /\ [Next]_vars => GateInv'
<1> SUFFICES ASSUME ~ReuseIds, TypeInv, ShapeInv, GateInv, [Next]_vars
             PROVE  GateInv'
  BY DEF FullInv
<1>1. ASSUME NEW i \in RequestIds, Exists(i)'
      PROVE  log'[i] # <<>>
  <2>1. CASE Exists(i)
    BY <2>1, LogStays DEF GateInv
  <2>2. CASE ~Exists(i)
    <3>1. Effect(i) \/ Unheld(i)
      BY <1>1, <2>2, StepEffect DEF Kept, Exists
    <3>2. ~Released(i) /\ ~Unheld(i)
      BY <1>1, <2>2, ConstantsAssumption DEF Released, Unheld, Exists
    <3>3. PICK e \in Events : log'[i] = Append(log[i], e)
      BY <3>1, <3>2 DEF Effect, Extended
    <3>4. log[i] \in Seq(Events)
      BY DEF TypeInv, TypeOK
    <3>5. QED BY <3>3, <3>4, AppendEvent
  <2>3. QED BY <2>1, <2>2
<1>2. ASSUME NEW i \in RequestIds, Exists(i)', requests'[i].worker # NoWorker
      PROVE  Ready(requests[i])'
  <2>1. CASE Exists(i) /\ requests[i].worker # NoWorker
    BY <1>2, <2>1, ReadyStays DEF GateInv
  <2>2. CASE ~(Exists(i) /\ requests[i].worker # NoWorker)
    <3>1. Effect(i) \/ Unheld(i)
      BY <1>2, <2>2, StepEffect DEF Kept, Exists
    <3>2. requests[i] \in Rows => Exists(i)
      BY ConstantsAssumption DEF Exists
    <3>3. /\ ~Created(i) /\ ~Released(i) /\ ~Completed(i) /\ ~Reviewed(i) /\ ~Removed(i)
          /\ ~Unheld(i)
      BY <1>2, <2>2, <3>2
      DEF Created, Released, Completed, Reviewed, Removed, Unheld, Exists
    <3>4. PICK t \in Tasks : Handed(i, t)
      BY <3>1, <3>3 DEF Effect
    <3>5. task[t] # Idle /\ task[t].id = i /\ task[t].op \in {"claim", "assign"} /\ Exists(i)
      BY <3>2, <3>4 DEF Handed
    <3>6. log[i] # <<>> /\ Ready(requests[i])
      BY <3>5 DEF GateInv, WasReady
    <3>7. QED BY <1>2, <3>6, ReadyStays
  <2>3. QED BY <2>1, <2>2
<1>3. ASSUME NEW t \in Tasks, task'[t] # Idle
      PROVE  WasReady(t)'
  <2>1. CASE task'[t] = task[t]
    <3>1. task[t].id \in RequestIds /\ WasReady(t)
      BY <1>3, <2>1 DEF GateInv, TypeInv, TypeOK, Pending
    <3>2. log'[task[t].id] # <<>>
      BY <3>1, LogStays DEF WasReady
    <3>3. ASSUME task[t].op \in {"claim", "assign"}, Exists(task[t].id)'
          PROVE  Ready(requests[task[t].id])'
      <4> DEFINE i == task[t].id
      <4>1. i \in RequestIds /\ log[i] # <<>> /\ (Exists(i) => Ready(requests[i]))
        BY <3>1, <3>3 DEF WasReady
      <4>2. requests'[i] # NoRow
        BY <2>1, <3>3 DEF Exists
      <4> HIDE DEF i
      <4>3. \A k \in RequestIds :
              log[k] # <<>> /\ (Exists(k) => Ready(requests[k])) /\ requests'[k] # NoRow
                => requests'[k].approval \in {"none", "approved"} /\ ~requests'[k].deferred
        BY ReadyStays DEF Exists, Ready
      <4>4. requests'[i].approval \in {"none", "approved"} /\ ~requests'[i].deferred
        BY <4>1, <4>2, <4>3
      <4>5. QED BY <2>1, <4>4 DEF Ready, i
    <3>4. QED BY <2>1, <3>2, <3>3 DEF WasReady, Exists, Ready
  <2>2. CASE task'[t] # task[t]
    <3>1. /\ UNCHANGED <<requests, log>>
          /\ task'[t].id \in RequestIds /\ Exists(task'[t].id)
          /\ task'[t].op \in {"claim", "assign"} => Ready(requests[task'[t].id])
      BY <1>3, <2>2, TaskEffect
    <3>2. QED BY <3>1 DEF WasReady, GateInv, Exists, Ready
  <2>3. QED BY <2>1, <2>2
<1>4. QED BY <1>1, <1>2, <1>3 DEF GateInv

(* A worker never holds a request that was not released to the workers.    *)
THEOREM GateCorrect == ASSUME ~ReuseIds PROVE Spec => []WorkerGate
<1>1. TypeInv /\ ShapeInv /\ GateInv => WorkerGate
  <2> SUFFICES ASSUME TypeInv, ShapeInv, GateInv, NEW i \in RequestIds,
                      Exists(i), requests[i].worker # NoWorker
               PROVE  /\ Ready(requests[i])
                      /\ requests[i].category = "kazakhdomofon"
                           => requests[i].approval = "approved"
    BY DEF WorkerGate
  <2>1. Ready(requests[i]) /\ RowShape(i)
    BY DEF GateInv, ShapeInv
  <2>2. QED BY <2>1 DEF Ready, RowShape
<1>2. FullInv /\ [Next]_vars => FullInv'
  BY TypeStep, ShapeStep, GateStep DEF FullInv
<1>3. Init => FullInv
  BY TypeInit, ShapeInit, GateInit DEF FullInv
<1>4. FullInv => WorkerGate
  BY <1>1 DEF FullInv
<1>5. QED BY <1>2, <1>3, <1>4, PTL DEF Spec

-----------------------------------------------------------------------------
(***************************************************************************)
(* The refinement.  Each effect on a row is one step of its ticket; a step *)
(* with no effect on a row changes no ticket.                              *)
(***************************************************************************)
LEMMA KeptTicket ==
  ASSUME NEW i \in RequestIds, Kept(i)
  PROVE  TicketOf(i)' = TicketOf(i)
BY DEF Kept, TicketOf, StageOf, Exists

(* The stage and the holder of a ticket, read off its row.                 *)
StageFacts(i) ==
  /\ TicketOf(i) = [stage |-> StageOf(i), holder |-> TicketOf(i).holder]
  /\ ~Exists(i) => /\ TicketOf(i).holder = NoWorker
                   /\ StageOf(i) = IF log[i] = <<>> THEN "unused" ELSE "withdrawn"
  /\ Exists(i) =>
       /\ TicketOf(i).holder = requests[i].worker
       /\ requests[i].status = "new" =>
            StageOf(i) = IF requests[i].approval = "pending" THEN "review"
                         ELSE IF requests[i].deferred THEN "waiting" ELSE "queued"
       /\ requests[i].status = "accepted" => StageOf(i) = "held"
       /\ requests[i].status = "closed" =>
            StageOf(i) = IF requests[i].approval = "rejected" THEN "refused" ELSE "done"

(* The stage of a ticket, read off the row of its request.                 *)
LEMMA TicketStage ==
  ASSUME NEW i \in RequestIds
  PROVE  StageFacts(i) /\ StageFacts(i)'
BY DEF StageFacts, TicketOf, StageOf, Exists

(* The empty database is a state without tickets.                          *)
LEMMA TicketInit == Init => Ticket!Init
BY DEF Init, Ticket!Init, Tickets, TicketOf, StageOf, Exists

(* Every step is a step of the tickets, or leaves them alone.              *)
LEMMA TicketStep ==
  ASSUME ~ReuseIds, FullInv, FullInv', [Next]_vars
  PROVE  [Ticket!Next]_Tickets
<1>1. CASE UNCHANGED <<requests, log>>
  <2>1. \A i \in RequestIds : TicketOf(i)' = TicketOf(i)
    BY <1>1, KeptTicket DEF Kept
  <2>2. Tickets' = Tickets
    BY <2>1 DEF Tickets
  <2>3. QED BY <2>2
<1>2. ASSUME NEW i \in RequestIds, Effect(i), \A j \in RequestIds \ {i} : Kept(j)
      PROVE  [Ticket!Next]_Tickets
  <2> DEFINE old == TicketOf(i)
             new == TicketOf(i)'
             r == requests[i]
             q == requests'[i]
  <2>1. Tickets' = [Tickets EXCEPT ![i] = new]
    <3>1. \A j \in RequestIds \ {i} : TicketOf(j)' = TicketOf(j)
      BY <1>2, KeptTicket
    <3>2. QED BY <3>1 DEF Tickets
  <2>2. Tickets[i] = old
    BY DEF Tickets
  <2>3. StageFacts(i) /\ StageFacts(i)'
    BY TicketStage
  <2>4. /\ r \in Rows => Exists(i) /\ r = requests[i]
        /\ q \in Rows => Exists(i)'
    BY ConstantsAssumption DEF Exists
  <2>5. ASSUME NEW from, NEW to, old.stage = from, new = [old EXCEPT !.stage = to]
        PROVE  Ticket!Move(i, from, to)
    BY <2>1, <2>2, <2>5 DEF Ticket!Move
  <2>6. CASE Created(i)
    <3>1. ~Exists(i) /\ log[i] = <<>>
      <4>1. log[i] = <<>>
        <5>1. ~(i < i)
          BY ConstantsAssumption
        <5>2. QED BY <2>6, <5>1 DEF Created, FreshId
      <4>2. QED BY <4>1 DEF FullInv, GateInv
    <3>2. old = [stage |-> "unused", holder |-> NoWorker]
      BY <2>3, <3>1 DEF StageFacts
    <3>3. new.stage \in {"review", "waiting", "queued"}
          /\ new = [stage |-> new.stage, holder |-> NoWorker]
      BY <2>3, <2>4, <2>6 DEF StageFacts, Created
    <3>4. \E s \in {"review", "waiting", "queued"} : Ticket!Move(i, "unused", s)
      BY <2>5, <3>2, <3>3
    <3>5. QED BY <3>4 DEF Ticket!Next, Ticket!Open
  <2>7. CASE Released(i)
    <3>1. CASE r.status = "new" /\ r.approval # "pending"
      <4>1. old.stage = "waiting" /\ new = [old EXCEPT !.stage = "queued"]
        BY <2>3, <2>4, <2>7, <3>1 DEF StageFacts, Released
      <4>2. QED BY <2>5, <4>1 DEF Ticket!Next, Ticket!Release
    <3>2. CASE ~(r.status = "new" /\ r.approval # "pending")
      <4>1. new = old
        BY <2>3, <2>4, <2>7, <3>2 DEF StageFacts, Released, Rows
      <4>2. QED BY <2>1, <2>2, <4>1 DEF Tickets
    <3>3. QED BY <3>1, <3>2
  <2>8. ASSUME NEW t \in Tasks, Handed(i, t)
        PROVE  Ticket!Next
    <3>1. Exists(i) /\ task[t] # Idle /\ task[t].id = i /\ task[t].op \in {"claim", "assign"}
      BY <2>4, <2>8 DEF Handed
    <3>2. Ready(r)
      BY <3>1 DEF FullInv, GateInv, WasReady
    <3>3. old.stage \in {"queued", "held"}
      BY <2>3, <2>8, <3>1, <3>2 DEF StageFacts, Handed, Ready
    <3>4. q.worker \in Workers /\ new = [stage |-> "held", holder |-> q.worker]
      BY <2>3, <2>4, <2>8 DEF StageFacts, Handed
    <3>5. Ticket!Hand(i, q.worker)
      BY <2>1, <2>2, <3>3, <3>4 DEF Ticket!Hand
    <3>6. QED BY <3>4, <3>5 DEF Ticket!Next
  <2>9. CASE Completed(i)
    <3>1. r.approval # "rejected"
      BY <2>4, <2>9 DEF FullInv, ShapeInv, RowShape, Completed
    <3>2. old.stage = "held" /\ new = [old EXCEPT !.stage = "done"]
      BY <2>3, <2>4, <2>9, <3>1 DEF StageFacts, Completed
    <3>3. QED BY <2>5, <3>2 DEF Ticket!Next, Ticket!Complete
  <2>10. CASE Reviewed(i)
    <3>1. old.stage = "review"
      BY <2>3, <2>4, <2>10 DEF StageFacts, Reviewed
    <3>2. CASE q.approval = "approved" /\ q.status = "new"
      <4>1. r.category # "cleaning"
        BY <2>4, <2>10 DEF FullInv, ShapeInv, RowShape, Reviewed
      <4>2. ~q.deferred
        BY <2>4, <2>10, <4>1 DEF FullInv, ShapeInv, RowShape, Reviewed, SameNature
      <4>3. new = [old EXCEPT !.stage = "queued"]
        BY <2>3, <2>4, <2>10, <3>2, <4>2 DEF StageFacts, Reviewed
      <4>4. QED BY <2>5, <3>1, <4>3 DEF Ticket!Next, Ticket!Approve
    <3>3. CASE q.approval = "rejected" /\ q.status = "closed"
      <4>1. new = [old EXCEPT !.stage = "refused"]
        BY <2>3, <2>4, <2>10, <3>3 DEF StageFacts, Reviewed
      <4>2. QED BY <2>5, <3>1, <4>1 DEF Ticket!Next, Ticket!Refuse
    <3>4. QED BY <2>10, <3>2, <3>3 DEF Reviewed
  <2>11. CASE Removed(i)
    <3>1. log[i] # <<>>
      BY <2>11 DEF Removed, FullInv, GateInv, WasReady
    <3>2. old.stage # "unused"
      <4>1. Exists(i) => r.status \in {"new", "accepted", "closed"}
        BY DEF FullInv, TypeInv, TypeOK, Rows, Exists
      <4>2. old.stage = StageOf(i)
        BY <2>3 DEF StageFacts
      <4>3. CASE ~Exists(i)
        BY <2>3, <3>1, <4>2, <4>3 DEF StageFacts
      <4>4. CASE Exists(i)
        BY <2>3, <4>1, <4>2, <4>4 DEF StageFacts
      <4>5. QED BY <4>3, <4>4
    <3>3. new = [stage |-> "withdrawn", holder |-> NoWorker]
      BY <2>3, <2>11, <3>1, LogStays DEF FullInv, StageFacts, Removed, Exists
    <3>4. Ticket!Withdraw(i)
      BY <2>1, <2>2, <3>2, <3>3 DEF Ticket!Withdraw
    <3>5. QED BY <3>4 DEF Ticket!Next
  <2>12. QED BY <1>2, <2>6, <2>7, <2>8, <2>9, <2>10, <2>11 DEF Effect
<1>3. ASSUME \A i \in RequestIds : Unheld(i)
      PROVE  [Ticket!Next]_Tickets
  <2> DEFINE S == {i \in RequestIds : requests'[i] # requests[i]}
  <2>1. ASSUME NEW i \in S
        PROVE  /\ TicketOf(i).stage \in {"held", "done"}
               /\ TicketOf(i)' = [TicketOf(i) EXCEPT !.holder = NoWorker]
    <3>1. /\ requests[i] \in Rows /\ requests'[i] \in Rows
          /\ requests'[i].status = requests[i].status
          /\ requests'[i].approval = requests[i].approval
          /\ requests'[i].deferred = requests[i].deferred
          /\ requests'[i].category = requests[i].category
          /\ requests'[i].worker = NoWorker
      BY <1>3, <2>1 DEF Unheld, SameNature
    <3>2. Exists(i) /\ Exists(i)'
      BY <3>1, ConstantsAssumption DEF Exists
    <3>3. requests[i].worker # NoWorker
      BY <1>3, <2>1 DEF Unheld
    <3>4. RowShape(i)
      BY <3>2 DEF FullInv, ShapeInv
    <3>5. requests[i].status \in {"accepted", "closed"} /\ requests[i].approval # "rejected"
      BY <3>1, <3>3, <3>4 DEF RowShape, Rows
    <3>6. StageFacts(i) /\ StageFacts(i)'
      BY TicketStage
    <3>7. QED BY <3>1, <3>2, <3>5, <3>6 DEF StageFacts
  <2>2. ASSUME NEW i \in RequestIds, i \notin S
        PROVE  TicketOf(i)' = TicketOf(i)
    BY <1>3, <2>2, KeptTicket DEF Kept, Unheld
  <2>3. Tickets' = [i \in RequestIds |-> IF i \in S THEN [Tickets[i] EXCEPT !.holder = NoWorker]
                                                 ELSE Tickets[i]]
    <3> HIDE DEF S
    <3>1. QED BY <2>1, <2>2 DEF Tickets
  <2>4. \A i \in S : Tickets[i].stage \in {"held", "done"}
    BY <2>1 DEF Tickets
  <2>5. S \in SUBSET RequestIds
    OBVIOUS
  <2> HIDE DEF S
  <2>6. Ticket!Forget(S)
    BY <2>3, <2>4 DEF Ticket!Forget
  <2>7. QED BY <2>5, <2>6 DEF Ticket!Next
<1>4. QED BY <1>1, <1>2, <1>3, StepEffect DEF FullInv

(* Every run of the handlers is a run of the tickets.                      *)
THEOREM TicketCorrect == ASSUME ~ReuseIds PROVE Spec => ImplementsTicket
<1>1. Init => FullInv
  BY TypeInit, ShapeInit, GateInit DEF FullInv
<1>2. FullInv /\ [Next]_vars => FullInv'
  BY TypeStep, ShapeStep, GateStep DEF FullInv
<1>3. FullInv /\ FullInv' /\ [Next]_vars => [Ticket!Next]_Tickets
  BY TicketStep
<1>4. QED BY <1>1, <1>2, <1>3, TicketInit, PTL DEF Spec, ImplementsTicket, Ticket!Spec

=============================================================================
