---------------------------- MODULE RequestAudit ----------------------------
(***************************************************************************)
(* The audit trail of RequestLifecycle: table request_events, read back.   *)
(*                                                                         *)
(* request_history shows the events of a request by (created_at, id).  On  *)
(* SQLite this is the order of the commits: both are given by an INSERT    *)
(* that holds the write lock until its COMMIT.  On PostgreSQL created_at   *)
(* is the start of the transaction, which may lie before that of an event  *)
(* committed earlier: nothing is claimed about PostgreSQL.                 *)
(***************************************************************************)
EXTENDS RequestLifecycle

(* What an auditor reconstructs from the events alone.  A request that was *)
(* assigned while it was accepted had been orphaned before.                *)
State(status, worker, orphaned) ==
  [status |-> status, worker |-> worker, orphaned |-> orphaned]
Unknown == State("unknown", NoWorker, FALSE)
Gone    == State("absent", NoWorker, FALSE)

Step(s, e) ==
  CASE e.action = "created" /\ s = Gone -> State("new", NoWorker, FALSE)
    [] e.action = "approved" /\ s.status = "new" -> s
    [] e.action = "rejected" /\ s.status = "new" -> State("closed", NoWorker, FALSE)
    [] e.action \in {"claimed", "assigned"} /\ s.status = "new" ->
         State("accepted", e.worker, FALSE)
    [] e.action = "assigned" /\ s.status = "accepted" -> State("accepted", e.worker, TRUE)
    [] e.action = "reassigned" /\ s.status = "accepted" /\ s.worker = e.previous ->
         State("accepted", e.worker, s.orphaned)
    [] /\ e.action = "closed" /\ s.status = "accepted"
       /\ e.actor \in Workers => s.worker = e.actor ->
         State("closed", s.worker, s.orphaned)
    [] e.action = "deleted" -> Gone
    [] OTHER -> Unknown

Replay(events) ==
  LET state[n \in 0..Len(events)] ==
        IF n = 0 THEN Gone ELSE Step(state[n - 1], events[n])
  IN  state[Len(events)]

(* AuditReplays: on SQLite, replaying the events that request_history shows*)
(* for an id, where each must be legal after the one before it and a       *)
(* reassignment must name the worker it took the request from, gives the   *)
(* row in the table.  The one writer that leaves no event, reject_user,    *)
(* shows only in a request that lost a worker whose account was deleted:   *)
(* such a row has none where the trail names one, and may be assigned anew.*)
(* Holds with reused ids: the events of the deleted request come first.    *)
AuditReplays ==
  ReuseIds =>
    \A i \in RequestIds :
      LET s == Replay(log[i])  r == requests[i] IN
      IF Exists(i)
      THEN /\ s.status = r.status
           /\ s.worker = r.worker \/ (r.worker = NoWorker /\ LostHolder(i))
           /\ s.orphaned => LostHolder(i)
      ELSE s = Gone

=============================================================================
