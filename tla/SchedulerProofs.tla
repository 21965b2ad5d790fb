--------------------------- MODULE SchedulerProofs ---------------------------
(***************************************************************************)
(* Theorems about Scheduler for every set of requests and jobs, any number *)
(* of failures, and both kinds of locks.                                   *)
(***************************************************************************)
EXTENDS Scheduler, TLAPS

(* A run of job j: what it wrote is behind it, what it selected before it. *)
GoodRun(j, r) ==
  /\ (r.cur = None) <=> r.phase \in {"idle", "pick"}
  /\ r.cur \notin r.todo
  /\ r.todo \cap r.wrote = {}
  /\ r.phase = "idle" => r.wrote = {}
  /\ r.phase \in {"update", "queued"} => r.cur \notin r.wrote
  /\ r.phase \in {"workers", "dispatchers"} => r.cur \in r.wrote
  /\ r.phase = "dispatchers" => j \in EscalationJobs

(* Request i waits for what job j does to it.                              *)
Waits(j, i) ==
  /\ Exists(i) /\ rows[i].status = "new" /\ Cleared(rows[i]) /\ Released(i)
  /\ IF j \in EscalationJobs THEN ~rows[i].escalated ELSE ~rows[i].dispatched

(* Only requests that need no approval are deferred.                       *)
GoodRow(r) == r.dispatch # None => r.approval = "none"

TypeInv ==
  /\ now \in Time
  /\ rows \in [Ids -> Rows \cup {NoRow, Gone}]
  /\ run \in [Jobs -> Runs]
  /\ rounds \in [Ids -> [Audiences -> Nat]]
  /\ rollbacks \in Nat

(* The lock: a request that a run has written waits until the run commits, *)
(* and no other run has written it.  A run looks at a clock that was right.*)
LockInv ==
  /\ \A j \in Jobs : GoodRun(j, run[j])
  /\ \A j \in Jobs : run[j].at <= now
  /\ \A i \in Ids : Exists(i) => GoodRow(rows[i])
  /\ \A j \in Jobs : \A i \in run[j].wrote : Waits(j, i)
  /\ \A j, k \in Jobs : j # k => run[j].wrote \cap run[k].wrote = {}

Inv == TypeInv /\ LockInv

(* The clock counts from zero in the natural numbers.                      *)
LEMMA TimeType == Time \subseteq Nat /\ 0 \in Time
BY SchedulerAssumption DEF Time

(* An idle run is a well-formed run of any job.                            *)
LEMMA IdleRunType == IdleRun \in Runs /\ \A j : GoodRun(j, IdleRun)
BY TimeType DEF IdleRun, Runs, GoodRun

(* The invariant holds before the first request is filed.                  *)
LEMMA InvInit == Init => Inv
<1> SUFFICES ASSUME Init PROVE Inv
  OBVIOUS
<1>1. TypeInv
  BY TimeType, IdleRunType DEF Init, TypeInv
<1>2. \A j \in Jobs : run[j] = IdleRun /\ run[j].wrote = {} /\ run[j].at <= now
  BY DEF Init, IdleRun
<1>3. \A i \in Ids : ~Exists(i)
  BY DEF Init, Exists
<1>4. QED BY <1>1, <1>2, <1>3, IdleRunType DEF Inv, LockInv

(* A stored row is a row.                                                  *)
LEMMA RowType ==
  ASSUME TypeInv, NEW i \in Ids, Exists(i)
  PROVE  rows[i] \in Rows
BY DEF TypeInv, Exists

(* A row that a run has written is locked.                                 *)
LEMMA WroteLocked ==
  ASSUME TypeInv, NEW i \in Ids, NEW j \in Jobs, i \in run[j].wrote
  PROVE  Locked(i) /\ \A k \in Jobs \ {j} : LockedFor(k, i)
BY DEF Locked, LockedFor, Holds

(* A handler writes one row that no run has written.                       *)
LEMMA HandlerStep ==
  ASSUME Inv, NEW i \in Ids, NEW r \in Rows \cup {Gone}, r \in Rows => GoodRow(r),
         \A j \in Jobs : i \notin run[j].wrote,
         rows' = [rows EXCEPT ![i] = r],
         UNCHANGED <<now, run, rounds, rollbacks>>
  PROVE  Inv'
<1>1. TypeInv'
  BY DEF Inv, TypeInv
<1>2. \A k \in Ids \ {i} : rows'[k] = rows[k]
  BY DEF Inv, TypeInv
<1>3. rows'[i] = r
  BY DEF Inv, TypeInv
<1>4. \A k \in Ids : Exists(k)' => GoodRow(rows'[k])
  BY <1>2, <1>3, SchedulerAssumption DEF Inv, LockInv, Exists
<1>5. ASSUME NEW j \in Jobs, NEW k \in run[j].wrote
      PROVE  Waits(j, k)'
  <2>1. k \in Ids \ {i}
    BY <1>5 DEF Inv, TypeInv, Runs
  <2>2. Waits(j, k)
    BY <1>5 DEF Inv, LockInv
  <2>3. QED BY <1>2, <2>1, <2>2 DEF Waits, Exists, Cleared, Released
<1>6. QED
  BY <1>1, <1>4, <1>5 DEF Inv, LockInv

(* A run goes on and writes at most a row that waits for it and is free.   *)
LEMMA RunStep ==
  ASSUME Inv, NEW j \in Jobs, NEW r \in Runs, GoodRun(j, r), r.at <= now,
         \A i \in r.wrote : i \in run[j].wrote \/ (Waits(j, i) /\ ~LockedFor(j, i)),
         run' = [run EXCEPT ![j] = r],
         rounds' \in [Ids -> [Audiences -> Nat]], rollbacks' \in Nat,
         UNCHANGED <<now, rows>>
  PROVE  Inv'
<1>1. TypeInv'
  BY DEF Inv, TypeInv
<1>2. run'[j] = r /\ \A k \in Jobs \ {j} : run'[k] = run[k]
  BY DEF Inv, TypeInv
<1>3. \A k \in Jobs : GoodRun(k, run'[k])
  BY <1>2 DEF Inv, LockInv
<1>4. \A k \in Jobs : \A i : Waits(k, i)' <=> Waits(k, i)
  BY DEF Waits, Exists, Released
<1>5. \A k \in Jobs : \A i \in run'[k].wrote : Waits(k, i)'
  BY <1>2, <1>4 DEF Inv, LockInv
<1>6. ASSUME NEW k \in Jobs \ {j}, NEW i \in r.wrote
      PROVE  i \notin run[k].wrote
  <2>1. CASE i \in run[j].wrote
    BY <1>6, <2>1 DEF Inv, LockInv
  <2>2. CASE ~LockedFor(j, i)
    <3>1. i \in Ids
      BY <1>6 DEF Runs
    <3>2. QED BY <1>6, <2>2, <3>1, WroteLocked DEF Inv
  <2>3. QED BY <2>1, <2>2
<1>7. \A k, l \in Jobs : k # l => run'[k].wrote \cap run'[l].wrote = {}
  BY <1>2, <1>6 DEF Inv, LockInv
<1>8. \A i \in Ids : Exists(i)' => GoodRow(rows'[i])
  BY DEF Inv, LockInv, Exists
<1>9. \A k \in Jobs : run'[k].at <= now'
  BY <1>2 DEF Inv, LockInv
<1>10. QED BY <1>1, <1>3, <1>5, <1>7, <1>8, <1>9 DEF Inv, LockInv

(* One more round of messages.                                             *)
LEMMA SendRoundType ==
  ASSUME TypeInv, NEW i \in Ids, NEW a \in Audiences, SendRound(i, a)
  PROVE  /\ rounds' \in [Ids -> [Audiences -> Nat]]
         /\ rounds'[i][a] = rounds[i][a] + 1
         /\ \A k \in Ids, b \in Audiences :
              k # i \/ b # a => rounds'[k][b] = rounds[k][b]
BY DEF TypeInv, SendRound

(* The WHERE clause of the UPDATE selects requests that still wait.        *)
LEMMA MatchWaits ==
  ASSUME Inv, NEW j \in Jobs, NEW i \in Ids, Matches(j, i)
  PROVE  Waits(j, i)
<1>1. rows[i] \in Rows /\ GoodRow(rows[i])
  BY RowType DEF Inv, LockInv, Matches, MayEscalate, MayDispatch
<1>2. run[j].at \in Nat /\ now \in Nat /\ run[j].at <= now
  BY TimeType DEF Inv, TypeInv, LockInv, Runs
<1>3. rows[i].dispatch # None => rows[i].dispatch \in Nat
  BY <1>1, SchedulerAssumption DEF Rows
<1>4. Released(i)
  BY <1>2, <1>3, SchedulerAssumption
  DEF Matches, MayEscalate, MayDispatch, DispatchDue, WaitOver, Released
<1>5. QED
  BY <1>1, <1>4 DEF Matches, MayEscalate, MayDispatch, DispatchDue, Waits, GoodRow, Cleared

(* A row that is not locked, or not stored, is written by no run.          *)
LEMMA FreeRow ==
  ASSUME Inv, NEW i \in Ids, ~Exists(i) \/ ~Locked(i), NEW j \in Jobs
  PROVE  i \notin run[j].wrote
BY WroteLocked DEF Inv, LockInv, Waits

(* Filing, accepting, approving and deleting keep the invariant.           *)
LEMMA HandlersStep ==
  ASSUME Inv, NEW i \in Ids,
         \/ \E a \in {"none", "pending"}, d \in DispatchTimes \cup {None} : File(i, a, d)
         \/ Accept(i) \/ Approve(i) \/ Delete(i)
  PROVE  Inv'
<1>1. ASSUME NEW a \in {"none", "pending"}, NEW d \in DispatchTimes \cup {None},
             File(i, a, d)
      PROVE  Inv'
  <2> DEFINE r == [status |-> "new", approval |-> a, created |-> now,
                   dispatch |-> d, escalated |-> FALSE, dispatched |-> FALSE]
  <2>1. r \in Rows /\ GoodRow(r)
    BY <1>1 DEF File, Rows, GoodRow, Inv, TypeInv
  <2>2. rows' = [rows EXCEPT ![i] = r] /\ UNCHANGED <<now, run, rounds, rollbacks>>
    BY <1>1 DEF File
  <2>3. ~Exists(i)
    BY <1>1 DEF File, Exists
  <2> HIDE DEF r
  <2>4. QED BY <2>1, <2>2, <2>3, FreeRow, HandlerStep
<1>2. CASE Accept(i)
  <2> DEFINE r == [rows[i] EXCEPT !.status = "accepted"]
  <2>1. r \in Rows /\ GoodRow(r)
    BY <1>2, RowType DEF Accept, Rows, GoodRow, Inv, LockInv
  <2>2. rows' = [rows EXCEPT ![i] = r] /\ UNCHANGED <<now, run, rounds, rollbacks>>
    BY <1>2 DEF Accept
  <2>3. ~Locked(i)
    BY <1>2 DEF Accept
  <2> HIDE DEF r
  <2>4. QED BY <2>1, <2>2, <2>3, FreeRow, HandlerStep
<1>3. CASE Approve(i)
  <2> DEFINE r == [rows[i] EXCEPT !.approval = "approved"]
  <2>1. r \in Rows /\ GoodRow(r)
    BY <1>3, RowType DEF Approve, Rows, GoodRow, Inv, LockInv
  <2>2. rows' = [rows EXCEPT ![i] = r] /\ UNCHANGED <<now, run, rounds, rollbacks>>
    BY <1>3 DEF Approve
  <2>3. ~Locked(i)
    BY <1>3 DEF Approve
  <2> HIDE DEF r
  <2>4. QED BY <2>1, <2>2, <2>3, FreeRow, HandlerStep
<1>4. CASE Delete(i)
  <2>1. ~Locked(i) /\ rows' = [rows EXCEPT ![i] = Gone]
        /\ UNCHANGED <<now, run, rounds, rollbacks>>
    BY <1>4 DEF Delete
  <2>2. Gone \notin Rows
    BY SchedulerAssumption
  <2>3. QED BY <2>1, <2>2, FreeRow, HandlerStep
<1>5. QED BY <1>1, <1>2, <1>3, <1>4

(* The marks of a run become visible: every row it wrote was waiting.      *)
LEMMA CommitStep ==
  ASSUME Inv, NEW j \in Jobs, Commit(j)
  PROVE  Inv'
<1>1. run'[j] = IdleRun /\ \A k \in Jobs \ {j} : run'[k] = run[k]
  BY DEF Commit, Inv, TypeInv
<1>2. ASSUME NEW i \in Ids
      PROVE  /\ rows'[i] \in Rows \cup {NoRow, Gone}
             /\ Exists(i)' => GoodRow(rows'[i])
             /\ i \notin run[j].wrote => rows'[i] = rows[i]
  <2>1. i \notin run[j].wrote => rows'[i] = rows[i]
    BY DEF Commit
  <2>2. CASE i \in run[j].wrote
    <3>1. Exists(i) /\ rows[i] \in Rows /\ GoodRow(rows[i])
      BY <2>2, RowType DEF Inv, LockInv, Waits
    <3>2. rows'[i] = Written(j, rows[i])
      BY <2>2 DEF Commit
    <3>3. QED BY <3>1, <3>2, <2>2 DEF Written, Rows, GoodRow
  <2>3. QED BY <2>1, <2>2 DEF Inv, LockInv, TypeInv, Exists
<1>3. TypeInv'
  <2>1. rows' \in [Ids -> Rows \cup {NoRow, Gone}]
    BY <1>2 DEF Commit
  <2>2. run' \in [Jobs -> Runs]
    BY IdleRunType DEF Commit, Inv, TypeInv
  <2>3. QED BY <2>1, <2>2 DEF Commit, Inv, TypeInv
<1>4. IdleRun.wrote = {}
  BY DEF IdleRun
<1>5. ASSUME NEW k \in Jobs, NEW i \in run'[k].wrote
      PROVE  Waits(k, i)'
  <2>1. k # j /\ i \in run[k].wrote
    BY <1>1, <1>4, <1>5
  <2>2. i \in Ids
    BY <2>1 DEF Inv, TypeInv, Runs
  <2>3. rows'[i] = rows[i]
    BY <1>2, <2>1, <2>2 DEF Inv, LockInv
  <2>4. Waits(k, i)
    BY <2>1 DEF Inv, LockInv
  <2>5. now' = now
    BY DEF Commit
  <2>6. QED BY <2>3, <2>4, <2>5 DEF Waits, Exists, Cleared, Released
<1>6. \A k \in Jobs : GoodRun(k, run'[k])
  BY <1>1, IdleRunType DEF Inv, LockInv
<1>7. \A k, l \in Jobs : k # l => run'[k].wrote \cap run'[l].wrote = {}
  BY <1>1, <1>4 DEF Inv, LockInv
<1>8. \A k \in Jobs : run'[k].at <= now'
  <2>1. IdleRun.at = 0 /\ now \in Nat /\ now' = now
    BY TimeType DEF IdleRun, Commit, Inv, TypeInv
  <2>2. QED BY <1>1, <2>1 DEF Inv, LockInv
<1>9. QED BY <1>2, <1>3, <1>5, <1>6, <1>7, <1>8 DEF Inv, LockInv

(* Every step of a job, failures included, keeps the invariant.            *)
LEMMA JobsStep ==
  ASSUME Inv, NEW j \in Jobs,
         Start(j) \/ JobStep(j) \/ Fail(j) \/ DeadlockVictim(j)
  PROVE  Inv'
<1> DEFINE r == run[j]
<1>1. r \in Runs /\ GoodRun(j, r) /\ r.wrote \subseteq Ids /\ r.at <= now
  BY DEF Inv, TypeInv, LockInv, Runs
<1>2. TypeInv /\ now \in Nat
  BY TimeType DEF Inv, TypeInv
<1>3. CASE Start(j)
  <2> DEFINE q == [phase |-> "pick", at |-> now, todo |-> Selected(j), cur |-> None,
                   wrote |-> {}]
  <2>1. Selected(j) \subseteq Ids
    BY DEF Selected
  <2>2. q \in Runs /\ GoodRun(j, q) /\ q.wrote = {} /\ q.at <= now
    BY <1>2, <2>1, SchedulerAssumption DEF Runs, GoodRun, TypeInv
  <2>3. run' = [run EXCEPT ![j] = q] /\ UNCHANGED <<now, rows, rounds, rollbacks>>
    BY <1>3 DEF Start
  <2>4. rounds' \in [Ids -> [Audiences -> Nat]] /\ rollbacks' \in Nat
    BY <1>2, <2>3 DEF TypeInv
  <2> HIDE DEF q
  <2>5. QED BY <2>2, <2>3, <2>4, RunStep
<1>4. CASE Pick(j)
  <2>1. PICK i \in r.todo : run' = [run EXCEPT ![j].phase = "update", ![j].cur = i,
                                                ![j].todo = @ \ {i}]
    BY <1>4 DEF Pick
  <2> DEFINE q == [r EXCEPT !.phase = "update", !.cur = i, !.todo = @ \ {i}]
  <2>2. q \in Runs /\ GoodRun(j, q) /\ q.wrote = r.wrote /\ q.at = r.at
    BY <1>1, <1>4, SchedulerAssumption DEF Pick, Runs, GoodRun
  <2>3. run' = [run EXCEPT ![j] = q]
    BY <1>2, <2>1 DEF TypeInv
  <2>4. QED BY <1>1, <1>2, <1>4, <2>2, <2>3, RunStep DEF Pick, TypeInv
<1>5. CASE Queue(j)
  <2> DEFINE q == [r EXCEPT !.phase = "queued"]
  <2>1. q \in Runs /\ GoodRun(j, q) /\ q.wrote = r.wrote /\ q.at = r.at
    BY <1>1, <1>5 DEF Queue, Runs, GoodRun
  <2>2. run' = [run EXCEPT ![j] = q]
    BY <1>5 DEF Queue
  <2>3. QED BY <1>1, <1>2, <1>5, <2>1, <2>2, RunStep DEF Queue, TypeInv
<1>6. CASE Update(j)
  <2>1. r.cur \in Ids /\ r.phase \in {"update", "queued"} /\ r.cur \notin r.wrote
    BY <1>1, <1>6 DEF Update, Runs, GoodRun
  <2>2. CASE Matches(j, r.cur)
    <3> DEFINE q == [r EXCEPT !.phase = "workers", !.wrote = @ \cup {r.cur}]
    <3>1. q \in Runs /\ GoodRun(j, q) /\ q.wrote = r.wrote \cup {r.cur} /\ q.at = r.at
      BY <1>1, <2>1 DEF Runs, GoodRun
    <3>2. run' = [run EXCEPT ![j] = q]
      BY <1>6, <2>2 DEF Update
    <3>3. Waits(j, r.cur) /\ ~LockedFor(j, r.cur)
      BY <1>6, <2>1, <2>2, MatchWaits DEF Update
    <3>4. QED BY <1>1, <1>2, <1>6, <3>1, <3>2, <3>3, RunStep DEF Update, TypeInv
  <2>3. CASE ~Matches(j, r.cur)
    <3> DEFINE q == [r EXCEPT !.phase = "pick", !.cur = None]
    <3>1. q \in Runs /\ GoodRun(j, q) /\ q.wrote = r.wrote /\ q.at = r.at
      BY <1>1, <2>1, SchedulerAssumption DEF Runs, GoodRun
    <3>2. run' = [run EXCEPT ![j] = q]
      BY <1>6, <2>3 DEF Update
    <3>3. QED BY <1>1, <1>2, <1>6, <3>1, <3>2, RunStep DEF Update, TypeInv
  <2>4. QED BY <2>2, <2>3
<1>7. CASE TellWorkers(j)
  <2>1. r.cur \in Ids /\ r.phase = "workers" /\ r.cur \in r.wrote
    BY <1>1, <1>7 DEF TellWorkers, Runs, GoodRun
  <2>2. PICK a \in Audiences : SendRound(r.cur, a)
    BY <1>7 DEF TellWorkers, Audiences
  <2>3. rounds' \in [Ids -> [Audiences -> Nat]]
    BY <1>2, <2>1, <2>2, SendRoundType
  <2>4. CASE j \in EscalationJobs
    <3> DEFINE q == [r EXCEPT !.phase = "dispatchers"]
    <3>1. q \in Runs /\ GoodRun(j, q) /\ q.wrote = r.wrote /\ q.at = r.at
      BY <1>1, <2>1, <2>4 DEF Runs, GoodRun
    <3>2. run' = [run EXCEPT ![j] = q]
      BY <1>7, <2>4 DEF TellWorkers
    <3>3. QED BY <1>1, <1>2, <1>7, <2>3, <3>1, <3>2, RunStep DEF TellWorkers, TypeInv
  <2>5. CASE j \notin EscalationJobs
    <3> DEFINE q == [r EXCEPT !.phase = "pick", !.cur = None]
    <3>1. q \in Runs /\ GoodRun(j, q) /\ q.wrote = r.wrote /\ q.at = r.at
      BY <1>1, <2>1, SchedulerAssumption DEF Runs, GoodRun
    <3>2. run' = [run EXCEPT ![j] = q]
      BY <1>7, <2>5 DEF TellWorkers
    <3>3. QED BY <1>1, <1>2, <1>7, <2>3, <3>1, <3>2, RunStep DEF TellWorkers, TypeInv
  <2>6. QED BY <2>4, <2>5
<1>8. CASE TellDispatchers(j)
  <2>1. r.cur \in Ids /\ r.phase = "dispatchers" /\ r.cur \in r.wrote
    BY <1>1, <1>8 DEF TellDispatchers, Runs, GoodRun
  <2>2. rounds' \in [Ids -> [Audiences -> Nat]]
    BY <1>2, <1>8, <2>1, SendRoundType DEF TellDispatchers, Audiences
  <2> DEFINE q == [r EXCEPT !.phase = "pick", !.cur = None]
  <2>3. q \in Runs /\ GoodRun(j, q) /\ q.wrote = r.wrote /\ q.at = r.at
    BY <1>1, <2>1, SchedulerAssumption DEF Runs, GoodRun
  <2>4. run' = [run EXCEPT ![j] = q]
    BY <1>8 DEF TellDispatchers
  <2>5. QED BY <1>1, <1>2, <1>8, <2>2, <2>3, <2>4, RunStep DEF TellDispatchers, TypeInv
<1>9. CASE Fail(j) \/ DeadlockVictim(j)
  <2>1. Rollback(j)
    BY <1>9 DEF Fail, DeadlockVictim
  <2>2. IdleRun \in Runs /\ GoodRun(j, IdleRun) /\ IdleRun.wrote = {}
       /\ IdleRun.at <= now
    BY <1>2, IdleRunType DEF IdleRun
  <2>3. rollbacks' \in Nat
    BY <1>2, <2>1 DEF Rollback, TypeInv
  <2>4. QED BY <1>2, <2>1, <2>2, <2>3, RunStep DEF Rollback, TypeInv
<1>10. QED
  BY <1>3, <1>4, <1>5, <1>6, <1>7, <1>8, <1>9, CommitStep DEF JobStep

(* The invariant is inductive.                                             *)
LEMMA InvStep == Inv /\ [Next]_vars => Inv'
<1> SUFFICES ASSUME Inv, [Next]_vars PROVE Inv'
  OBVIOUS
<1>1. CASE Tick
  <2>1. TypeInv'
    BY <1>1, SchedulerAssumption DEF Tick, Inv, TypeInv, Time
  <2>2. now \in Nat /\ now' = now + 1 /\ UNCHANGED <<rows, run>>
    BY <1>1, TimeType DEF Tick, Inv, TypeInv
  <2>3. \A j \in Jobs : run[j].at \in Nat /\ run[j].at <= now
    BY TimeType DEF Inv, TypeInv, LockInv, Runs
  <2>4. \A j \in Jobs : run'[j].at <= now'
    BY <2>2, <2>3
  <2>5. ASSUME NEW i \in Ids, Exists(i), Released(i)
        PROVE  Released(i)'
    <3>1. rows[i].dispatch \in Nat \cup {None}
      BY <2>5, RowType, SchedulerAssumption DEF Inv, Rows
    <3>2. QED BY <2>2, <2>5, <3>1 DEF Released
  <2>6. ASSUME NEW j \in Jobs, NEW i \in run[j].wrote
        PROVE  Waits(j, i)'
    <3>1. i \in Ids /\ Waits(j, i)
      BY <2>6 DEF Inv, TypeInv, LockInv, Runs
    <3>2. QED BY <2>2, <2>5, <3>1 DEF Waits, Exists, Cleared
  <2>7. LockInv'
    BY <2>2, <2>4, <2>6 DEF Inv, LockInv, Exists
  <2>8. QED BY <2>1, <2>7 DEF Inv
<1>2. CASE UNCHANGED vars
  <2>1. TypeInv'
    BY <1>2 DEF vars, Inv, TypeInv
  <2>2. LockInv'
    BY <1>2 DEF vars, Inv, LockInv, Waits, Exists, Cleared, Released
  <2>3. QED BY <2>1, <2>2 DEF Inv
<1>3. QED
  BY <1>1, <1>2, HandlersStep, JobsStep DEF Next

(* Every variable keeps its type, and a run never meets its request again. *)
THEOREM TypeCorrect == Spec => []TypeOK
<1>1. Inv => TypeOK
  BY DEF Inv, TypeInv, LockInv, GoodRun, TypeOK
<1>2. QED BY InvInit, InvStep, <1>1, PTL DEF Spec

(* The lock of the UPDATE keeps its check true until the messages are out. *)
THEOREM PagedCorrect == Spec => []PagedWhileWaiting
<1>1. Inv => PagedWhileWaiting
  BY DEF Inv, LockInv, GoodRun, Waits, PagedWhileWaiting
<1>2. QED BY InvInit, InvStep, <1>1, PTL DEF Spec

-----------------------------------------------------------------------------
(***************************************************************************)
(* What was tried.  Run j has been through its messages about request i to *)
(* audience a and has not committed; or the request is marked, or gone, and*)
(* stays so.                                                               *)
(***************************************************************************)
Tried(j, i, a) ==
  LET r == run[j] IN
  /\ i \in r.wrote
  /\ (a = "released") <=> (j \notin EscalationJobs)
  /\ r.cur = i => r.phase = "dispatchers" /\ a = "workers"

Marked(i, a) ==
  /\ Exists(i)
  /\ IF a = "released" THEN rows[i].dispatched ELSE rows[i].escalated

Settled(i, a) ==
  rows[i] = Gone \/ Marked(i, a) \/ \E j \in Jobs : Tried(j, i, a)

RoundsInv ==
  \A i \in Ids, a \in Audiences :
    /\ rounds[i][a] <= rollbacks + (IF Settled(i, a) THEN 1 ELSE 0)
    /\ Marked(i, a) \/ (\E j \in Jobs : Tried(j, i, a)) => rounds[i][a] > 0

(* Before the first request no message has been sent.                      *)
LEMMA RoundsInit == Init => RoundsInv
<1> SUFFICES ASSUME Init, NEW i \in Ids, NEW a \in Audiences
             PROVE  /\ rounds[i][a] <= rollbacks + (IF Settled(i, a) THEN 1 ELSE 0)
                    /\ Marked(i, a) \/ (\E j \in Jobs : Tried(j, i, a)) => rounds[i][a] > 0
  BY DEF RoundsInv
<1>1. rounds[i][a] = 0 /\ rollbacks = 0
  BY DEF Init
<1>2. ~Marked(i, a) /\ \A j \in Jobs : ~Tried(j, i, a)
  BY DEF Init, Marked, Exists, Tried, IdleRun
<1>3. QED BY <1>1, <1>2

(* The numbers agree after a step that says nothing, undoes nothing, and   *)
(* unsettles nothing.                                                      *)
LEMMA QuietStep ==
  ASSUME TypeInv, RoundsInv, NEW i \in Ids, NEW a \in Audiences,
         rounds'[i][a] = rounds[i][a],
         rollbacks' \in Nat,
         \/ rollbacks' = rollbacks /\ (Settled(i, a) => Settled(i, a)')
         \/ rollbacks' = rollbacks + 1,
         Marked(i, a)' \/ (\E j \in Jobs : Tried(j, i, a)')
           => Marked(i, a) \/ \E j \in Jobs : Tried(j, i, a)
  PROVE  /\ rounds'[i][a] <= rollbacks' + (IF Settled(i, a)' THEN 1 ELSE 0)
         /\ Marked(i, a)' \/ (\E j \in Jobs : Tried(j, i, a)') => rounds'[i][a] > 0
<1>1. rounds[i][a] \in Nat /\ rollbacks \in Nat
  BY DEF TypeInv
<1>2. rounds[i][a] <= rollbacks + (IF Settled(i, a) THEN 1 ELSE 0)
  BY DEF RoundsInv
<1>3. Marked(i, a) \/ (\E j \in Jobs : Tried(j, i, a)) => rounds[i][a] > 0
  BY DEF RoundsInv
<1>4. QED BY <1>1, <1>2, <1>3

(* The handlers do not touch a run, and a mark is never taken off a row.   *)
LEMMA RoundsHandlers ==
  ASSUME Inv, RoundsInv, NEW k \in Ids,
         \/ \E a \in {"none", "pending"}, d \in DispatchTimes \cup {None} : File(k, a, d)
         \/ Accept(k) \/ Approve(k) \/ Delete(k)
  PROVE  RoundsInv'
<1> SUFFICES ASSUME NEW i \in Ids, NEW a \in Audiences
             PROVE  /\ rounds'[i][a] <= rollbacks' + (IF Settled(i, a)' THEN 1 ELSE 0)
                    /\ Marked(i, a)' \/ (\E j \in Jobs : Tried(j, i, a)')
                         => rounds'[i][a] > 0
  BY DEF RoundsInv
<1>1. UNCHANGED <<run, rounds, rollbacks>>
  BY DEF File, Accept, Approve, Delete
<1>2. i # k => rows'[i] = rows[i]
  <2>1. ASSUME NEW x \in {"none", "pending"}, NEW d \in DispatchTimes \cup {None},
               File(k, x, d), i # k
        PROVE  rows'[i] = rows[i]
    BY <2>1 DEF File, Inv, TypeInv
  <2>2. CASE Accept(k) \/ Approve(k) \/ Delete(k)
    BY <2>2 DEF Accept, Approve, Delete, Inv, TypeInv
  <2>3. QED BY <2>1, <2>2
<1>3. \A j \in Jobs : Tried(j, i, a)' <=> Tried(j, i, a)
  BY <1>1 DEF Tried
<1>4. ASSUME Accept(k) \/ Approve(k)
      PROVE  /\ Exists(k) /\ rows[k] \in Rows /\ rows'[k] \in Rows
             /\ rows'[k].escalated = rows[k].escalated
             /\ rows'[k].dispatched = rows[k].dispatched
  <2>1. Exists(k) /\ rows[k] \in Rows
    BY <1>4, RowType DEF Accept, Approve, Inv
  <2>2. \/ rows'[k] = [rows[k] EXCEPT !.status = "accepted"]
        \/ rows'[k] = [rows[k] EXCEPT !.approval = "approved"]
    BY <1>4 DEF Accept, Approve, Inv, TypeInv
  <2>3. QED BY <2>1, <2>2 DEF Rows
<1>5. Marked(i, a)' => Marked(i, a)
  <2>1. CASE i # k
    BY <1>2, <2>1 DEF Marked, Exists
  <2>2. CASE i = k
    <3>1. ASSUME NEW x \in {"none", "pending"}, NEW d \in DispatchTimes \cup {None},
                 File(k, x, d)
          PROVE  ~Marked(i, a)'
      BY <2>2, <3>1 DEF File, Marked, Inv, TypeInv
    <3>2. CASE Accept(k) \/ Approve(k)
      BY <1>4, <2>2, <3>2 DEF Marked
    <3>3. CASE Delete(k)
      BY <2>2, <3>3 DEF Delete, Marked, Exists, Inv, TypeInv
    <3>4. QED BY <3>1, <3>2, <3>3
  <2>3. QED BY <2>1, <2>2
<1>6. rows[i] = Gone \/ Marked(i, a) => rows'[i] = Gone \/ Marked(i, a)'
  <2>1. CASE i # k
    BY <1>2, <2>1 DEF Marked, Exists
  <2>2. CASE i = k
    <3>1. ASSUME NEW x \in {"none", "pending"}, NEW d \in DispatchTimes \cup {None},
                 File(k, x, d)
          PROVE  ~(rows[i] = Gone \/ Marked(i, a))
      BY <2>2, <3>1, SchedulerAssumption DEF File, Marked, Exists
    <3>2. CASE Accept(k) \/ Approve(k)
      <4>1. rows[i] # Gone /\ Exists(i)'
        BY <1>4, <2>2, <3>2, SchedulerAssumption DEF Exists
      <4>2. QED BY <1>4, <2>2, <3>2, <4>1 DEF Marked
    <3>3. CASE Delete(k)
      BY <2>2, <3>3 DEF Delete, Inv, TypeInv
    <3>4. QED BY <3>1, <3>2, <3>3
  <2>3. QED BY <2>1, <2>2
<1>7. Settled(i, a) => Settled(i, a)'
  BY <1>3, <1>6 DEF Settled
<1>8. rollbacks' \in Nat
  BY <1>1 DEF Inv, TypeInv
<1>9. QED BY <1>1, <1>3, <1>5, <1>7, <1>8, QuietStep DEF Inv

(* What others have heard does not change with the run of job j.           *)
LEMMA OtherRuns ==
  ASSUME TypeInv, NEW j \in Jobs, NEW q, run' = [run EXCEPT ![j] = q],
         NEW i, NEW a
  PROVE  \A k \in Jobs \ {j} : Tried(k, i, a)' <=> Tried(k, i, a)
<1>1. \A k \in Jobs \ {j} : run'[k] = run[k]
  BY DEF TypeInv
<1>2. QED BY <1>1 DEF Tried

(* A run goes on without saying anything.                                  *)
LEMMA SilentRun ==
  ASSUME Inv, RoundsInv, NEW j \in Jobs, NEW q, run' = [run EXCEPT ![j] = q],
         UNCHANGED <<rows, rounds, rollbacks>>,
         \A i \in Ids, a \in Audiences : Tried(j, i, a)' <=> Tried(j, i, a)
  PROVE  RoundsInv'
<1> SUFFICES ASSUME NEW i \in Ids, NEW a \in Audiences
             PROVE  /\ rounds'[i][a] <= rollbacks' + (IF Settled(i, a)' THEN 1 ELSE 0)
                    /\ Marked(i, a)' \/ (\E k \in Jobs : Tried(k, i, a)')
                         => rounds'[i][a] > 0
  BY DEF RoundsInv
<1>1. \A k \in Jobs : Tried(k, i, a)' <=> Tried(k, i, a)
  BY OtherRuns DEF Inv
<1>2. Marked(i, a)' <=> Marked(i, a)
  BY DEF Marked, Exists
<1>3. Settled(i, a)' <=> Settled(i, a)
  BY <1>1, <1>2 DEF Settled
<1>4. rollbacks' \in Nat
  BY DEF Inv, TypeInv
<1>5. QED BY <1>1, <1>2, <1>3, <1>4, QuietStep DEF Inv

(* A run tells audience b about its request k, which had not heard of it.  *)
LEMMA SpokenRun ==
  ASSUME Inv, RoundsInv, NEW j \in Jobs, NEW q, run' = [run EXCEPT ![j] = q],
         UNCHANGED <<rows, rollbacks>>,
         NEW k \in Ids, NEW b \in Audiences, SendRound(k, b),
         ~Settled(k, b), Tried(j, k, b)',
         \A i \in Ids, a \in Audiences :
           i # k \/ a # b => (Tried(j, i, a)' <=> Tried(j, i, a))
  PROVE  RoundsInv'
<1> SUFFICES ASSUME NEW i \in Ids, NEW a \in Audiences
             PROVE  /\ rounds'[i][a] <= rollbacks' + (IF Settled(i, a)' THEN 1 ELSE 0)
                    /\ Marked(i, a)' \/ (\E l \in Jobs : Tried(l, i, a)')
                         => rounds'[i][a] > 0
  BY DEF RoundsInv
<1>1. CASE i = k /\ a = b
  <2>1. Settled(i, a)'
    BY <1>1 DEF Settled
  <2>2. rounds'[i][a] = rounds[i][a] + 1 /\ rounds[i][a] \in Nat /\ rollbacks \in Nat
    BY <1>1, SendRoundType DEF Inv, TypeInv
  <2>3. rounds[i][a] <= rollbacks
    BY <1>1, <2>2 DEF RoundsInv
  <2>4. QED BY <2>1, <2>2, <2>3
<1>2. CASE i # k \/ a # b
  <2>1. rounds'[i][a] = rounds[i][a]
    BY <1>2, SendRoundType DEF Inv
  <2>2. \A l \in Jobs : Tried(l, i, a)' <=> Tried(l, i, a)
    BY <1>2, OtherRuns DEF Inv
  <2>3. Marked(i, a)' <=> Marked(i, a)
    BY DEF Marked, Exists
  <2>4. Settled(i, a)' <=> Settled(i, a)
    BY <2>2, <2>3 DEF Settled
  <2>5. rollbacks' \in Nat
    BY DEF Inv, TypeInv
  <2>6. QED BY <2>1, <2>2, <2>3, <2>4, <2>5, QuietStep DEF Inv
<1>3. QED BY <1>1, <1>2

(* While a run works on a request it alone has written, nobody has heard.  *)
LEMMA NotSettled ==
  ASSUME Inv, NEW j \in Jobs, NEW i \in Ids, NEW a \in Audiences,
         run[j].cur = i,
         \/ run[j].phase = "workers"
         \/ run[j].phase = "dispatchers" /\ a = "dispatchers",
         (a = "released") <=> (j \notin EscalationJobs)
  PROVE  ~Settled(i, a)
<1>1. i \in run[j].wrote
  BY DEF Inv, LockInv, GoodRun
<1>2. Waits(j, i)
  BY <1>1 DEF Inv, LockInv
<1>3. rows[i] # Gone /\ ~Marked(i, a)
  BY <1>2 DEF Waits, Exists, Marked
<1>4. ~Tried(j, i, a)
  BY DEF Tried
<1>5. \A k \in Jobs \ {j} : ~Tried(k, i, a)
  BY <1>1 DEF Tried, Inv, LockInv
<1>6. QED BY <1>3, <1>4, <1>5 DEF Settled

(* COMMIT turns what a run has announced into marks, no more and no less.  *)
LEMMA RoundsCommit ==
  ASSUME Inv, RoundsInv, NEW j \in Jobs, Commit(j)
  PROVE  RoundsInv'
<1> SUFFICES ASSUME NEW i \in Ids, NEW a \in Audiences
             PROVE  /\ rounds'[i][a] <= rollbacks' + (IF Settled(i, a)' THEN 1 ELSE 0)
                    /\ Marked(i, a)' \/ (\E k \in Jobs : Tried(k, i, a)')
                         => rounds'[i][a] > 0
  BY DEF RoundsInv
<1>1. rounds' = rounds /\ rollbacks' = rollbacks /\ rollbacks \in Nat
  BY DEF Commit, Inv, TypeInv
<1>2. \A k \in Jobs \ {j} : Tried(k, i, a)' <=> Tried(k, i, a)
  BY OtherRuns DEF Commit, Inv
<1>3. ~Tried(j, i, a)'
  <2>1. run'[j].wrote = {}
    BY DEF Commit, IdleRun, Inv, TypeInv
  <2>2. QED BY <2>1 DEF Tried
<1>4. CASE i \notin run[j].wrote
  <2>1. rows'[i] = rows[i]
    BY <1>4 DEF Commit
  <2>2. (Marked(i, a)' <=> Marked(i, a)) /\ ~Tried(j, i, a)
    BY <1>4, <2>1 DEF Marked, Exists, Tried
  <2>3. Settled(i, a) <=> Settled(i, a)'
    BY <1>2, <1>3, <2>1, <2>2 DEF Settled
  <2>4. QED BY <1>1, <1>2, <1>3, <2>2, <2>3, QuietStep DEF Inv
<1>5. CASE i \in run[j].wrote
  <2>1. Exists(i) /\ rows[i] \in Rows
    BY <1>5, RowType DEF Inv, LockInv, Waits
  <2>2. rows'[i] = Written(j, rows[i])
    BY <1>5 DEF Commit
  <2>3. rows'[i] \in Rows
    BY <2>1, <2>2 DEF Written, Rows
  <2>4. Exists(i)'
    BY <2>3, SchedulerAssumption DEF Exists
  <2>5. IF j \in EscalationJobs
        THEN rows'[i].escalated /\ rows'[i].dispatched = rows[i].dispatched
        ELSE rows'[i].dispatched /\ rows'[i].escalated = rows[i].escalated
    BY <2>1, <2>2 DEF Written, Rows
  <2>6. run[j].cur # i
    BY <1>5, SchedulerAssumption DEF Commit, Inv, LockInv, GoodRun
  <2>7. Tried(j, i, a) <=> ((a = "released") <=> (j \notin EscalationJobs))
    BY <1>5, <2>6 DEF Tried
  <2>8. Marked(i, a)' <=> Marked(i, a) \/ Tried(j, i, a)
    BY <2>1, <2>4, <2>5, <2>7 DEF Marked
  <2>9. Settled(i, a) => Settled(i, a)'
    BY <1>2, <2>1, <2>8 DEF Settled, Exists
  <2>10. QED BY <1>1, <1>2, <1>3, <2>8, <2>9, QuietStep DEF Inv
<1>6. QED BY <1>4, <1>5

(* A rollback undoes the marks, not the messages, and is counted.          *)
LEMMA RoundsRollback ==
  ASSUME Inv, RoundsInv, NEW j \in Jobs, Rollback(j), UNCHANGED rows
  PROVE  RoundsInv'
<1> SUFFICES ASSUME NEW i \in Ids, NEW a \in Audiences
             PROVE  /\ rounds'[i][a] <= rollbacks' + (IF Settled(i, a)' THEN 1 ELSE 0)
                    /\ Marked(i, a)' \/ (\E k \in Jobs : Tried(k, i, a)')
                         => rounds'[i][a] > 0
  BY DEF RoundsInv
<1>1. rounds' = rounds /\ rollbacks' = rollbacks + 1 /\ rollbacks' \in Nat
  BY DEF Rollback, Inv, TypeInv
<1>2. \A k \in Jobs \ {j} : Tried(k, i, a)' <=> Tried(k, i, a)
  BY OtherRuns DEF Rollback, Inv
<1>3. ~Tried(j, i, a)'
  <2>1. run'[j].wrote = {}
    BY DEF Rollback, IdleRun, Inv, TypeInv
  <2>2. QED BY <2>1 DEF Tried
<1>4. Marked(i, a)' <=> Marked(i, a)
  BY DEF Marked, Exists
<1>5. QED BY <1>1, <1>2, <1>3, <1>4, QuietStep DEF Inv

(* Every step of a job keeps the account of the messages.                  *)
LEMMA RoundsJobs ==
  ASSUME Inv, RoundsInv, NEW j \in Jobs,
         Start(j) \/ JobStep(j) \/ Fail(j) \/ DeadlockVictim(j)
  PROVE  RoundsInv'
<1> DEFINE r == run[j]
<1>1. r \in Runs /\ GoodRun(j, r) /\ r.wrote \subseteq Ids
  BY DEF Inv, TypeInv, LockInv, Runs
<1>2. run \in [Jobs -> Runs]
  BY DEF Inv, TypeInv
<1>3. CASE Start(j)
  <2> DEFINE q == [phase |-> "pick", at |-> now, todo |-> Selected(j), cur |-> None,
                   wrote |-> {}]
  <2>1. run' = [run EXCEPT ![j] = q] /\ UNCHANGED <<rows, rounds, rollbacks>>
    BY <1>3 DEF Start
  <2>2. r.wrote = {} /\ run'[j].wrote = {}
    BY <1>1, <1>2, <1>3, <2>1 DEF Start, GoodRun
  <2> HIDE DEF q
  <2>3. QED BY <2>1, <2>2, SilentRun DEF Tried
<1>4. CASE Pick(j)
  <2>1. PICK i \in r.todo : run' = [run EXCEPT ![j].phase = "update", ![j].cur = i,
                                                ![j].todo = @ \ {i}]
    BY <1>4 DEF Pick
  <2> DEFINE q == [r EXCEPT !.phase = "update", !.cur = i, !.todo = @ \ {i}]
  <2>2. run' = [run EXCEPT ![j] = q] /\ UNCHANGED <<rows, rounds, rollbacks>>
    BY <1>2, <1>4, <2>1 DEF Pick
  <2>3. run'[j].wrote = r.wrote /\ run'[j].cur = i
    BY <1>1, <1>2, <2>2 DEF Runs
  <2>4. i \notin r.wrote /\ r.cur \notin r.wrote
    BY <1>1, <1>4, SchedulerAssumption DEF Pick, GoodRun
  <2> HIDE DEF q
  <2>5. QED BY <2>2, <2>3, <2>4, SilentRun DEF Tried
<1>5. CASE Queue(j)
  <2> DEFINE q == [r EXCEPT !.phase = "queued"]
  <2>1. run' = [run EXCEPT ![j] = q] /\ UNCHANGED <<rows, rounds, rollbacks>>
    BY <1>5 DEF Queue
  <2>2. run'[j].wrote = r.wrote /\ run'[j].cur = r.cur
    BY <1>1, <1>2, <2>1 DEF Runs
  <2>3. r.cur \notin r.wrote
    BY <1>1, <1>5 DEF Queue, GoodRun
  <2> HIDE DEF q
  <2>4. QED BY <2>1, <2>2, <2>3, SilentRun DEF Tried
<1>6. CASE Update(j)
  <2>1. r.cur \notin r.wrote /\ r.phase \in {"update", "queued"}
    BY <1>1, <1>6 DEF Update, GoodRun
  <2>2. CASE Matches(j, r.cur)
    <3> DEFINE q == [r EXCEPT !.phase = "workers", !.wrote = @ \cup {r.cur}]
    <3>1. run' = [run EXCEPT ![j] = q] /\ UNCHANGED <<rows, rounds, rollbacks>>
      BY <1>6, <2>2 DEF Update
    <3>2. run'[j].wrote = r.wrote \cup {r.cur} /\ run'[j].cur = r.cur
          /\ run'[j].phase = "workers"
      BY <1>1, <1>2, <3>1 DEF Runs
    <3> HIDE DEF q
    <3>3. QED BY <2>1, <3>1, <3>2, SilentRun DEF Tried
  <2>3. CASE ~Matches(j, r.cur)
    <3> DEFINE q == [r EXCEPT !.phase = "pick", !.cur = None]
    <3>1. run' = [run EXCEPT ![j] = q] /\ UNCHANGED <<rows, rounds, rollbacks>>
      BY <1>6, <2>3 DEF Update
    <3>2. run'[j].wrote = r.wrote /\ run'[j].cur = None
      BY <1>1, <1>2, <3>1 DEF Runs
    <3> HIDE DEF q
    <3>3. QED BY <2>1, <3>1, <3>2, SilentRun, SchedulerAssumption DEF Tried
  <2>4. QED BY <2>2, <2>3
<1>7. CASE TellWorkers(j)
  <2>1. r.cur \in Ids /\ r.phase = "workers" /\ r.cur \in r.wrote
    BY <1>1, <1>7 DEF TellWorkers, Runs, GoodRun
  <2>2. PICK k \in Ids : k = r.cur
    BY <2>1
  <2>3. CASE j \in EscalationJobs
    <3> DEFINE q == [r EXCEPT !.phase = "dispatchers"]
    <3>1. run' = [run EXCEPT ![j] = q] /\ SendRound(k, "workers")
          /\ UNCHANGED <<rows, rollbacks>>
      BY <1>7, <2>2, <2>3 DEF TellWorkers
    <3>2. run'[j].wrote = r.wrote /\ run'[j].cur = k /\ run'[j].phase = "dispatchers"
      BY <1>1, <1>2, <2>2, <3>1 DEF Runs
    <3>3. "workers" \in Audiences /\ ~Settled(k, "workers")
      BY <2>1, <2>2, <2>3, NotSettled DEF Audiences
    <3> HIDE DEF q
    <3>4. Tried(j, k, "workers")'
      BY <2>1, <2>2, <2>3, <3>2 DEF Tried
    <3>5. \A i \in Ids, a \in Audiences :
            i # k \/ a # "workers" => (Tried(j, i, a)' <=> Tried(j, i, a))
      BY <2>1, <2>2, <3>2 DEF Tried
    <3>6. QED BY <3>1, <3>3, <3>4, <3>5, SpokenRun
  <2>4. CASE j \notin EscalationJobs
    <3> DEFINE q == [r EXCEPT !.phase = "pick", !.cur = None]
    <3>1. run' = [run EXCEPT ![j] = q] /\ SendRound(k, "released")
          /\ UNCHANGED <<rows, rollbacks>>
      BY <1>7, <2>2, <2>4 DEF TellWorkers
    <3>2. run'[j].wrote = r.wrote /\ run'[j].cur = None /\ None \notin Ids
      BY <1>1, <1>2, <3>1, SchedulerAssumption DEF Runs
    <3>3. "released" \in Audiences /\ ~Settled(k, "released")
      BY <2>1, <2>2, <2>4, NotSettled DEF Audiences
    <3> HIDE DEF q
    <3>4. Tried(j, k, "released")'
      BY <2>1, <2>2, <2>4, <3>2 DEF Tried
    <3>5. \A i \in Ids, a \in Audiences :
            i # k \/ a # "released" => (Tried(j, i, a)' <=> Tried(j, i, a))
      BY <2>1, <2>2, <2>4, <3>2 DEF Tried
    <3>6. QED BY <3>1, <3>3, <3>4, <3>5, SpokenRun
  <2>5. QED BY <2>3, <2>4
<1>8. CASE TellDispatchers(j)
  <2>1. r.cur \in Ids /\ r.phase = "dispatchers" /\ r.cur \in r.wrote
        /\ j \in EscalationJobs
    BY <1>1, <1>8 DEF TellDispatchers, Runs, GoodRun
  <2>2. PICK k \in Ids : k = r.cur
    BY <2>1
  <2> DEFINE q == [r EXCEPT !.phase = "pick", !.cur = None]
  <2>3. run' = [run EXCEPT ![j] = q] /\ SendRound(k, "dispatchers")
        /\ UNCHANGED <<rows, rollbacks>>
    BY <1>8, <2>2 DEF TellDispatchers
  <2>4. run'[j].wrote = r.wrote /\ run'[j].cur = None /\ None \notin Ids
    BY <1>1, <1>2, <2>3, SchedulerAssumption DEF Runs
  <2>5. "dispatchers" \in Audiences /\ ~Settled(k, "dispatchers")
    BY <2>1, <2>2, NotSettled DEF Audiences
  <2> HIDE DEF q
  <2>6. Tried(j, k, "dispatchers")'
    BY <2>1, <2>2, <2>4 DEF Tried
  <2>7. \A i \in Ids, a \in Audiences :
          i # k \/ a # "dispatchers" => (Tried(j, i, a)' <=> Tried(j, i, a))
    BY <2>1, <2>2, <2>4 DEF Tried, Audiences
  <2>8. QED BY <2>3, <2>5, <2>6, <2>7, SpokenRun
<1>9. CASE Fail(j) \/ DeadlockVictim(j)
  BY <1>9, RoundsRollback DEF Fail, DeadlockVictim, Rollback
<1>10. QED
  BY <1>3, <1>4, <1>5, <1>6, <1>7, <1>8, <1>9, RoundsCommit DEF JobStep

(* The account of the messages is inductive, given the invariant.          *)
LEMMA RoundsStep == Inv /\ RoundsInv /\ [Next]_vars => RoundsInv'
<1> SUFFICES ASSUME Inv, RoundsInv, [Next]_vars PROVE RoundsInv'
  OBVIOUS
<1>1. CASE Tick \/ UNCHANGED vars
  <2>1. UNCHANGED <<rows, run, rounds, rollbacks>>
    BY <1>1 DEF Tick, vars
  <2>2. QED BY <2>1 DEF RoundsInv, Settled, Marked, Tried, Exists
<1>2. QED
  BY <1>1, RoundsHandlers, RoundsJobs DEF Next

(* No mark is committed before a round of messages was carried through to  *)
(* each audience, whoever it reached and whatever failed on the way.       *)
THEOREM TriedCorrect == Spec => []TriedBeforeCommitted
<1>1. Inv /\ RoundsInv => TriedBeforeCommitted
  BY DEF RoundsInv, TriedBeforeCommitted, Marked, Audiences
<1>2. QED BY InvInit, InvStep, RoundsInit, RoundsStep, <1>1, PTL DEF Spec

(* A message is repeated at most once for every run that was rolled back,  *)
(* for any number of overlapping processes.                                *)
THEOREM RepeatsCorrect == Spec => []RepeatsOnlyAfterRollback
<1>1. Inv /\ RoundsInv => RepeatsOnlyAfterRollback
  <2> SUFFICES ASSUME Inv, RoundsInv, NEW i \in Ids, NEW a \in Audiences
               PROVE  rounds[i][a] <= 1 + rollbacks
    BY DEF RepeatsOnlyAfterRollback
  <2>1. rounds[i][a] \in Nat /\ rollbacks \in Nat
    BY DEF Inv, TypeInv
  <2>2. rounds[i][a] <= rollbacks + (IF Settled(i, a) THEN 1 ELSE 0)
    BY DEF RoundsInv
  <2>3. QED BY <2>1, <2>2
<1>2. QED BY InvInit, InvStep, RoundsInit, RoundsStep, <1>1, PTL DEF Spec
-----------------------------------------------------------------------------
(***************************************************************************)
(* The tickets.  Ticket(i) is RequestSpec for the one request i.           *)
(***************************************************************************)

(* What its row makes of a ticket.                                         *)
StageTable(i) ==
  /\ rows[i] = NoRow => StageOf(i) = "unused"
  /\ rows[i] = Gone => StageOf(i) = "withdrawn"
  /\ Exists(i) /\ rows[i].status = "accepted" => StageOf(i) = "held"
  /\ Exists(i) /\ rows[i].status = "new" =>
       /\ ~Cleared(rows[i]) => StageOf(i) = "review"
       /\ Cleared(rows[i]) /\ Released(i) => StageOf(i) = "queued"
       /\ Cleared(rows[i]) /\ ~Released(i) => StageOf(i) = "waiting"

(* The table covers every row, before and after a step.                    *)
LEMMA StageIs == \A i : StageTable(i) /\ StageTable(i)'
<1>1. \A i : StageTable(i)
  BY SchedulerAssumption DEF StageTable, StageOf, Exists
<1>2. \A i : StageTable(i)'
  BY SchedulerAssumption DEF StageTable, StageOf, Exists
<1>3. QED BY <1>1, <1>2

(* A ticket that nobody holds moves on.                                    *)
LEMMA TicketMoves ==
  ASSUME NEW i \in Ids,
         \/ /\ StageOf(i) = "unused"
            /\ StageOf(i)' \in {"review", "waiting", "queued"}
         \/ StageOf(i) \in {"review", "waiting"} /\ StageOf(i)' = "queued"
  PROVE  Ticket(i)!Next
<1> DEFINE to == StageOf(i)'
<1>1. TicketOf(i) = [stage |-> StageOf(i), holder |-> "nobody"]
  BY DEF TicketOf
<1>2. TicketOf(i)' = [stage |-> to, holder |-> "nobody"]
  BY DEF TicketOf
<1>3. Ticket(i)!Move(i, StageOf(i), to)
  BY <1>1, <1>2 DEF Ticket!Move
<1> HIDE DEF to
<1>4. CASE StageOf(i) = "unused" /\ to \in {"review", "waiting", "queued"}
  <2>1. Ticket(i)!Open(i)
    BY <1>3, <1>4 DEF Ticket!Open
  <2>2. QED BY <2>1 DEF Ticket!Next
<1>5. CASE StageOf(i) = "review" /\ to = "queued"
  <2>1. Ticket(i)!Approve(i)
    BY <1>3, <1>5 DEF Ticket!Approve
  <2>2. QED BY <2>1 DEF Ticket!Next
<1>6. CASE StageOf(i) = "waiting" /\ to = "queued"
  <2>1. Ticket(i)!Release(i)
    BY <1>3, <1>6 DEF Ticket!Release
  <2>2. QED BY <2>1 DEF Ticket!Next
<1>7. QED BY <1>4, <1>5, <1>6 DEF to

(* A queued ticket is taken.                                               *)
LEMMA TicketTaken ==
  ASSUME NEW i \in Ids, StageOf(i) = "queued", StageOf(i)' = "held"
  PROVE  Ticket(i)!Next
<1>1. Ticket(i)!Hand(i, "worker")
  BY DEF TicketOf, Ticket!Hand
<1>2. QED BY <1>1 DEF Ticket!Next

(* A ticket is withdrawn.                                                  *)
LEMMA TicketWithdrawn ==
  ASSUME NEW i \in Ids, StageOf(i) # "unused", StageOf(i)' = "withdrawn"
  PROVE  Ticket(i)!Next
<1>1. Ticket(i)!Withdraw(i)
  BY DEF TicketOf, Ticket!Withdraw
<1>2. QED BY <1>1 DEF Ticket!Next

(* A step that leaves what the stage depends on leaves the ticket.         *)
LEMMA TicketStays ==
  ASSUME NEW i \in Ids, now' = now,
         \/ rows'[i] = rows[i]
         \/ /\ Exists(i) /\ Exists(i)'
            /\ \A f \in {"status", "approval", "dispatch"} : rows'[i][f] = rows[i][f]
  PROVE  UNCHANGED TicketOf(i)
<1>1. CASE rows'[i] = rows[i]
  BY <1>1 DEF TicketOf, StageOf, Exists, Released
<1>2. CASE /\ Exists(i) /\ Exists(i)'
           /\ \A f \in {"status", "approval", "dispatch"} : rows'[i][f] = rows[i][f]
  <2>1. /\ rows'[i].status = rows[i].status
        /\ rows'[i].approval = rows[i].approval
        /\ rows'[i].dispatch = rows[i].dispatch
    BY <1>2
  <2>2. Cleared(rows'[i]) <=> Cleared(rows[i])
    BY <2>1 DEF Cleared
  <2>3. Released(i)' <=> Released(i)
    BY <2>1 DEF Released
  <2>4. StageOf(i)' = StageOf(i)
    BY <1>2, <2>1, <2>2, <2>3 DEF StageOf, Exists
  <2>5. QED BY <2>4 DEF TicketOf
<1>3. QED BY <1>1, <1>2

(* A handler moves the ticket of its request and no other.                 *)
LEMMA TicketHandlers ==
  ASSUME Inv, NEW i \in Ids,
         \/ \E a \in {"none", "pending"}, d \in DispatchTimes \cup {None} : File(i, a, d)
         \/ Accept(i) \/ Approve(i) \/ Delete(i)
  PROVE  /\ Ticket(i)!Next \/ UNCHANGED TicketOf(i)
         /\ \A k \in Ids \ {i} : UNCHANGED TicketOf(k)
<1>1. ASSUME NEW k \in Ids \ {i}
      PROVE  UNCHANGED TicketOf(k)
  <2>1. rows'[k] = rows[k] /\ now' = now
    BY DEF File, Accept, Approve, Delete, Inv, TypeInv
  <2>2. QED BY <2>1, TicketStays
<1>2. i \in DOMAIN rows
  BY DEF Inv, TypeInv
<1>3. ASSUME NEW a \in {"none", "pending"}, NEW d \in DispatchTimes \cup {None},
             File(i, a, d)
      PROVE  Ticket(i)!Next
  <2>1. StageOf(i) = "unused"
    BY <1>3, StageIs DEF File, StageTable
  <2>2. rows'[i] = [status |-> "new", approval |-> a, created |-> now,
                    dispatch |-> d, escalated |-> FALSE, dispatched |-> FALSE]
    BY <1>2, <1>3 DEF File
  <2>3. rows'[i] \in Rows
    BY <1>3, <2>2 DEF Inv, TypeInv, Rows
  <2>4. Exists(i)'
    BY <2>3, SchedulerAssumption DEF Exists
  <2>5. rows'[i].status = "new"
    BY <2>2
  <2>6. StageOf(i)' \in {"review", "waiting", "queued"}
    BY <2>4, <2>5, StageIs DEF StageTable
  <2>7. QED BY <2>1, <2>6, TicketMoves
<1>4. ASSUME Accept(i) \/ Approve(i)
      PROVE  /\ rows[i] \in Rows /\ GoodRow(rows[i]) /\ Exists(i) /\ Exists(i)'
             /\ now' = now
             /\ Accept(i) => rows'[i] = [rows[i] EXCEPT !.status = "accepted"]
             /\ ~Accept(i) => rows'[i] = [rows[i] EXCEPT !.approval = "approved"]
  <2>1. Exists(i) /\ rows[i] \in Rows /\ GoodRow(rows[i]) /\ now' = now
    BY <1>4, RowType DEF Accept, Approve, Inv, LockInv
  <2>2. /\ Accept(i) => rows'[i] = [rows[i] EXCEPT !.status = "accepted"]
        /\ ~Accept(i) => rows'[i] = [rows[i] EXCEPT !.approval = "approved"]
    BY <1>2, <1>4 DEF Accept, Approve
  <2>3. rows'[i] \in Rows
    BY <2>1, <2>2 DEF Rows
  <2>4. QED BY <2>1, <2>2, <2>3, SchedulerAssumption DEF Exists
<1>5. CASE Accept(i)
  <2>1. StageOf(i) = "queued"
    BY <1>5, StageIs DEF Accept, StageTable
  <2>2. rows'[i].status = "accepted"
    BY <1>4, <1>5 DEF Rows
  <2>3. StageOf(i)' = "held"
    BY <1>4, <1>5, <2>2, StageIs DEF StageTable
  <2>4. QED BY <1>1, <2>1, <2>3, TicketTaken
<1>6. CASE Approve(i) /\ ~Accept(i)
  <2>1. rows[i].status = "new" /\ rows[i].approval = "pending" /\ rows[i].dispatch = None
    BY <1>4, <1>6 DEF Approve, GoodRow
  <2>2. StageOf(i) = "review"
    BY <1>4, <1>6, <2>1, StageIs DEF StageTable, Cleared
  <2>3. /\ rows'[i].status = "new" /\ rows'[i].approval = "approved"
        /\ rows'[i].dispatch = None
    BY <1>4, <1>6, <2>1 DEF Rows
  <2>4. Cleared(rows'[i]) /\ Released(i)'
    BY <2>3 DEF Cleared, Released
  <2>5. StageOf(i)' = "queued"
    BY <1>4, <1>6, <2>3, <2>4, StageIs DEF StageTable
  <2>6. QED BY <1>1, <2>2, <2>5, TicketMoves
<1>7. CASE Delete(i)
  <2>1. Exists(i) /\ rows'[i] = Gone
    BY <1>2, <1>7 DEF Delete
  <2>2. StageOf(i)' = "withdrawn"
    BY <2>1, StageIs DEF StageTable
  <2>3. rows[i].status \in {"new", "accepted"}
    BY <2>1, RowType DEF Inv, Rows
  <2>4. StageOf(i) # "unused"
    BY <2>1, <2>3, StageIs DEF StageTable
  <2>5. QED BY <1>1, <2>2, <2>4, TicketWithdrawn
<1>8. QED BY <1>1, <1>3, <1>5, <1>6, <1>7

(* Time may only release tickets.                                          *)
LEMMA TicketTick ==
  ASSUME Inv, Tick, NEW i \in Ids
  PROVE  Ticket(i)!Next \/ UNCHANGED TicketOf(i)
<1>1. rows'[i] = rows[i] /\ now \in Nat /\ now' = now + 1
  BY TimeType DEF Tick, Inv, TypeInv
<1>2. CASE ~Exists(i) \/ rows[i].status # "new" \/ (Released(i)' <=> Released(i))
  BY <1>1, <1>2 DEF TicketOf, StageOf, Exists
<1>3. CASE Exists(i) /\ rows[i].status = "new" /\ ~(Released(i)' <=> Released(i))
  <2>1. rows[i] \in Rows /\ GoodRow(rows[i])
    BY <1>3, RowType DEF Inv, LockInv
  <2>2. rows[i].dispatch # None => rows[i].dispatch \in Nat
    BY <2>1, SchedulerAssumption DEF Rows
  <2>3. ~Released(i) /\ Released(i)' /\ rows[i].dispatch # None
    BY <1>1, <1>3, <2>2 DEF Released
  <2>4. Cleared(rows[i]) /\ Cleared(rows'[i])
    BY <1>1, <2>1, <2>3 DEF GoodRow, Cleared
  <2>5. StageOf(i) = "waiting"
    BY <1>3, <2>3, <2>4, StageIs DEF StageTable
  <2>6. Exists(i)' /\ rows'[i].status = "new"
    BY <1>1, <1>3 DEF Exists
  <2>7. StageOf(i)' = "queued"
    BY <2>3, <2>4, <2>6, StageIs DEF StageTable
  <2>8. QED BY <2>5, <2>7, TicketMoves
<1>4. QED BY <1>2, <1>3

(* A job moves no ticket, whenever its transaction ends.                   *)
LEMMA TicketJobs ==
  ASSUME Inv, NEW j \in Jobs, NEW i \in Ids,
         Start(j) \/ JobStep(j) \/ Fail(j) \/ DeadlockVictim(j)
  PROVE  UNCHANGED TicketOf(i)
<1>1. CASE UNCHANGED <<now, rows>>
  BY <1>1, TicketStays
<1>2. CASE Commit(j)
  <2>1. now' = now
    BY <1>2 DEF Commit
  <2>2. CASE i \notin run[j].wrote
    <3>1. rows'[i] = rows[i]
      BY <1>2, <2>2 DEF Commit
    <3>2. QED BY <2>1, <3>1, TicketStays
  <2>3. CASE i \in run[j].wrote
    <3>1. Exists(i) /\ rows[i] \in Rows
      BY <2>3, RowType DEF Inv, LockInv, Waits
    <3>2. rows'[i] = Written(j, rows[i])
      BY <1>2, <2>3 DEF Commit
    <3>3. rows'[i] \in Rows
      BY <3>1, <3>2 DEF Written, Rows
    <3>4. \A f \in {"status", "approval", "dispatch"} : rows'[i][f] = rows[i][f]
      BY <3>1, <3>2 DEF Written, Rows
    <3>5. Exists(i)'
      BY <3>3, SchedulerAssumption DEF Exists
    <3>6. QED BY <2>1, <3>1, <3>4, <3>5, TicketStays
  <2>4. QED BY <2>2, <2>3
<1>3. QED
  BY <1>1, <1>2 DEF Start, JobStep, Pick, Queue, Update, TellWorkers, TellDispatchers,
     Fail, DeadlockVictim, Rollback

(* Every step is a step of every ticket, or leaves it.                     *)
LEMMA TicketStep ==
  ASSUME Inv, [Next]_vars, NEW i \in Ids
  PROVE  Ticket(i)!Next \/ UNCHANGED TicketOf(i)
<1>1. CASE UNCHANGED vars
  BY <1>1, TicketStays DEF vars
<1>2. ASSUME NEW k \in Ids,
             \/ \E a \in {"none", "pending"}, d \in DispatchTimes \cup {None} : File(k, a, d)
             \/ Accept(k) \/ Approve(k) \/ Delete(k)
      PROVE  Ticket(i)!Next \/ UNCHANGED TicketOf(i)
  BY <1>2, TicketHandlers
<1>3. ASSUME NEW j \in Jobs, Start(j) \/ JobStep(j) \/ Fail(j) \/ DeadlockVictim(j)
      PROVE  UNCHANGED TicketOf(i)
  BY <1>3, TicketJobs
<1>4. QED BY <1>1, <1>2, <1>3, TicketTick DEF Next

(* Whatever the jobs, the handlers and the clock do, every request moves   *)
(* along the path of the abstract ticket.                                  *)
THEOREM TicketsCorrect == Spec => EveryTicket
<1>1. Inv /\ [Next]_vars => \A i \in Ids : Ticket(i)!Next \/ UNCHANGED TicketOf(i)
  BY TicketStep
<1>2. QED BY InvInit, InvStep, <1>1, PTL DEF Spec, EveryTicket

(* The jobs implement RequestSpec, the specification that the handlers of  *)
(* requests.py implement, for each request: its beginning included.        *)
THEOREM ImplementsOneTicket ==
  ASSUME NEW i \in Ids
  PROVE  Spec => Ticket(i)!Spec
<1>1. Init => Ticket(i)!Init
  <2> SUFFICES ASSUME Init PROVE Ticket(i)!Init
    OBVIOUS
  <2>1. StageOf(i) = "unused"
    BY StageIs DEF Init, StageTable
  <2>2. QED BY <2>1 DEF TicketOf, Ticket!Init
<1>2. Inv /\ [Next]_vars => [Ticket(i)!Next]_([k \in {i} |-> TicketOf(k)])
  BY TicketStep
<1>3. QED BY InvInit, InvStep, <1>1, <1>2, PTL DEF Spec, Ticket!Spec

=============================================================================
