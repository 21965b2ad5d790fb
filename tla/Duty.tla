-------------------------------- MODULE Duty --------------------------------
(***************************************************************************)
(* Who is on duty when, and who is told: the working hours and exceptions  *)
(* of bot/services/schedules.py, the audience of notify_workers            *)
(* (notify.py) and the opening hours of cleaning (request_routing.py).     *)
(*                                                                         *)
(* Dispatchers edit the schedules of the workers of one category, two at   *)
(* a time; the workers check in and out.  Questions are asked about every  *)
(* instant.  An instant is a date and a time in the time zone of the       *)
(* organization; times are stored in UTC, which is a constant shift.       *)
(***************************************************************************)
EXTENDS Integers, Sequences, FiniteSets, SequencesExt

CONSTANTS
  Workers,          \* the workers of one category
  Dispatchers,      \* handlers that edit a schedule at the same time
  Day,              \* times of a day: 0..Day - 1
  Opening, Closing, SaturdayClosing,   \* of cleaning
  LastDay,          \* bound: dates asked about, 0 is a Monday
  DaySets,          \* the weekdays a dispatcher may name in one message
  Intervals,        \* the <<start, end>> he may name
  ExceptionDays,    \* the dates he may name
  MaxEdits,         \* bound: schedule messages, clears, requests filed
  None              \* no dispatch_after; no worker

Hour     == 0..(Day - 1)
Weekdays == 0..6                                  \* Monday = 0, Sunday = 6
Instants == [day : 0..LastDay, hour : Hour]

ASSUME DutyAssumption ==
  /\ Day \in Nat \ {0} /\ LastDay \in Nat /\ MaxEdits \in Nat
  /\ {Opening, Closing, SaturdayClosing} \subseteq Hour
  /\ Opening < SaturdayClosing /\ SaturdayClosing <= Closing
  /\ Intervals \subseteq Hour \X Hour
  /\ DaySets \subseteq SUBSET Weekdays
  /\ ExceptionDays \subseteq Nat
  /\ None \notin Workers /\ None \notin [day : Nat, hour : Hour]

Hours == [day : Weekdays, start : Hour, end : Hour]
Exceptions == [from : [day : Nat, hour : Hour], to : [day : Nat, hour : Hour],
               available : BOOLEAN]
Tasks == [phase  : {"idle", "hours", "exception", "told"},
          worker : Workers \cup {None},
          asked  : SUBSET Hours,              \* what the message names
          insert : SUBSET Hours,              \* the rows the SELECTs missed
          seen   : Nat,                       \* exceptions when it began
          extra  : Exceptions \cup {None},
          undone : BOOLEAN]                   \* history: cleared meanwhile

VARIABLES
  workers,    \* [approved, shift, hours, exceptions (oldest first)] of each
  task,       \* the message a dispatcher's handler works on
  cleaning,   \* a cleaning request: when it was filed, its dispatch_after
  edits       \* edits so far

vars == <<workers, task, cleaning, edits>>

Idle == [phase |-> "idle", worker |-> None, asked |-> {}, insert |-> {},
         seen |-> 0, extra |-> None, undone |-> FALSE]

Init ==
  /\ workers \in [Workers -> [approved : BOOLEAN, shift : {FALSE},
                              hours : {{}}, exceptions : {<<>>}]]
  /\ task = [d \in Dispatchers |-> Idle]
  /\ cleaning = None
  /\ edits = 0

-----------------------------------------------------------------------------
(* Instants.                                                               *)

Weekday(t)   == t.day % 7
Before(a, b) == a.day < b.day \/ (a.day = b.day /\ a.hour < b.hour)
Within(t, from, to) == ~Before(t, from) /\ Before(t, to)

(* next_cleaning_dispatch: None while cleaning is open.                    *)
CleaningOpen(t) ==
  /\ Weekday(t) < 6
  /\ Opening <= t.hour
  /\ t.hour < (IF Weekday(t) = 5 THEN SaturdayClosing ELSE Closing)

NextDay(t) == t.day + 1                \* faulty: does not skip the Sunday
NextWorkday(t) == IF (t.day + 1) % 7 = 6 THEN t.day + 2 ELSE t.day + 1

NextCleaningDispatch(now) ==
  IF CleaningOpen(now) THEN None
  ELSE [day  |-> IF Weekday(now) < 6 /\ now.hour < Opening
                 THEN now.day ELSE NextWorkday(now),
        hour |-> Opening]

-----------------------------------------------------------------------------
(* Schedules.                                                              *)

(* _matches_hour; an interval that does not end after it starts goes on    *)
(* into the next day.                                                      *)
MatchesThisWeek(h, t) ==      \* faulty: Sunday has no next day
  IF h.start < h.end
  THEN Weekday(t) = h.day /\ h.start <= t.hour /\ t.hour < h.end
  ELSE \/ Weekday(t) = h.day /\ t.hour >= h.start
       \/ Weekday(t) = h.day + 1 /\ t.hour < h.end

MatchesHour(h, t) ==
  IF h.start < h.end
  THEN Weekday(t) = h.day /\ h.start <= t.hour /\ t.hour < h.end
  ELSE \/ Weekday(t) = h.day /\ t.hour >= h.start
       \/ Weekday(t) = (h.day + 1) % 7 /\ t.hour < h.end

(* The exceptions around the instant; the newest of them counts.           *)
Covering(w, t) ==
  LET es == workers[w].exceptions
  IN {i \in DOMAIN es : Within(t, es[i].from, es[i].to)}

Newest(w, t) == workers[w].exceptions[Max(Covering(w, t))]

(* get_schedule_status: planned.                                           *)
PlannedByHours(w, t) ==       \* faulty: without hours nobody is planned
  IF Covering(w, t) # {} THEN Newest(w, t).available
  ELSE \E h \in workers[w].hours : MatchesHour(h, t)

Planned(w, t) ==
  IF Covering(w, t) # {} THEN Newest(w, t).available
  ELSE \/ workers[w].hours = {}
       \/ \E h \in workers[w].hours : MatchesHour(h, t)

Available(w, t, checkedIn) ==
  /\ workers[w].approved
  /\ checkedIn => workers[w].shift
  /\ Planned(w, t)

(* notify_workers: an escalation forces, an urgent request falls back.     *)
Approved == {w \in Workers : workers[w].approved}

OnDuty(t, checkedIn) == {w \in Approved : Available(w, t, checkedIn)}

AudienceOnce(t, urgent, force) ==      \* faulty: one fallback only
  LET onDuty == OnDuty(t, TRUE) IN
  IF force THEN Approved
  ELSE IF onDuty # {} \/ ~urgent THEN onDuty ELSE OnDuty(t, FALSE)

Audience(t, urgent, force) ==
  LET onDuty == OnDuty(t, TRUE)
      planned == OnDuty(t, FALSE)
  IN IF force THEN Approved
     ELSE IF onDuty # {} \/ ~urgent THEN onDuty
     ELSE IF planned # {} THEN planned ELSE Approved

(* claim_request of a ready request of the category.                       *)
MayClaim(w, t) ==
  workers[w].approved /\ workers[w].shift /\ Available(w, t, TRUE)

-----------------------------------------------------------------------------
(* The dispatchers.                                                        *)

(* parse_recurring_hours: weekdays with one interval.                      *)
RowsOf(days, interval) ==
  {[day |-> d, start |-> interval[1], end |-> interval[2]] : d \in days}

(* parse_local_exception: an interval that does not end after it starts    *)
(* ends on the next day.                                                   *)
ExceptionOf(day, interval, available) ==
  [from |-> [day |-> day, hour |-> interval[1]],
   to   |-> [day  |-> IF interval[2] <= interval[1] THEN day + 1 ELSE day,
             hour |-> interval[2]],
   available |-> available]

(* schedule_hours_save and add_recurring_hours up to the INSERTs.          *)
ReadFirst(w, rows) ==      \* faulty: one SELECT for all the weekdays
  IF rows \cap workers[w].hours # {} THEN {} ELSE rows
Missing(w, rows) == rows \ workers[w].hours

BeginHours(d) ==
  /\ task[d].phase = "idle" /\ edits < MaxEdits
  /\ \E w \in Workers, days \in DaySets, interval \in Intervals :
       LET rows == RowsOf(days, interval)
       IN task' = [task EXCEPT ![d] =
            [Idle EXCEPT !.phase = "hours", !.worker = w, !.asked = rows,
                         !.insert = Missing(w, rows)]]
  /\ edits' = edits + 1
  /\ UNCHANGED <<workers, cleaning>>

(* The INSERTs, refused as a whole by uq_worker_working_interval.          *)
SaveHours(d) ==
  LET w == task[d].worker IN
  /\ task[d].phase = "hours"
  /\ IF task[d].insert \cap workers[w].hours = {}
     THEN /\ workers' = [workers EXCEPT ![w].hours = @ \cup task[d].insert]
          /\ task' = [task EXCEPT ![d].phase = "told"]
     ELSE /\ task' = [task EXCEPT ![d] = Idle]
          /\ UNCHANGED workers
  /\ UNCHANGED <<cleaning, edits>>

(* schedule_exception_save and add_local_exception.  created_at is the     *)
(* time the transaction began (PostgreSQL): an exception that was begun    *)
(* earlier may be stored later and still count as the older one.           *)
BeginException(d) ==
  /\ task[d].phase = "idle" /\ edits < MaxEdits
  /\ \E w \in Workers, day \in ExceptionDays, interval \in Intervals,
        available \in BOOLEAN :
       task' = [task EXCEPT ![d] =
         [Idle EXCEPT !.phase = "exception", !.worker = w,
                      !.seen = Len(workers[w].exceptions),
                      !.extra = ExceptionOf(day, interval, available)]]
  /\ edits' = edits + 1
  /\ UNCHANGED <<workers, cleaning>>

SaveException(d) ==
  LET w == task[d].worker IN
  /\ task[d].phase = "exception"
  /\ \E place \in (task[d].seen + 1)..(Len(workers[w].exceptions) + 1) :
       workers' = [workers EXCEPT ![w].exceptions =
                     InsertAt(@, place, task[d].extra)]
  /\ task' = [task EXCEPT ![d] = Idle]
  /\ UNCHANGED <<cleaning, edits>>

Dismiss(d) ==
  /\ task[d].phase = "told"
  /\ task' = [task EXCEPT ![d] = Idle]
  /\ UNCHANGED <<workers, cleaning, edits>>

(* schedule_clear, by a dispatcher with an older keyboard.                 *)
ClearHours(w) ==
  /\ edits < MaxEdits
  /\ workers' = [workers EXCEPT ![w].hours = {}]
  /\ task' = [d \in Dispatchers |->
               IF task[d].worker = w THEN [task[d] EXCEPT !.undone = TRUE]
               ELSE task[d]]
  /\ edits' = edits + 1
  /\ UNCHANGED cleaning

-----------------------------------------------------------------------------
(* The workers and the residents.                                          *)

ToggleShift(w) ==
  /\ workers[w].approved
  /\ workers' = [workers EXCEPT ![w].shift = ~@]
  /\ UNCHANGED <<task, cleaning, edits>>

(* add_worker_finish and revoke_user.                                      *)
Admit(w) ==
  /\ ~workers[w].approved
  /\ workers' = [workers EXCEPT ![w].approved = TRUE, ![w].shift = FALSE]
  /\ UNCHANGED <<task, cleaning, edits>>
Revoke(w) ==
  /\ workers[w].approved
  /\ workers' = [workers EXCEPT ![w].approved = FALSE, ![w].shift = FALSE]
  /\ UNCHANGED <<task, cleaning, edits>>

(* A cleaning request, deferred to the next opening.  No schedule depends  *)
(* on it: as a bound, it is filed in a run of its own.                     *)
FileCleaning(now) ==
  /\ edits = 0
  /\ cleaning' = [filed |-> now, due |-> NextCleaningDispatch(now)]
  /\ edits' = MaxEdits
  /\ UNCHANGED <<workers, task>>

Next ==
  \/ \E d \in Dispatchers : \/ BeginHours(d) \/ SaveHours(d) \/ Dismiss(d)
                            \/ BeginException(d) \/ SaveException(d)
  \/ \E w \in Workers : \/ ClearHours(w) \/ ToggleShift(w)
                        \/ Admit(w) \/ Revoke(w)
  \/ \E now \in Instants : FileCleaning(now)

Spec == Init /\ [][Next]_vars

-----------------------------------------------------------------------------
(* Properties.                                                             *)

(* Every variable has its type; an exception ends after it starts, which   *)
(* add_local_exception would otherwise refuse.                             *)
TypeOK ==
  /\ \A w \in Workers :
       /\ workers[w].approved \in BOOLEAN /\ workers[w].shift \in BOOLEAN
       /\ workers[w].hours \in SUBSET Hours
       /\ workers[w].exceptions \in Seq(Exceptions)
       /\ \A e \in ToSet(workers[w].exceptions) : Before(e.from, e.to)
  /\ task \in [Dispatchers -> Tasks]
  /\ cleaning = None \/ cleaning.filed \in Instants
  /\ edits \in 0..MaxEdits

(* The concrete shifts a weekly interval stands for, from the Sunday       *)
(* before the first date on.                                               *)
Occurrences(h) ==
  {[from |-> [day |-> d, hour |-> h.start],
    to   |-> [day |-> IF h.start < h.end THEN d ELSE d + 1, hour |-> h.end]] :
     d \in {d \in -1..LastDay : (d + 7) % 7 = h.day}}

(* get_schedule_status and _matches_hour plan a worker at an instant just  *)
(* when the newest exception around it says so or, where there is none,    *)
(* when it lies in a concrete shift of his week: overnight shifts reach    *)
(* into the next day, that of Sunday into Monday, equal endpoints last 24  *)
(* hours, and without hours he is always planned.                          *)
PlannedIsTheWeek ==
  \A w \in Workers :
    LET es     == workers[w].exceptions
        shifts == UNION {Occurrences(h) : h \in workers[w].hours}
    IN \A t \in Instants :
         LET around == {i \in DOMAIN es : Within(t, es[i].from, es[i].to)}
         IN Planned(w, t) <=>
              IF around # {}
              THEN \A i \in around : es[i].available \/ \E j \in around : j > i
              ELSE \/ workers[w].hours = {}
                   \/ \E o \in shifts : Within(t, o.from, o.to)

(* A step takes a worker off duty at an instant only by an absence around  *)
(* it, or by the first hours he gets: schedule_clear, a further interval   *)
(* or an extra shift never do (schedules.py, dispatcher.py:1335-1404).     *)
OffDutyOnlyBy ==
  [][\A w \in Workers :
       workers'[w] # workers[w] =>
         \A t \in Instants :
           (Planned(w, t) /\ ~Planned(w, t)') =>
             \/ workers[w].hours = {} /\ workers'[w].hours # {}
             \/ \E e \in ToSet(workers'[w].exceptions) :
                  /\ ~e.available /\ Within(t, e.from, e.to)
                  /\ Len(workers'[w].exceptions) > Len(workers[w].exceptions)]_workers

(* A dispatcher who is told that the hours were added finds every interval *)
(* he named in the table, whatever another dispatcher adds or the unique   *)
(* key refuses, unless the hours were cleared while he worked              *)
(* (add_recurring_hours skips those it saw).                               *)
AddedUnlessCleared ==
  \A d \in Dispatchers :
    task[d].phase = "told" =>
      task[d].asked \subseteq workers[task[d].worker].hours \/ task[d].undone

(* An urgent request reaches somebody while the category has an approved   *)
(* worker, and no further than it must: all who may claim it; only if      *)
(* there is none, those who are planned but have not checked in; only if   *)
(* there is none either, everybody (README.md:175-176).  A normal request  *)
(* is announced to those who may claim it at that instant and to nobody    *)
(* else (README.md:172-173), so to nobody at all while nobody is on duty.  *)
UrgentFallback ==
  \A t \in Instants :
    LET urgent   == Audience(t, TRUE, FALSE)
        claimers == {w \in Workers : MayClaim(w, t)}
        planned  == {w \in Approved : Planned(w, t)}
    IN /\ Approved # {} => urgent # {}
       /\ claimers # {} => urgent = claimers
       /\ claimers = {} /\ planned # {} => urgent = planned
       /\ Audience(t, FALSE, FALSE) = claimers

(* spec.md:77 says of every request that, if nobody is on shift, all       *)
(* workers of the category are notified at once.  False: notify_workers    *)
(* tells nobody of a normal one, it falls back for urgency "high" only,    *)
(* and then to those who are planned first (notify.py:98-104).             *)
AllToldWhenOffDuty ==
  \A t \in Instants, urgent \in BOOLEAN :
    {w \in Workers : MayClaim(w, t)} = {} => Audience(t, urgent, FALSE) = Approved

(* A cleaning request is held back until the first instant at which        *)
(* cleaning is open, and not at all while it is (next_cleaning_dispatch).  *)
DeferredToOpening ==
  cleaning # None =>
    LET now == cleaning.filed
        due == IF cleaning.due = None THEN now ELSE cleaning.due
    IN /\ CleaningOpen(due) /\ ~Before(due, now)
       /\ cleaning.due = None <=> CleaningOpen(now)
       /\ \A d \in now.day..due.day, h \in Hour :
            Within([day |-> d, hour |-> h], now, due) =>
              ~CleaningOpen([day |-> d, hour |-> h])

=============================================================================
