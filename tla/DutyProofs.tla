------------------------------ MODULE DutyProofs ------------------------------
(***************************************************************************)
(* Theorems about Duty for every set of workers and dispatchers, every     *)
(* division of the day and all opening hours.                              *)
(***************************************************************************)
EXTENDS Duty, SequenceTheorems, WellFoundedInduction, TLAPS

-----------------------------------------------------------------------------
(* The calendar.                                                           *)

Instant == [day : Nat, hour : Hour]

(* The hours of the day and the opening hours are ordered numbers.         *)
LEMMA HourFacts ==
  /\ Hour \subseteq Nat /\ \A h \in Hour : h < Day
  /\ Opening \in Nat /\ Closing \in Nat /\ SaturdayClosing \in Nat
  /\ Opening \in Hour /\ Opening < SaturdayClosing /\ SaturdayClosing <= Closing
  /\ Instants \subseteq Instant /\ None \notin Instant
BY DutyAssumption DEF Hour, Instants, Instant

(* The next workday is tomorrow, or the day after if tomorrow is a Sunday. *)
LEMMA WorkdayFacts ==
  ASSUME NEW now \in Instant
  PROVE  /\ NextWorkday(now) \in Nat /\ NextWorkday(now) % 7 < 6
         /\ NextWorkday(now) > now.day
         /\ \A d \in Nat : now.day < d /\ d < NextWorkday(now) => d % 7 = 6
<1> DEFINE n == now.day
<1>1. n \in Nat
  BY DEF Instant
<1> HIDE DEF n
<1>2. CASE (n + 1) % 7 = 6
  <2>1. NextWorkday(now) = n + 2
    BY <1>2 DEF NextWorkday, n
  <2>2. (n + 2) % 7 = 0
    BY <1>1, <1>2
  <2>3. \A d \in Nat : n < d /\ d < n + 2 => d = n + 1
    BY <1>1
  <2>4. QED BY <1>1, <1>2, <2>1, <2>2, <2>3 DEF n
<1>3. CASE (n + 1) % 7 # 6
  <2>1. NextWorkday(now) = n + 1
    BY <1>3 DEF NextWorkday, n
  <2>2. (n + 1) % 7 < 6
    BY <1>1, <1>3
  <2>3. QED BY <1>1, <2>1, <2>2 DEF n
<1>4. QED BY <1>2, <1>3

(* Cleaning is open at the opening of a workday, never before it, and once *)
(* it is over it stays over for the day.                                   *)
LEMMA OpenFacts ==
  ASSUME NEW n \in Nat, NEW h \in Nat
  PROVE  /\ CleaningOpen([day |-> n, hour |-> h]) => n % 7 < 6 /\ Opening <= h
         /\ n % 7 < 6 /\ h = Opening => CleaningOpen([day |-> n, hour |-> h])
         /\ \A g \in Nat :
              /\ n % 7 < 6 /\ Opening <= h /\ h <= g
              /\ ~CleaningOpen([day |-> n, hour |-> h])
              => ~CleaningOpen([day |-> n, hour |-> g])
<1> DEFINE close == IF n % 7 = 5 THEN SaturdayClosing ELSE Closing
           open(k) == n % 7 < 6 /\ Opening <= k /\ k < close
<1>1. \A k \in Nat : CleaningOpen([day |-> n, hour |-> k]) <=> open(k)
  BY DEF CleaningOpen, Weekday
<1>2. close \in Nat /\ Opening \in Nat /\ Opening < close
  BY HourFacts
<1> HIDE DEF close
<1>3. QED BY <1>1, <1>2

(* next_cleaning_dispatch: nothing to wait for while cleaning is open, and *)
(* otherwise the first instant at which it is, for any opening hours.      *)
LEMMA OpeningFacts ==
  ASSUME NEW now \in Instant, ~CleaningOpen(now),
         NEW due, due = NextCleaningDispatch(now)
  PROVE  /\ due \in Instant /\ CleaningOpen(due) /\ ~Before(due, now)
         /\ \A d \in now.day..due.day, h \in Hour :
              Within([day |-> d, hour |-> h], now, due) =>
                ~CleaningOpen([day |-> d, hour |-> h])
<1> DEFINE early == Weekday(now) < 6 /\ now.hour < Opening
           day == IF early THEN now.day ELSE NextWorkday(now)
<1>1. due = [day |-> day, hour |-> Opening]
  BY DEF NextCleaningDispatch
<1>2. now.day \in Nat /\ now.hour \in Hour /\ now.hour \in Nat
  BY HourFacts DEF Instant
<1>3. day \in Nat /\ day % 7 < 6 /\ now.day <= day
      /\ (~early => now.day < day)
  BY <1>2, WorkdayFacts DEF Weekday
<1>4. due.day = day /\ due.hour = Opening
  BY <1>1
<1> HIDE DEF day
<1>5. due \in Instant
  BY <1>1, <1>3, HourFacts DEF Instant
<1>6. CleaningOpen(due)
  BY <1>1, <1>3, HourFacts, OpenFacts
<1>7. ~Before(due, now)
  <2>1. CASE early
    BY <1>2, <1>4, <2>1, HourFacts DEF Before, day
  <2>2. CASE ~early
    BY <1>2, <1>3, <1>4, <2>2 DEF Before
  <2>3. QED BY <2>1, <2>2
<1>8. ASSUME NEW d \in now.day..due.day, NEW h \in Hour,
             Within([day |-> d, hour |-> h], now, due)
      PROVE  ~CleaningOpen([day |-> d, hour |-> h])
  <2>1. d \in Nat /\ h \in Nat /\ now.day <= d /\ d <= day
    BY <1>2, <1>3, <1>4, HourFacts
  <2>2. /\ d < now.day \/ (d = now.day /\ h < now.hour) => FALSE
        /\ d < day \/ (d = day /\ h < Opening)
    BY <1>4, <1>8 DEF Within, Before
  <2>3. (d = now.day => h >= now.hour) /\ (d = day => h < Opening)
    BY <1>2, <1>3, <2>1, <2>2
  <2>4. CASE d = day
    BY <2>1, <2>3, <2>4, HourFacts, OpenFacts
  <2>5. CASE d # day /\ d = now.day
    <3>1. ~early
      BY <2>5 DEF day
    <3>2. now = [day |-> d, hour |-> now.hour]
      BY <2>5 DEF Instant
    <3>3. Weekday(now) = d % 7 /\ (d % 7 < 6 => Opening <= now.hour)
      BY <1>2, <2>5, <3>1, HourFacts DEF Weekday
    <3>4. CASE d % 7 < 6
      BY <1>2, <2>1, <2>3, <2>5, <3>2, <3>3, <3>4, OpenFacts
    <3>5. CASE ~(d % 7 < 6)
      BY <2>1, <3>5, OpenFacts
    <3>6. QED BY <3>4, <3>5
  <2>6. CASE d # day /\ d # now.day
    <3>1. ~early
      BY <1>2, <2>1, <2>6 DEF day
    <3>2. now.day < d /\ d < day /\ day = NextWorkday(now)
      BY <1>2, <1>3, <2>1, <2>6, <3>1 DEF day
    <3>3. d % 7 = 6
      BY <2>1, <3>2, WorkdayFacts
    <3>4. QED BY <2>1, <3>3, OpenFacts
  <2>7. QED BY <2>4, <2>5, <2>6
<1>9. QED BY <1>5, <1>6, <1>7, <1>8

(* A cleaning request is due at the next opening of the moment of filing.  *)
CleaningInv ==
  cleaning # None => /\ cleaning.filed \in Instants
                     /\ cleaning.due = NextCleaningDispatch(cleaning.filed)

(* A cleaning request is held back until the first instant at which        *)
(* cleaning is open, whatever the opening hours.                           *)
THEOREM OpeningCorrect == Spec => []DeferredToOpening
<1>1. Init => CleaningInv
  BY DEF Init, CleaningInv
<1>2. CleaningInv /\ [Next]_vars => CleaningInv'
  <2> SUFFICES ASSUME CleaningInv, [Next]_vars PROVE CleaningInv'
    OBVIOUS
  <2>1. CASE UNCHANGED cleaning
    BY <2>1 DEF CleaningInv, NextCleaningDispatch
  <2>2. ASSUME NEW now \in Instants, FileCleaning(now)
        PROVE  CleaningInv'
    BY <2>2 DEF FileCleaning, CleaningInv
  <2>3. QED
    BY <2>1, <2>2 DEF Next, vars, BeginHours, SaveHours, Dismiss, BeginException,
       SaveException, ClearHours, ToggleShift, Admit, Revoke
<1>3. CleaningInv => DeferredToOpening
  <2> SUFFICES ASSUME CleaningInv, cleaning # None
               PROVE  DeferredToOpening
    BY DEF DeferredToOpening
  <2> DEFINE now == cleaning.filed
  <2>1. now \in Instants /\ now \in Instant /\ cleaning.due = NextCleaningDispatch(now)
    BY HourFacts DEF CleaningInv
  <2>2. now.day \in Nat /\ now.hour \in Nat
    BY <2>1, HourFacts DEF Instant
  <2>3. CASE CleaningOpen(now)
    <3>1. cleaning.due = None
      BY <2>1, <2>3 DEF NextCleaningDispatch
    <3>2. ~Before(now, now)
      BY <2>2 DEF Before
    <3>3. \A t : ~Within(t, now, now)
      BY DEF Within
    <3>4. QED BY <2>3, <3>1, <3>2, <3>3 DEF DeferredToOpening
  <2>4. CASE ~CleaningOpen(now)
    <3>1. PICK due : due = NextCleaningDispatch(now)
      OBVIOUS
    <3>2. /\ due \in Instant /\ CleaningOpen(due) /\ ~Before(due, now)
          /\ \A d \in now.day..due.day, h \in Hour :
               Within([day |-> d, hour |-> h], now, due) =>
                 ~CleaningOpen([day |-> d, hour |-> h])
      BY <2>1, <2>4, <3>1, OpeningFacts
    <3>3. cleaning.due = due /\ due # None
      BY <2>1, <3>1, <3>2, HourFacts
    <3>4. QED BY <2>4, <3>2, <3>3 DEF DeferredToOpening
  <2>5. QED BY <2>3, <2>4
<1>4. QED BY <1>1, <1>2, <1>3, PTL DEF Spec

-----------------------------------------------------------------------------
(* The working week.                                                       *)

(* The weekday of a date is h just when a week of h begins on it; that of  *)
(* the date after it is the weekday after h, Sunday followed by Monday.    *)
LEMMA NextWeekday ==
  ASSUME NEW n \in Nat, NEW k \in Weekdays
  PROVE  ((n - 1) + 7) % 7 = k <=> n % 7 = (k + 1) % 7
<1>1. k \in Nat /\ k < 7
  BY DEF Weekdays
<1>2. PICK m \in Nat : m = n + 6
  OBVIOUS
<1>3. m % 7 = k <=> (m + 1) % 7 = (k + 1) % 7
  BY <1>1
<1>4. (m + 1) % 7 = n % 7 /\ (n - 1) + 7 = m
  BY <1>2
<1>5. QED BY <1>3, <1>4

(* _matches_hour finds an instant in a weekly interval just when it lies   *)
(* in one of the concrete shifts that the interval stands for, for every   *)
(* division of the day and any number of weeks.                            *)
THEOREM WeekCorrect ==
  \A h \in Hours, t \in Instants :
    MatchesHour(h, t) <=> \E o \in Occurrences(h) : Within(t, o.from, o.to)
<1> SUFFICES ASSUME NEW h \in Hours, NEW t \in Instants
             PROVE  MatchesHour(h, t) <=>
                      \E o \in Occurrences(h) : Within(t, o.from, o.to)
  OBVIOUS
<1>1. PICK n \in 0..LastDay, x \in Hour : t = [day |-> n, hour |-> x]
  BY DEF Instants
<1>2. PICK k \in Weekdays, a \in Hour, b \in Hour :
        h = [day |-> k, start |-> a, end |-> b]
  BY DEF Hours
<1>3. n \in Nat /\ x \in Nat /\ a \in Nat /\ b \in Nat /\ LastDay \in Nat
      /\ n <= LastDay
  BY HourFacts, DutyAssumption
<1> DEFINE last(d) == IF a < b THEN d ELSE d + 1
           Covers(d) == /\ d < n \/ (d = n /\ a <= x)
                        /\ n < last(d) \/ (n = last(d) /\ x < b)
<1>4. (\E o \in Occurrences(h) : Within(t, o.from, o.to))
        <=> \E d \in -1..LastDay : (d + 7) % 7 = k /\ Covers(d)
  <2>1. Occurrences(h) = {[from |-> [day |-> d, hour |-> a],
                           to |-> [day |-> last(d), hour |-> b]] :
                            d \in {d \in -1..LastDay : (d + 7) % 7 = k}}
    BY <1>2 DEF Occurrences
  <2>2. \A d \in -1..LastDay : last(d) \in Int
    BY <1>3
  <2> HIDE DEF last
  <2>3. ASSUME NEW d \in -1..LastDay
        PROVE  Within(t, [day |-> d, hour |-> a], [day |-> last(d), hour |-> b])
                 <=> Covers(d)
    <3>1. Before(t, [day |-> d, hour |-> a]) <=> n < d \/ (n = d /\ x < a)
      BY <1>1 DEF Before
    <3>2. Before(t, [day |-> last(d), hour |-> b])
            <=> n < last(d) \/ (n = last(d) /\ x < b)
      BY <1>1 DEF Before
    <3>3. ~(n < d \/ (n = d /\ x < a)) <=> d < n \/ (d = n /\ a <= x)
      BY <1>3
    <3>4. QED BY <3>1, <3>2, <3>3 DEF Within
  <2> HIDE DEF Covers
  <2>4. ASSUME NEW o \in Occurrences(h), Within(t, o.from, o.to)
        PROVE  \E d \in -1..LastDay : (d + 7) % 7 = k /\ Covers(d)
    <3>1. PICK d \in -1..LastDay :
            /\ (d + 7) % 7 = k
            /\ o = [from |-> [day |-> d, hour |-> a],
                    to |-> [day |-> last(d), hour |-> b]]
      BY <2>1
    <3>2. QED BY <2>3, <2>4, <3>1
  <2>5. ASSUME NEW d \in -1..LastDay, (d + 7) % 7 = k, Covers(d)
        PROVE  \E o \in Occurrences(h) : Within(t, o.from, o.to)
    <3> DEFINE o == [from |-> [day |-> d, hour |-> a],
                     to |-> [day |-> last(d), hour |-> b]]
    <3>1. o \in Occurrences(h) /\ Within(t, o.from, o.to)
      BY <2>1, <2>3, <2>5
    <3>2. QED BY <3>1
  <2>6. QED BY <2>4, <2>5
<1>5. MatchesHour(h, t) <=>
        IF a < b THEN n % 7 = k /\ a <= x /\ x < b
        ELSE \/ n % 7 = k /\ x >= a
             \/ n % 7 = (k + 1) % 7 /\ x < b
  BY <1>1, <1>2 DEF MatchesHour, Weekday
<1>6. n % 7 = (k + 1) % 7 <=> ((n - 1) + 7) % 7 = k
  BY <1>3, NextWeekday
<1>7. CASE a < b
  <2>1. \A d \in -1..LastDay : Covers(d) <=> d = n /\ a <= x /\ x < b
    BY <1>3, <1>7
  <2> HIDE DEF Covers
  <2>2. n \in -1..LastDay /\ (n + 7) % 7 = n % 7
    BY <1>3
  <2>3. QED BY <1>4, <1>5, <1>7, <2>1, <2>2
<1>8. CASE ~(a < b)
  <2>1. \A d \in -1..LastDay :
          Covers(d) <=> (d = n /\ a <= x) \/ (d = n - 1 /\ x < b)
    BY <1>3, <1>8
  <2> HIDE DEF Covers
  <2>2. n \in -1..LastDay /\ n - 1 \in -1..LastDay /\ (n + 7) % 7 = n % 7
    BY <1>3
  <2>3. (\E d \in -1..LastDay : (d + 7) % 7 = k /\ Covers(d)) <=>
          \/ n % 7 = k /\ a <= x
          \/ ((n - 1) + 7) % 7 = k /\ x < b
    BY <2>1, <2>2
  <2>4. x >= a <=> a <= x
    BY <1>3
  <2>5. QED BY <1>4, <1>5, <1>6, <1>8, <2>3, <2>4
<1>9. QED BY <1>7, <1>8

-----------------------------------------------------------------------------
(* The schedules.                                                          *)

GoodExceptions == {e \in Exceptions : Before(e.from, e.to)}
Rows == [approved : BOOLEAN, shift : BOOLEAN, hours : SUBSET Hours,
         exceptions : Seq(GoodExceptions)]

(* A message in work names a worker; what it names is in the table, except *)
(* for what it is about to insert, unless the hours were cleared.          *)
Fine(q, ws) ==
  /\ q \in Tasks
  /\ q.phase # "idle" => q.worker \in Workers
  /\ q.phase = "hours" =>
       (q.asked \ q.insert) \subseteq ws[q.worker].hours \/ q.undone
  /\ q.phase = "told" => q.asked \subseteq ws[q.worker].hours \/ q.undone
  /\ q.phase = "exception" => q.extra \in GoodExceptions

RowsInv == workers \in [Workers -> Rows]
TaskInv == /\ DOMAIN task = Dispatchers
           /\ task = [d \in Dispatchers |-> task[d]]
           /\ \A d \in Dispatchers : Fine(task[d], workers)
OtherInv == /\ cleaning = None \/ cleaning.filed \in Instants
            /\ edits \in 0..MaxEdits
Inv == RowsInv /\ TaskInv /\ OtherInv

(* A task stays fine as long as no hours are taken away.                   *)
LEMMA FineKeeps ==
  ASSUME NEW q, NEW ws, NEW vs, Fine(q, ws),
         \A w \in Workers : ws[w].hours \subseteq vs[w].hours
  PROVE  Fine(q, vs)
BY DEF Fine

LEMMA IdleFine == \A ws : Fine(Idle, ws)
<1>1. Idle \in Tasks
  BY DEF Idle, Tasks
<1>2. QED BY <1>1 DEF Fine, Idle

(* One task changes and no hours are taken away.                           *)
LEMMA TaskStep ==
  ASSUME TaskInv, NEW d \in Dispatchers, NEW q, Fine(q, workers'),
         task' = [task EXCEPT ![d] = q],
         \A w \in Workers : workers[w].hours \subseteq workers'[w].hours
  PROVE  TaskInv'
<1>1. \A c \in Dispatchers : Fine(task[c], workers')
  BY FineKeeps DEF TaskInv
<1>2. DOMAIN task' = Dispatchers
  BY DEF TaskInv
<1>3. \A c \in Dispatchers : task'[c] = IF c = d THEN q ELSE task[c]
  BY DEF TaskInv
<1>4. task' = [c \in Dispatchers |-> task'[c]]
  BY DEF TaskInv
<1>5. \A c \in Dispatchers : Fine(task'[c], workers')
  BY <1>1, <1>3
<1>6. QED BY <1>2, <1>4, <1>5 DEF TaskInv

(* No task changes and no hours are taken away.                            *)
LEMMA TaskSame ==
  ASSUME TaskInv, UNCHANGED task,
         \A w \in Workers : workers[w].hours \subseteq workers'[w].hours
  PROVE  TaskInv'
<1>1. \A c \in Dispatchers : Fine(task[c], workers')
  BY FineKeeps DEF TaskInv
<1>2. QED BY <1>1 DEF TaskInv

(* An exception inserted at any place leaves a list of exceptions.         *)
LEMMA InsertFacts ==
  ASSUME NEW S, NEW s \in Seq(S), NEW e \in S, NEW i \in 1..(Len(s) + 1)
  PROVE  InsertAt(s, i, e) \in Seq(S)
<1>1. SubSeq(s, 1, i - 1) \in Seq(S) /\ SubSeq(s, i, Len(s)) \in Seq(S)
  OBVIOUS
<1>2. <<e>> \in Seq(S)
  OBVIOUS
<1>3. QED BY <1>1, <1>2 DEF InsertAt

(* add_local_exception accepts what parse_local_exception returns.         *)
LEMMA ExceptionFacts ==
  ASSUME NEW day \in ExceptionDays, NEW i \in Intervals, NEW a \in BOOLEAN
  PROVE  ExceptionOf(day, i, a) \in GoodExceptions
<1>1. day \in Nat /\ i \in Hour \X Hour
  BY DutyAssumption
<1>2. i[1] \in Hour /\ i[2] \in Hour /\ i[1] \in Nat /\ i[2] \in Nat
  BY <1>1, HourFacts
<1> DEFINE last == IF i[2] <= i[1] THEN day + 1 ELSE day
<1>3. last \in Nat /\ (day < last \/ (day = last /\ i[1] < i[2]))
  BY <1>1, <1>2
<1>4. ExceptionOf(day, i, a) = [from |-> [day |-> day, hour |-> i[1]],
                                to |-> [day |-> last, hour |-> i[2]],
                                available |-> a]
  BY DEF ExceptionOf
<1> HIDE DEF last
<1>5. QED BY <1>1, <1>2, <1>3, <1>4 DEF GoodExceptions, Exceptions, Before

LEMMA RowsFacts ==
  ASSUME NEW days \in DaySets, NEW i \in Intervals
  PROVE  RowsOf(days, i) \in SUBSET Hours
<1>1. days \subseteq Weekdays /\ i[1] \in Hour /\ i[2] \in Hour
  BY DutyAssumption
<1>2. QED BY <1>1 DEF RowsOf, Hours

LEMMA InvInit == Init => Inv
<1> SUFFICES ASSUME Init PROVE Inv
  OBVIOUS
<1>1. RowsInv
  <2> DEFINE first == [approved : BOOLEAN, shift : {FALSE}, hours : {{}},
                       exceptions : {<<>>}]
  <2>1. workers \in [Workers -> first]
    BY DEF Init
  <2>2. ASSUME NEW row \in first PROVE row \in Rows
    <3>1. PICK a \in BOOLEAN, b \in {FALSE}, c \in {{}}, e \in {<<>>} :
            row = [approved |-> a, shift |-> b, hours |-> c, exceptions |-> e]
      OBVIOUS
    <3>2. e \in Seq(GoodExceptions) /\ c \in SUBSET Hours /\ b \in BOOLEAN
      BY <3>1
    <3>3. QED BY <3>1, <3>2 DEF Rows
  <2> HIDE DEF first
  <2>3. QED BY <2>1, <2>2 DEF RowsInv
<1>2. TaskInv
  BY IdleFine DEF Init, TaskInv
<1>3. OtherInv
  BY DutyAssumption DEF Init, OtherInv
<1>4. QED BY <1>1, <1>2, <1>3 DEF Inv

(* The row of one worker changes and loses no hours.                       *)
LEMMA RowStep ==
  ASSUME RowsInv, NEW w \in Workers, NEW row \in Rows,
         workers' = [workers EXCEPT ![w] = row],
         workers[w].hours \subseteq row.hours
  PROVE  /\ RowsInv'
         /\ \A v \in Workers : workers[v].hours \subseteq workers'[v].hours
BY DEF RowsInv

LEMMA BeginHoursStep ==
  ASSUME Inv, NEW d \in Dispatchers, BeginHours(d)
  PROVE  Inv'
<1>1. PICK w \in Workers, days \in DaySets, interval \in Intervals :
        task' = [task EXCEPT ![d] =
          [Idle EXCEPT !.phase = "hours", !.worker = w,
                       !.asked = RowsOf(days, interval),
                       !.insert = Missing(w, RowsOf(days, interval))]]
  BY DEF BeginHours
<1> DEFINE rows == RowsOf(days, interval)
           q == [Idle EXCEPT !.phase = "hours", !.worker = w, !.asked = rows,
                             !.insert = Missing(w, rows)]
<1>2. rows \in SUBSET Hours
  BY RowsFacts
<1> HIDE DEF rows
<1>3. Missing(w, rows) \in SUBSET Hours
      /\ (rows \ Missing(w, rows)) \subseteq workers[w].hours
  BY <1>2 DEF Missing
<1>4. q \in Tasks
  BY <1>2, <1>3 DEF Idle, Tasks
<1>5. Fine(q, workers)
  BY <1>3, <1>4 DEF Fine, Idle
<1>6. workers' = workers /\ cleaning' = cleaning /\ edits' = edits + 1
      /\ edits < MaxEdits
  BY DEF BeginHours
<1>7. TaskInv'
  <2>1. task' = [task EXCEPT ![d] = q]
    BY <1>1 DEF rows
  <2> HIDE DEF q
  <2>2. QED BY <1>5, <1>6, <2>1, TaskStep DEF Inv
<1>8. QED BY <1>6, <1>7, DutyAssumption DEF Inv, RowsInv, OtherInv

LEMMA SaveHoursStep ==
  ASSUME Inv, NEW d \in Dispatchers, SaveHours(d)
  PROVE  Inv'
<1> DEFINE w == task[d].worker
<1>1. Fine(task[d], workers) /\ w \in Workers /\ task[d].phase = "hours"
  BY DEF SaveHours, Inv, TaskInv, Fine
<1>2. cleaning' = cleaning /\ edits' = edits
  BY DEF SaveHours
<1>3. CASE /\ workers' = [workers EXCEPT ![w].hours = @ \cup task[d].insert]
           /\ task' = [task EXCEPT ![d].phase = "told"]
  <2> DEFINE row == [workers[w] EXCEPT !.hours = @ \cup task[d].insert]
             q == [task[d] EXCEPT !.phase = "told"]
  <2>1. workers[w] \in Rows /\ task[d] \in Tasks
    BY <1>1 DEF Inv, RowsInv, Fine
  <2>2. row \in Rows /\ row.hours = workers[w].hours \cup task[d].insert
    BY <2>1 DEF Rows, Tasks
  <2>3. q \in Tasks /\ q.phase = "told" /\ q.worker = w
        /\ q.asked = task[d].asked /\ q.undone = task[d].undone
    BY <2>1 DEF Tasks
  <2>4. workers' = [workers EXCEPT ![w] = row]
    BY <1>3
  <2>5. task' = [task EXCEPT ![d] = q]
    BY <1>3
  <2> HIDE DEF row, q
  <2>6. workers'[w] = row
    BY <1>1, <2>4 DEF Inv, RowsInv
  <2>7. Fine(q, workers')
    <3>1. (task[d].asked \ task[d].insert) \subseteq workers[w].hours
          \/ task[d].undone
      BY <1>1 DEF Fine
    <3>2. q.asked \subseteq workers'[w].hours \/ q.undone
      BY <2>2, <2>3, <2>6, <3>1
    <3>3. QED BY <1>1, <2>3, <3>2 DEF Fine
  <2>8. RowsInv'
        /\ \A v \in Workers : workers[v].hours \subseteq workers'[v].hours
    BY <1>1, <2>2, <2>4, RowStep DEF Inv
  <2>9. TaskInv'
    BY <2>5, <2>7, <2>8, TaskStep DEF Inv
  <2>10. QED BY <1>2, <2>8, <2>9 DEF Inv, OtherInv
<1>4. CASE task' = [task EXCEPT ![d] = Idle] /\ workers' = workers
  <2>1. TaskInv'
    BY <1>4, IdleFine, TaskStep DEF Inv
  <2>2. QED BY <1>2, <1>4, <2>1 DEF Inv, RowsInv, OtherInv
<1>5. QED BY <1>3, <1>4 DEF SaveHours

LEMMA BeginExceptionStep ==
  ASSUME Inv, NEW d \in Dispatchers, BeginException(d)
  PROVE  Inv'
<1>1. PICK w \in Workers, day \in ExceptionDays, interval \in Intervals,
           available \in BOOLEAN :
        task' = [task EXCEPT ![d] =
          [Idle EXCEPT !.phase = "exception", !.worker = w,
                       !.seen = Len(workers[w].exceptions),
                       !.extra = ExceptionOf(day, interval, available)]]
  BY DEF BeginException
<1>2. PICK extra : extra = ExceptionOf(day, interval, available)
  OBVIOUS
<1>3. PICK seen : seen = Len(workers[w].exceptions)
  OBVIOUS
<1>4. extra \in GoodExceptions /\ extra \in Exceptions
  BY <1>2, ExceptionFacts DEF GoodExceptions
<1>5. seen \in Nat
  BY <1>3 DEF Inv, RowsInv, Rows
<1> DEFINE q == [Idle EXCEPT !.phase = "exception", !.worker = w,
                             !.seen = seen, !.extra = extra]
<1>6. q \in Tasks
  BY <1>4, <1>5 DEF Idle, Tasks
<1>7. Fine(q, workers)
  BY <1>4, <1>6 DEF Fine, Idle
<1>8. workers' = workers /\ cleaning' = cleaning /\ edits' = edits + 1
      /\ edits < MaxEdits
  BY DEF BeginException
<1>9. TaskInv'
  <2>1. task' = [task EXCEPT ![d] = q]
    BY <1>1, <1>2, <1>3
  <2> HIDE DEF q
  <2>2. QED BY <1>7, <1>8, <2>1, TaskStep DEF Inv
<1>10. QED BY <1>8, <1>9, DutyAssumption DEF Inv, RowsInv, OtherInv

LEMMA SaveExceptionStep ==
  ASSUME Inv, NEW d \in Dispatchers, SaveException(d)
  PROVE  Inv'
<1> DEFINE w == task[d].worker
<1>1. Fine(task[d], workers) /\ w \in Workers
      /\ task[d].extra \in GoodExceptions /\ task[d].seen \in Nat
  BY DEF SaveException, Inv, TaskInv, Fine, Tasks
<1>2. PICK place \in (task[d].seen + 1)..(Len(workers[w].exceptions) + 1) :
        workers' = [workers EXCEPT ![w].exceptions =
                      InsertAt(@, place, task[d].extra)]
  BY DEF SaveException
<1>3. workers[w] \in Rows /\ workers[w].exceptions \in Seq(GoodExceptions)
  BY <1>1 DEF Inv, RowsInv, Rows
<1>4. PICK longer : longer = InsertAt(workers[w].exceptions, place, task[d].extra)
  OBVIOUS
<1>5. longer \in Seq(GoodExceptions)
  <2>1. place \in 1..(Len(workers[w].exceptions) + 1)
    BY <1>1, <1>3
  <2>2. QED BY <1>1, <1>3, <1>4, <2>1, InsertFacts
<1> DEFINE row == [workers[w] EXCEPT !.exceptions = longer]
<1>6. row \in Rows /\ row.hours = workers[w].hours
  BY <1>3, <1>5 DEF Rows
<1>7. workers' = [workers EXCEPT ![w] = row]
  BY <1>2, <1>4
<1> HIDE DEF row
<1>8. RowsInv'
      /\ \A v \in Workers : workers[v].hours \subseteq workers'[v].hours
  BY <1>1, <1>6, <1>7, RowStep DEF Inv
<1>9. TaskInv'
  <2>1. task' = [task EXCEPT ![d] = Idle]
    BY DEF SaveException
  <2>2. QED BY <1>8, <2>1, IdleFine, TaskStep DEF Inv
<1>10. cleaning' = cleaning /\ edits' = edits
  BY DEF SaveException
<1>11. QED BY <1>8, <1>9, <1>10 DEF Inv, OtherInv

LEMMA DismissStep ==
  ASSUME Inv, NEW d \in Dispatchers, Dismiss(d)
  PROVE  Inv'
<1>1. task' = [task EXCEPT ![d] = Idle] /\ workers' = workers
      /\ cleaning' = cleaning /\ edits' = edits
  BY DEF Dismiss
<1>2. TaskInv'
  BY <1>1, IdleFine, TaskStep DEF Inv
<1>3. QED BY <1>1, <1>2 DEF Inv, RowsInv, OtherInv

(* Clearing the hours marks every message about the worker.                *)
LEMMA ClearHoursStep ==
  ASSUME Inv, NEW w \in Workers, ClearHours(w)
  PROVE  Inv'
<1>1. workers' = [workers EXCEPT ![w].hours = {}]
      /\ cleaning' = cleaning /\ edits' = edits + 1 /\ edits < MaxEdits
  BY DEF ClearHours
<1>2. RowsInv'
  <2>1. [workers[w] EXCEPT !.hours = {}] \in Rows
    BY DEF Inv, RowsInv, Rows
  <2>2. QED BY <1>1, <2>1 DEF Inv, RowsInv
<1>3. \A v \in Workers : v # w => workers'[v] = workers[v]
  BY <1>1 DEF Inv, RowsInv
<1>4. task' = [d \in Dispatchers |->
                IF task[d].worker = w THEN [task[d] EXCEPT !.undone = TRUE]
                ELSE task[d]]
  BY DEF ClearHours
<1>5. ASSUME NEW d \in Dispatchers PROVE Fine(task'[d], workers')
  <2>1. Fine(task[d], workers) /\ task[d] \in Tasks
    BY DEF Inv, TaskInv, Fine
  <2>2. CASE task[d].worker = w
    <3> DEFINE q == [task[d] EXCEPT !.undone = TRUE]
    <3>1. q \in Tasks /\ q.undone = TRUE /\ q.phase = task[d].phase
          /\ q.worker = task[d].worker /\ q.extra = task[d].extra
      BY <2>1 DEF Tasks
    <3>2. task'[d] = q
      BY <1>4, <2>2
    <3> HIDE DEF q
    <3>3. QED BY <2>1, <3>1, <3>2 DEF Fine
  <2>3. CASE task[d].worker # w
    <3>1. task'[d] = task[d]
      BY <1>4, <2>3
    <3>2. QED BY <1>3, <2>1, <2>3, <3>1 DEF Fine
  <2>4. QED BY <2>2, <2>3
<1>6. TaskInv'
  BY <1>4, <1>5 DEF TaskInv
<1>7. QED BY <1>1, <1>2, <1>6, DutyAssumption DEF Inv, OtherInv

LEMMA StaffStep ==
  ASSUME Inv, NEW w \in Workers, ToggleShift(w) \/ Admit(w) \/ Revoke(w)
  PROVE  Inv'
<1>1. PICK a \in BOOLEAN, b \in BOOLEAN :
        workers' = [workers EXCEPT ![w].approved = a, ![w].shift = b]
  <2>1. workers[w] \in Rows
    BY DEF Inv, RowsInv
  <2>2. CASE ToggleShift(w)
    <3>1. workers' = [workers EXCEPT ![w].approved = workers[w].approved,
                                     ![w].shift = ~workers[w].shift]
      BY <2>1, <2>2 DEF ToggleShift, Rows, Inv, RowsInv
    <3>2. QED BY <2>1, <3>1 DEF Rows
  <2>3. CASE Admit(w)
    BY <2>3 DEF Admit
  <2>4. CASE Revoke(w)
    BY <2>4 DEF Revoke
  <2>5. QED BY <2>2, <2>3, <2>4
<1> DEFINE row == [workers[w] EXCEPT !.approved = a, !.shift = b]
<1>2. row \in Rows /\ row.hours = workers[w].hours
  BY DEF Inv, RowsInv, Rows
<1>3. workers' = [workers EXCEPT ![w] = row]
  BY <1>1 DEF Inv, RowsInv
<1> HIDE DEF row
<1>4. RowsInv'
      /\ \A v \in Workers : workers[v].hours \subseteq workers'[v].hours
  BY <1>2, <1>3, RowStep DEF Inv
<1>5. task' = task /\ cleaning' = cleaning /\ edits' = edits
  BY DEF ToggleShift, Admit, Revoke
<1>6. TaskInv'
  BY <1>4, <1>5, TaskSame DEF Inv
<1>7. QED BY <1>4, <1>5, <1>6 DEF Inv, OtherInv

LEMMA FileCleaningStep ==
  ASSUME Inv, NEW now \in Instants, FileCleaning(now)
  PROVE  Inv'
<1>1. workers' = workers /\ task' = task /\ edits' = MaxEdits
      /\ cleaning'.filed = now
  BY DEF FileCleaning
<1>2. TaskInv'
  BY <1>1, TaskSame DEF Inv
<1>3. QED BY <1>1, <1>2, DutyAssumption DEF Inv, RowsInv, OtherInv

LEMMA InvStep == Inv /\ [Next]_vars => Inv'
<1> SUFFICES ASSUME Inv, [Next]_vars PROVE Inv'
  OBVIOUS
<1>1. CASE UNCHANGED vars
  <2>1. TaskInv'
    BY <1>1, TaskSame DEF Inv, vars
  <2>2. QED BY <1>1, <2>1 DEF Inv, RowsInv, OtherInv, vars
<1>2. CASE \E d \in Dispatchers : \/ BeginHours(d) \/ SaveHours(d) \/ Dismiss(d)
                                  \/ BeginException(d) \/ SaveException(d)
  BY <1>2, BeginHoursStep, SaveHoursStep, DismissStep, BeginExceptionStep,
     SaveExceptionStep
<1>3. CASE \E w \in Workers : \/ ClearHours(w) \/ ToggleShift(w)
                              \/ Admit(w) \/ Revoke(w)
  BY <1>3, ClearHoursStep, StaffStep
<1>4. CASE \E now \in Instants : FileCleaning(now)
  BY <1>4, FileCleaningStep
<1>5. QED BY <1>1, <1>2, <1>3, <1>4 DEF Next

(* Rows, messages and the cleaning request have their types, and every     *)
(* stored exception ends after it starts.                                  *)
THEOREM TypeCorrect == Spec => []TypeOK
<1>1. Inv => TypeOK
  <2> SUFFICES ASSUME Inv PROVE TypeOK
    OBVIOUS
  <2>1. ASSUME NEW w \in Workers
        PROVE  /\ workers[w].approved \in BOOLEAN /\ workers[w].shift \in BOOLEAN
               /\ workers[w].hours \in SUBSET Hours
               /\ workers[w].exceptions \in Seq(Exceptions)
               /\ \A e \in ToSet(workers[w].exceptions) : Before(e.from, e.to)
    <3>1. workers[w] \in Rows
      BY DEF Inv, RowsInv
    <3>2. PICK es : es = workers[w].exceptions
      OBVIOUS
    <3>3. es \in Seq(GoodExceptions)
      BY <3>1, <3>2 DEF Rows
    <3>4. \A i \in DOMAIN es : es[i] \in GoodExceptions
      BY <3>3
    <3>5. GoodExceptions \subseteq Exceptions
      BY DEF GoodExceptions
    <3>6. es \in Seq(Exceptions)
      BY <3>3, <3>4, <3>5
    <3>7. \A e \in ToSet(es) : Before(e.from, e.to)
      BY <3>4 DEF ToSet, GoodExceptions
    <3>8. QED BY <3>1, <3>2, <3>6, <3>7 DEF Rows
  <2>2. task \in [Dispatchers -> Tasks]
    BY DEF Inv, TaskInv, Fine
  <2>3. QED BY <2>1, <2>2 DEF TypeOK, Inv, OtherInv
<1>2. QED BY InvInit, InvStep, <1>1, PTL DEF Spec

(* A dispatcher who is told that the hours were added finds all of them in *)
(* the table, or somebody cleared them while he worked.                    *)
THEOREM AddedCorrect == Spec => []AddedUnlessCleared
<1>1. Inv => AddedUnlessCleared
  BY DEF Inv, TaskInv, Fine, AddedUnlessCleared
<1>2. QED BY InvInit, InvStep, <1>1, PTL DEF Spec

-----------------------------------------------------------------------------
(* Who is planned.                                                         *)

(* Every non-empty set of positions in a list has a last one, and Max is   *)
(* that position.                                                          *)
LEMMA MaxFacts ==
  ASSUME NEW n \in Nat, NEW S \in SUBSET (1..n), S # {}
  PROVE  Max(S) \in S /\ \A i \in S : i <= Max(S)
<1> DEFINE T == {n - i : i \in S}
<1>1. IsWellFoundedOn(OpToRel(<, Nat), Nat)
      /\ \A x, y \in Nat : y < x => <<y, x>> \in OpToRel(<, Nat)
  <2>1. IsWellFoundedOn(OpToRel(<, Nat), Nat)
    BY NatLessThanWellFounded
  <2>2. \A x, y \in Nat : y < x => <<y, x>> \in OpToRel(<, Nat)
    BY DEF OpToRel
  <2>3. QED BY <2>1, <2>2, Zenon
<1>2. PICK R : IsWellFoundedOn(R, Nat) /\ \A x, y \in Nat : y < x => <<y, x>> \in R
  BY <1>1, Zenon
<1>3. T \in SUBSET Nat /\ T # {}
  <2>1. \A i \in S : n - i \in Nat
    OBVIOUS
  <2>2. QED BY <2>1
<1>4. PICK x \in T : \A y \in T : <<y, x>> \notin R
  BY <1>2, <1>3, WFMin
<1>5. PICK m \in S : x = n - m
  BY <1>4
<1>6. ASSUME NEW i \in S
      PROVE  m >= i
  <2>1. i \in Nat /\ m \in Nat /\ n - i \in T /\ n - i \in Nat /\ x \in Nat
    BY <1>3
  <2>2. ~(n - i < x)
    BY <1>2, <1>4, <2>1
  <2>3. QED BY <1>5, <2>1, <2>2
<1>7. \E q \in S : \A y \in S : q >= y
  BY <1>6
<1>8. Max(S) \in S /\ \A y \in S : Max(S) >= y
  BY <1>7 DEF Max
<1>9. \A i \in S : i \in Nat
  OBVIOUS
<1>10. QED BY <1>8, <1>9

(* Planned of a worker with these exceptions and hours.                    *)
AroundIn(es, t) == {i \in DOMAIN es : Within(t, es[i].from, es[i].to)}
PlannedIn(es, hours, t) ==
  IF AroundIn(es, t) # {} THEN es[Max(AroundIn(es, t))].available
  ELSE hours = {} \/ \E h \in hours : MatchesHour(h, t)

LEMMA PlannedRow ==
  ASSUME NEW w \in Workers, NEW t \in Instants
  PROVE  /\ Planned(w, t) = PlannedIn(workers[w].exceptions, workers[w].hours, t)
         /\ Planned(w, t)' = PlannedIn(workers'[w].exceptions, workers'[w].hours, t)
BY DEF Planned, PlannedIn, Covering, AroundIn, Newest

(* The newest of the exceptions around an instant.                         *)
LEMMA NewestFacts ==
  ASSUME NEW es \in Seq(GoodExceptions), NEW t, AroundIn(es, t) # {}
  PROVE  /\ Max(AroundIn(es, t)) \in AroundIn(es, t)
         /\ \A i \in AroundIn(es, t) : i <= Max(AroundIn(es, t))
<1>1. AroundIn(es, t) \in SUBSET (1..Len(es)) /\ Len(es) \in Nat
  BY DEF AroundIn
<1>2. QED BY <1>1, MaxFacts

(* Planned, for the newest exception around an instant, is what that       *)
(* exception says; without one, what the concrete shifts of the week say.  *)
THEOREM PlannedCorrect == Spec => []PlannedIsTheWeek
<1>1. Inv => PlannedIsTheWeek
  <2> SUFFICES ASSUME Inv, NEW w \in Workers, NEW t \in Instants
      PROVE LET es     == workers[w].exceptions
                shifts == UNION {Occurrences(h) : h \in workers[w].hours}
                around == {i \in DOMAIN es : Within(t, es[i].from, es[i].to)}
            IN Planned(w, t) <=>
                 IF around # {}
                 THEN \A i \in around : es[i].available \/ \E j \in around : j > i
                 ELSE \/ workers[w].hours = {}
                      \/ \E o \in shifts : Within(t, o.from, o.to)
    BY DEF PlannedIsTheWeek
  <2>1. PICK es, hours : es = workers[w].exceptions /\ hours = workers[w].hours
    OBVIOUS
  <2>2. es \in Seq(GoodExceptions) /\ hours \in SUBSET Hours
    BY <2>1 DEF Inv, RowsInv, Rows
  <2>3. Planned(w, t) = PlannedIn(es, hours, t)
    BY <2>1, PlannedRow
  <2> DEFINE around == AroundIn(es, t)
             m == Max(around)
  <2>4. CASE around # {}
    <3>1. m \in around /\ \A i \in around : i <= m
      BY <2>2, <2>4, NewestFacts
    <3>2. around \in SUBSET Nat
      BY <2>2 DEF AroundIn
    <3>3. Planned(w, t) = es[m].available
      BY <2>3, <2>4 DEF PlannedIn
    <3>4. es[m].available \in BOOLEAN
      BY <2>2, <3>1 DEF AroundIn, GoodExceptions, Exceptions
    <3> HIDE DEF m
    <3>5. es[m].available <=>
            \A i \in around : es[i].available \/ \E j \in around : j > i
      <4>1. ASSUME es[m].available, NEW i \in around
            PROVE  es[i].available \/ \E j \in around : j > i
        <5>1. i = m \/ m > i
          BY <3>1, <3>2
        <5>2. QED BY <3>1, <4>1, <5>1
      <4>2. \A j \in around : ~(j > m)
        BY <3>1, <3>2
      <4>3. QED BY <3>1, <4>1, <4>2
    <3>6. QED BY <2>1, <2>4, <3>3, <3>4, <3>5 DEF AroundIn
  <2>5. CASE around = {}
    <3>1. Planned(w, t) <=> hours = {} \/ \E h \in hours : MatchesHour(h, t)
      BY <2>3, <2>5 DEF PlannedIn
    <3>2. (\E h \in hours : MatchesHour(h, t)) <=>
            \E o \in UNION {Occurrences(h) : h \in hours} : Within(t, o.from, o.to)
      BY <2>2, WeekCorrect
    <3>3. QED BY <2>1, <2>5, <3>1, <3>2 DEF AroundIn
  <2>6. QED BY <2>4, <2>5
<1>2. QED BY InvInit, InvStep, <1>1, PTL DEF Spec

(* Where the entries of a list are after an insertion.                     *)
LEMMA InsertPlaces ==
  ASSUME NEW S, NEW s \in Seq(S), NEW e \in S, NEW p \in 1..(Len(s) + 1),
         NEW longer, longer = InsertAt(s, p, e)
  PROVE  /\ longer \in Seq(S) /\ Len(longer) = Len(s) + 1
         /\ longer[p] = e
         /\ \A i \in 1..Len(s) : i < p => longer[i] = s[i]
         /\ \A i \in 1..Len(s) : i >= p => longer[i + 1] = s[i]
<1> DEFINE a == SubSeq(s, 1, p - 1)
           b == SubSeq(s, p, Len(s))
           n == Len(s)
<1>1. /\ a \in Seq(S) /\ Len(a) = p - 1 /\ \A i \in 1..(p - 1) : a[i] = s[i]
      /\ b \in Seq(S) /\ Len(b) = n - p + 1
      /\ \A i \in 1..(n - p + 1) : b[i] = s[p + i - 1]
  BY SubSeqProperties
<1>2. longer = (a \o <<e>>) \o b
  BY DEF InsertAt
<1>3. n \in Nat /\ p \in Nat /\ <<e>> \in Seq(S) /\ Len(<<e>>) = 1 /\ <<e>>[1] = e
  OBVIOUS
<1> HIDE DEF a, b, n
<1>4. PICK c, one : one = <<e>> /\ c = a \o one
  OBVIOUS
<1>5. /\ c \in Seq(S) /\ Len(c) = p /\ c[p] = e
      /\ \A i \in 1..(p - 1) : c[i] = s[i]
  <2>1. one \in Seq(S) /\ Len(one) = 1 /\ one[1] = e
    BY <1>3, <1>4
  <2>2. /\ c \in Seq(S) /\ Len(c) = Len(a) + Len(one)
        /\ \A i \in 1..(Len(a) + Len(one)) :
             c[i] = IF i <= Len(a) THEN a[i] ELSE one[i - Len(a)]
    BY <1>1, <1>4, <2>1, ConcatProperties
  <2>3. QED BY <1>1, <1>3, <2>1, <2>2
<1>6. /\ longer \in Seq(S) /\ Len(longer) = n + 1
      /\ \A i \in 1..p : longer[i] = c[i]
      /\ \A i \in 1..(n - p + 1) : longer[p + i] = b[i]
  <2>1. longer = c \o b
    BY <1>2, <1>4
  <2>2. /\ longer \in Seq(S) /\ Len(longer) = Len(c) + Len(b)
        /\ \A i \in 1..(Len(c) + Len(b)) :
             longer[i] = IF i <= Len(c) THEN c[i] ELSE b[i - Len(c)]
    <3>1. c \in Seq(S) /\ b \in Seq(S)
      BY <1>1, <1>5
    <3>2. QED BY <2>1, <3>1, ConcatProperties
  <2>3. p \in Nat /\ n \in Nat /\ p >= 1 /\ p <= n + 1
    BY DEF n
  <2>4. Len(c) = p /\ Len(b) = n - p + 1
    BY <1>1, <1>5
  <2>5. Len(longer) = n + 1
    BY <2>2, <2>3, <2>4
  <2>6. \A i \in 1..(n + 1) : longer[i] = IF i <= p THEN c[i] ELSE b[i - p]
    BY <2>2, <2>3, <2>4
  <2>7. ASSUME NEW i \in 1..p PROVE longer[i] = c[i]
    BY <2>3, <2>6
  <2>8. ASSUME NEW i \in 1..(n - p + 1) PROVE longer[p + i] = b[i]
    <3>1. p + i \in 1..(n + 1) /\ ~(p + i <= p) /\ (p + i) - p = i
      BY <2>3
    <3>2. QED BY <2>6, <3>1
  <2>9. QED BY <2>2, <2>5, <2>7, <2>8
<1>7. ASSUME NEW i \in 1..n, i >= p
      PROVE  longer[i + 1] = s[i]
  <2>1. PICK k : k = i - p + 1
    OBVIOUS
  <2>2. k \in 1..(n - p + 1) /\ p + k = i + 1 /\ p + k - 1 = i
    BY <1>3, <1>7, <2>1
  <2>3. longer[p + k] = b[k] /\ b[k] = s[p + k - 1]
    BY <1>1, <1>6, <2>2
  <2>4. QED BY <2>2, <2>3
<1>8. ASSUME NEW i \in 1..n, i < p
      PROVE  longer[i] = s[i]
  BY <1>3, <1>5, <1>6, <1>8
<1>9. QED BY <1>3, <1>5, <1>6, <1>7, <1>8 DEF n

(* A new exception takes somebody off duty only where it is an absence.    *)
LEMMA ExtraFacts ==
  ASSUME NEW es \in Seq(GoodExceptions), NEW e \in GoodExceptions,
         NEW p \in 1..(Len(es) + 1), NEW hours, NEW t,
         NEW longer, longer = InsertAt(es, p, e),
         PlannedIn(es, hours, t), ~PlannedIn(longer, hours, t)
  PROVE  ~e.available /\ Within(t, e.from, e.to)
<1> DEFINE n == Len(es)
           old == AroundIn(es, t)
           new == AroundIn(longer, t)
           m == Max(new)
<1>1. /\ longer \in Seq(GoodExceptions) /\ Len(longer) = n + 1
      /\ longer[p] = e
      /\ \A i \in 1..n : i < p => longer[i] = es[i]
      /\ \A i \in 1..n : i >= p => longer[i + 1] = es[i]
  BY InsertPlaces
<1>2. n \in Nat /\ p \in Nat
  OBVIOUS
<1>3. \A i \in 1..n : i \in old <=> Within(t, es[i].from, es[i].to)
  BY DEF AroundIn
<1>4. \A i \in 1..(n + 1) : i \in new <=> Within(t, longer[i].from, longer[i].to)
  BY <1>1, <1>2 DEF AroundIn
<1>5. old \subseteq 1..n /\ new \subseteq 1..(n + 1)
  BY <1>1, <1>2 DEF AroundIn
<1> HIDE DEF n, old, new
<1>6. /\ \A i \in old : i < p => i \in new
      /\ \A i \in old : i >= p => i + 1 \in new
  BY <1>1, <1>2, <1>3, <1>4, <1>5
<1>7. new # {}
  <2>1. CASE new = {}
    <3>1. old = {}
      BY <1>2, <1>5, <1>6, <2>1
    <3>2. QED BY <2>1, <3>1 DEF PlannedIn, old, new
  <2>2. QED BY <2>1
<1>8. m \in new /\ \A i \in new : i <= m
  BY <1>1, <1>7, NewestFacts DEF new
<1>9. ~longer[m].available
  BY <1>7 DEF PlannedIn, new
<1> HIDE DEF m
<1>10. CASE m = p
  BY <1>1, <1>4, <1>5, <1>8, <1>9, <1>10
<1>11. ASSUME m # p PROVE FALSE
  <2>1. m \in 1..(n + 1)
    BY <1>5, <1>8
  <2>2. PICK k \in 1..n : longer[m] = es[k] /\ (k < p => m = k) /\ (k >= p => m = k + 1)
    <3>1. CASE m < p
      <4>1. m \in 1..n /\ m < p /\ ~(m >= p)
        BY <1>2, <2>1, <3>1 DEF n
      <4>2. longer[m] = es[m]
        BY <1>1, <4>1
      <4>3. QED BY <4>1, <4>2
    <3>2. CASE m > p
      <4>1. m - 1 \in 1..n /\ m - 1 >= p /\ ~(m - 1 < p) /\ (m - 1) + 1 = m
        BY <1>2, <2>1, <3>2
      <4>2. longer[(m - 1) + 1] = es[m - 1]
        BY <1>1, <4>1
      <4>3. QED BY <4>1, <4>2
    <3>3. QED BY <1>2, <1>11, <2>1, <3>1, <3>2
  <2>3. k \in old
    BY <1>3, <1>4, <1>8, <2>1, <2>2
  <2>4. ASSUME NEW i \in old PROVE i <= k
    <3>1. i \in 1..n
      BY <1>5
    <3>2. CASE i < p
      <4>1. i <= m
        BY <1>6, <1>8, <3>2
      <4>2. QED BY <1>2, <2>2, <3>1, <3>2, <4>1
    <3>3. CASE i >= p
      <4>1. i + 1 <= m
        BY <1>6, <1>8, <3>3
      <4>2. QED BY <1>2, <2>2, <3>1, <3>3, <4>1
    <3>4. QED BY <1>2, <3>1, <3>2, <3>3
  <2>5. Max(old) \in old /\ \A i \in old : i <= Max(old)
    BY <2>3, NewestFacts DEF old
  <2>6. PICK j : j = Max(old)
    OBVIOUS
  <2>7. j \in 1..n /\ j <= k /\ k <= j
    BY <1>5, <2>3, <2>4, <2>5, <2>6
  <2>8. j = k
    BY <1>2, <2>7
  <2>9. es[k].available
    BY <2>3, <2>6, <2>8 DEF PlannedIn, old
  <2>10. QED BY <1>9, <2>2, <2>9
<1>12. QED BY <1>10, <1>11

(* What may take worker w off duty at instant t.                           *)
TakenOffBy(w, t) ==
  (Planned(w, t) /\ ~Planned(w, t)') =>
     \/ workers[w].hours = {} /\ workers'[w].hours # {}
     \/ \E e \in ToSet(workers'[w].exceptions) :
          /\ ~e.available /\ Within(t, e.from, e.to)
          /\ Len(workers'[w].exceptions) > Len(workers[w].exceptions)

(* Every step takes him off only by that.                                  *)
LEMMA OffDutyStep ==
  ASSUME Inv, [Next]_vars, NEW w \in Workers, NEW t \in Instants
  PROVE  TakenOffBy(w, t)
<1> DEFINE es == workers[w].exceptions
           hours == workers[w].hours
<1>1. /\ Planned(w, t) = PlannedIn(es, hours, t)
      /\ Planned(w, t)' = PlannedIn(workers'[w].exceptions, workers'[w].hours, t)
  BY PlannedRow
<1>2. workers[w] \in Rows /\ es \in Seq(GoodExceptions)
  BY DEF Inv, RowsInv, Rows
<1>3. ASSUME workers'[w].exceptions = es, hours \subseteq workers'[w].hours
      PROVE  TakenOffBy(w, t)
  <2>1. CASE AroundIn(es, t) # {}
    BY <1>1, <1>3, <2>1 DEF PlannedIn, TakenOffBy
  <2>2. CASE AroundIn(es, t) = {}
    BY <1>1, <1>3, <2>2 DEF PlannedIn, TakenOffBy
  <2>3. QED BY <2>1, <2>2
<1>4. ASSUME workers'[w].exceptions = es, workers'[w].hours = {}
      PROVE  TakenOffBy(w, t)
  BY <1>1, <1>4 DEF PlannedIn, TakenOffBy
<1>5. ASSUME NEW d \in Dispatchers, SaveHours(d)
      PROVE  TakenOffBy(w, t)
  <2>1. workers'[w].exceptions = es /\ hours \subseteq workers'[w].hours
    <3>1. CASE task[d].worker = w
      <4>1. workers' = [workers EXCEPT ![w].hours = @ \cup task[d].insert]
            \/ workers' = workers
        BY <1>5, <3>1 DEF SaveHours
      <4>2. workers'[w] = [workers[w] EXCEPT !.hours = @ \cup task[d].insert]
            \/ workers'[w] = workers[w]
        BY <4>1 DEF Inv, RowsInv
      <4>3. QED BY <1>2, <4>2 DEF Rows
    <3>2. CASE task[d].worker # w
      <4>1. workers'[w] = workers[w]
        BY <1>5, <3>2 DEF SaveHours, Inv, RowsInv
      <4>2. QED BY <4>1
    <3>3. QED BY <3>1, <3>2
  <2>2. QED BY <1>3, <2>1
<1>6. ASSUME NEW d \in Dispatchers, SaveException(d)
      PROVE  TakenOffBy(w, t)
  <2> DEFINE v == task[d].worker
  <2>1. Fine(task[d], workers) /\ v \in Workers
        /\ task[d].extra \in GoodExceptions /\ task[d].seen \in Nat
    BY <1>6 DEF SaveException, Inv, TaskInv, Fine, Tasks
  <2>2. PICK place \in (task[d].seen + 1)..(Len(workers[v].exceptions) + 1) :
          workers' = [workers EXCEPT ![v].exceptions =
                        InsertAt(@, place, task[d].extra)]
    BY <1>6 DEF SaveException
  <2>3. CASE w # v
    <3>1. workers'[w] = workers[w]
      BY <2>2, <2>3
    <3>2. QED BY <1>3, <3>1
  <2>4. CASE w = v
    <3>1. PICK longer, e : longer = InsertAt(es, place, e) /\ e = task[d].extra
      OBVIOUS
    <3>2. workers'[w].exceptions = longer /\ workers'[w].hours = hours
      BY <1>2, <2>2, <2>4, <3>1 DEF Inv, RowsInv, Rows
    <3>3. place \in 1..(Len(es) + 1) /\ e \in GoodExceptions
      BY <1>2, <2>1, <2>4, <3>1
    <3>4. /\ longer \in Seq(GoodExceptions) /\ Len(longer) = Len(es) + 1
          /\ longer[place] = e
      <4> HIDE DEF es
      <4>1. QED BY <1>2, <3>1, <3>3, InsertPlaces
    <3>5. Len(longer) > Len(es) /\ e \in ToSet(longer)
      <4>1. Len(es) \in Nat /\ place \in DOMAIN longer
        BY <1>2, <3>3, <3>4
      <4>2. QED BY <3>4, <4>1 DEF ToSet
    <3>6. ASSUME PlannedIn(es, hours, t), ~PlannedIn(longer, hours, t)
          PROVE  ~e.available /\ Within(t, e.from, e.to)
      <4> HIDE DEF es, hours
      <4>1. QED BY <1>2, <3>1, <3>3, <3>6, ExtraFacts
    <3>7. QED BY <1>1, <3>2, <3>5, <3>6 DEF TakenOffBy
  <2>5. QED BY <2>3, <2>4
<1>7. ASSUME NEW v \in Workers, ClearHours(v)
      PROVE  TakenOffBy(w, t)
  <2>1. CASE w = v
    <3>1. workers'[w].exceptions = es /\ workers'[w].hours = {}
      BY <1>2, <1>7, <2>1 DEF ClearHours, Inv, RowsInv, Rows
    <3>2. QED BY <1>4, <3>1
  <2>2. CASE w # v
    <3>1. workers'[w] = workers[w]
      BY <1>7, <2>2 DEF ClearHours, Inv, RowsInv
    <3>2. QED BY <1>3, <3>1
  <2>3. QED BY <2>1, <2>2
<1>8. ASSUME NEW v \in Workers, ToggleShift(v) \/ Admit(v) \/ Revoke(v)
      PROVE  TakenOffBy(w, t)
  <2>1. workers'[w].exceptions = es /\ workers'[w].hours = hours
    <3>1. CASE w # v
      BY <1>8, <3>1 DEF ToggleShift, Admit, Revoke, Inv, RowsInv
    <3>2. CASE w = v
      <4>1. \/ workers'[w] = [workers[w] EXCEPT !.shift = ~@]
            \/ workers'[w] = [workers[w] EXCEPT !.approved = TRUE, !.shift = FALSE]
            \/ workers'[w] = [workers[w] EXCEPT !.approved = FALSE, !.shift = FALSE]
        BY <1>8, <3>2 DEF ToggleShift, Admit, Revoke, Inv, RowsInv
      <4>2. QED BY <1>2, <4>1 DEF Rows
    <3>3. QED BY <3>1, <3>2
  <2>2. QED BY <1>3, <2>1
<1>9. CASE UNCHANGED workers
  BY <1>3, <1>9
<1>10. QED
  BY <1>5, <1>6, <1>7, <1>8, <1>9 DEF Next, vars, BeginHours, Dismiss, BeginException, FileCleaning

(* A step takes a worker off duty only by an absence around the instant or *)
(* by his first hours.                                                     *)
THEOREM OffDutyCorrect == Spec => OffDutyOnlyBy
<1>1. Inv /\ [Next]_vars =>
        [\A w \in Workers :
           workers'[w] # workers[w] =>
             \A t \in Instants :
               (Planned(w, t) /\ ~Planned(w, t)') =>
                 \/ workers[w].hours = {} /\ workers'[w].hours # {}
                 \/ \E e \in ToSet(workers'[w].exceptions) :
                      /\ ~e.available /\ Within(t, e.from, e.to)
                      /\ Len(workers'[w].exceptions) > Len(workers[w].exceptions)]_workers
  BY OffDutyStep DEF TakenOffBy
<1>2. QED BY InvInit, InvStep, <1>1, PTL DEF Spec, OffDutyOnlyBy

=============================================================================
