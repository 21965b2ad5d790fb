------------------------------ MODULE Reports ------------------------------
(***************************************************************************)
(* The dispatcher's reports: bot/services/reports.py and the handlers of   *)
(* bot/handlers/dispatcher.py that open them.                              *)
(*                                                                         *)
(* A report is read in several queries of one transaction, each of which   *)
(* sees what others have committed and asks the clock again.  A row that   *)
(* an earlier query loaded stays as it was loaded (the identity map of the *)
(* session).  The filters live in nothing but the buttons.                 *)
(*                                                                         *)
(* Of the five filters two are modelled: urgency, with its "none" for      *)
(* NULL, stands for result and escalation, worker for category.  Times are *)
(* local dates: a period begins and ends at midnight.                      *)
(* Errors of the database, the LLM and Telegram are left out: a report     *)
(* fails here only by what it computes.  Nobody is renamed or deleted      *)
(* while reports are read.                                                 *)
(***************************************************************************)
EXTENDS Integers, FiniteSets

CONSTANTS
  Requests, Workers,
  Unnamed,             \* workers whose full_name is NULL
  Extreme,             \* dates next to the ends of datetime's range
  Urgencies,           \* the urgency of a request; None is NULL
  Offered,             \* bound: the urgencies asked for
  LastDay,             \* bound: the last date
  Week, ThirtyDays,    \* lengths of the rolling periods
  Month, Year,         \* lengths, all months and years alike
  BucketDays,          \* 45: up to here a line of the dynamics is one day
  MaxSpan,             \* 730: the longest period a dispatcher may name
  MaxChanges, MaxTaps, \* bounds: changes of requests; taps and messages
  None                 \* NULL; no worker filter; no date

Dates   == 0..LastDay
Screens == {"overview", "categories", "workers", "dynamics", "csv"}

Periods == {"today", "yesterday", "7d", "30d", "month", "prev_month", "custom"}
PeriodCode ==
  [p \in Periods |-> CASE p = "today" -> "t" [] p = "yesterday" -> "y"
                       [] p = "7d" -> "7" [] p = "30d" -> "30" [] p = "month" -> "m"
                       [] p = "prev_month" -> "pm" [] p = "custom" -> "c"]
ResultCode  == [all |-> "a", high |-> "h", normal |-> "n", low |-> "l",
                none |-> "n"]                \* faulty: one code twice
UrgencyCode == [all |-> "a", high |-> "h", normal |-> "n", low |-> "l",
                none |-> "x"]

ASSUME ReportsAssumption ==
  /\ {LastDay, Week, ThirtyDays, BucketDays, MaxSpan, MaxChanges, MaxTaps} \subseteq Nat
  /\ {Month, Year} \subseteq Nat \ {0} /\ Year % Month = 0 /\ BucketDays <= Year
  /\ Urgencies \subseteq DOMAIN UrgencyCode \cup {None}
  /\ Offered \subseteq DOMAIN UrgencyCode /\ "all" \in Offered
  /\ Unnamed \subseteq Workers /\ Extreme \subseteq Dates
  /\ None \notin Dates

(* ReportFilters.  Without dates "custom" is the last seven days.          *)
Filters == [period : Periods, urgency : Offered,
            worker : Workers \cup {None},
            start : Dates \cup {None}, end : Dates \cup {None}]
IsFilters(f) ==
  /\ f \in Filters
  /\ f.start = None <=> f.end = None
  /\ f.start # None => f.start <= f.end /\ f.end - f.start <= MaxSpan

DefaultFilters == [period |-> "7d", urgency |-> "all", worker |-> None,
                   start |-> None, end |-> None]

Rows == [urgency : Urgencies, worker : Workers \cup {None}, created : Dates,
         closed : Dates \cup {None}, escalated : Dates \cup {None}]

Phases == {"no", "created", "closed", "escalated", "shown", "failed"}

VARIABLES
  today,      \* the local date
  table,      \* the requests; None: not created, or deleted
  card,       \* the report message: its screen, the filters it names and
              \* the codes on its buttons
  dialogue,   \* the FSM: what it waits for, and report_start
  reading,    \* the report a handler works on, or the last one: its rows
              \* as loaded, the ids of each query; history: when it began,
              \* the requests touched since
  changes,
  taps

vars == <<today, table, card, dialogue, reading, changes, taps>>

-----------------------------------------------------------------------------
(* _cb and _report_filters.                                                *)
Encode(f) == [f EXCEPT !.period = PeriodCode[@], !.urgency = UrgencyCode[@]]
KeyOf(codes, code) == CHOOSE key \in DOMAIN codes : codes[key] = code
Decode(b) == [b EXCEPT !.period = KeyOf(PeriodCode, @),
                       !.urgency = KeyOf(UrgencyCode, @)]

Fixed(f) == f.period = "custom" /\ f.start # None

(* report_period: dates from .. to - 1.                                    *)
MonthStart(d) == d - (d % Month)

FullDays(day, n) == [from |-> day - n, to |-> day]   \* faulty: without today
LastDays(day, n) == [from |-> day - (n - 1), to |-> day + 1]

Period(f, day) ==
  CASE f.period = "today"      -> LastDays(day, 1)
    [] f.period = "yesterday"  -> [from |-> day - 1, to |-> day]
    [] f.period = "30d"        -> LastDays(day, ThirtyDays)
    [] f.period = "month"      -> [from |-> MonthStart(day), to |-> day + 1]
    [] f.period = "prev_month" -> [from |-> MonthStart(MonthStart(day) - 1),
                                   to   |-> MonthStart(day)]
    [] Fixed(f)                -> [from |-> f.start, to |-> f.end + 1]
    [] OTHER                   -> LastDays(day, Week)

(* date + timedelta or astimezone raises OverflowError.                    *)
Overflows(f) == Fixed(f) /\ {f.start, f.end} \cap Extreme # {}

(* _filtered and _period_requests, of a date of the row.                   *)
Selected(f, row) ==
  /\ f.urgency = "all" \/ row.urgency = (IF f.urgency = "none" THEN None ELSE f.urgency)
  /\ f.worker \in {None, row.worker}

Found(f, period, date) ==
  {r \in Requests :
     /\ table[r] # None
     /\ Selected(f, table[r])
     /\ table[r][date] # None
     /\ table[r][date] \in period.from..(period.to - 1)}

(* build_dynamics: the line a date is counted in.                          *)
Line(period, d) ==
  IF period.to - period.from <= BucketDays THEN d % Year ELSE d \div Month

-----------------------------------------------------------------------------
Blank(screen, f) ==
  [phase |-> "no", screen |-> screen, filters |-> f, began |-> today,
   loaded |-> [r \in Requests |-> None],
   created |-> {}, closed |-> {}, escalated |-> {}, touched |-> {}]

Quiet == [waits |-> "no", start |-> None]
Card(screen, f) == [screen |-> screen, filters |-> f, buttons |-> Encode(f)]

(* The dispatcher has come here by any taps, or has no report yet.  As     *)
(* bounds, he has set one of the filters at most, the period among them,   *)
(* and of the sections, which all have the one button, he is in one.       *)
Init ==
  /\ today = 0
  /\ table = [r \in Requests |-> None]
  /\ \/ /\ \E screen \in {"overview", "workers", "filters"}, f \in Filters :
             /\ f.period # "yesterday"
             /\ f.worker = None \/ f.urgency = "all"
             /\ f.period = "7d" \/ (f.worker = None /\ f.urgency = "all")
             /\ f.start # None => f.period = "custom"
             /\ IsFilters(f) /\ ~Overflows(f)
             /\ card = Card(screen, f)
        /\ dialogue = Quiet
     \/ /\ card = None
        /\ dialogue \in {Quiet, [Quiet EXCEPT !.waits = "start"]}
                          \cup [waits : {"end"}, start : Dates]
  /\ reading = Blank("overview", DefaultFilters)
  /\ changes = 0 /\ taps = 0

Busy == reading.phase \in {"created", "closed", "escalated"}

Tap == taps < MaxTaps /\ taps' = taps + 1
Begin(screen, f) == reading' = [Blank(screen, f) EXCEPT !.phase = "created"]

(* dispatcher_summary: the button of the menu.                             *)
Summary ==
  /\ ~Busy /\ Tap
  /\ Begin("overview", DefaultFilters)
  /\ UNCHANGED <<today, table, card, dialogue, changes>>

(* dispatcher_report_callback.  The buttons of report_keyboard: a period   *)
Shows(screen) == ~Busy /\ card # None /\ card.screen = screen

TapPeriod(p) ==
  LET f == Decode([card.buttons EXCEPT !.period = PeriodCode[p]]) IN
  /\ Shows("overview") /\ Tap
  /\ IF p = "custom" THEN /\ dialogue' = [Quiet EXCEPT !.waits = "start"]
                          /\ UNCHANGED reading
     ELSE /\ Begin("overview", f)
          /\ UNCHANGED dialogue
  /\ UNCHANGED <<today, table, card, changes>>

(* or a section, which leads back to the overview;                         *)
TapSection(screen) ==
  /\ \/ Shows("overview")
     \/ screen = "overview" /\ ~Shows("overview") /\ ~Shows("csv") /\ ~Busy /\ card # None
  /\ Tap /\ Begin(screen, Decode(card.buttons))
  /\ UNCHANGED <<today, table, card, dialogue, changes>>

(* or the filters, each with a list of its values (two taps).              *)
TapFilters ==
  /\ Shows("overview") /\ Tap
  /\ card' = Card("filters", Decode(card.buttons))
  /\ UNCHANGED <<today, table, dialogue, reading, changes>>

Choose(f) ==
  /\ Shows("filters") /\ Tap
  /\ card' = Card("filters", Decode(Encode(f)))
  /\ UNCHANGED <<today, table, dialogue, reading, changes>>
(* A worker without a name makes the list of workers fail; one that is     *)
(* open still works.                                                       *)
ChooseUrgency(u) == Choose([Decode(card.buttons) EXCEPT !.urgency = u])
ChooseWorker(w)  == Choose([Decode(card.buttons) EXCEPT !.worker = w])

(* The reset of build_filter_screen keeps the period and not its dates.    *)
TapReset ==
  /\ Shows("filters") /\ Tap
  /\ Begin("overview", [DefaultFilters EXCEPT !.period = Decode(card.buttons).period])
  /\ UNCHANGED <<today, table, card, dialogue, changes>>

(* report_custom_start, report_custom_end and the cancel button.           *)
TypeStart(d) ==
  /\ dialogue.waits = "start" /\ Tap
  /\ dialogue' = [waits |-> "end", start |-> d]
  /\ UNCHANGED <<today, table, card, reading, changes>>

TypeEnd(d) ==
  /\ ~Busy /\ Tap
  /\ dialogue.waits = "end"
  /\ dialogue.start <= d /\ d - dialogue.start <= MaxSpan
  /\ dialogue' = Quiet
  /\ Begin("overview", [DefaultFilters EXCEPT !.period = "custom",
                                              !.start = dialogue.start, !.end = d])
  /\ UNCHANGED <<today, table, card, changes>>

Cancel ==
  /\ dialogue # Quiet /\ Tap
  /\ dialogue' = Quiet
  /\ UNCHANGED <<today, table, card, reading, changes>>

-----------------------------------------------------------------------------
(* build_overview, build_breakdown, build_dynamics and export_csv, query   *)
(* by query.                                                               *)
Load(ids) ==
  [r \in Requests |->
     IF r \in ids /\ reading.loaded[r] = None THEN table[r] ELSE reading.loaded[r]]

ReadCreated ==
  LET ids == Found(reading.filters, Period(reading.filters, today), "created")
  IN /\ reading.phase = "created"
     /\ reading' = IF Overflows(reading.filters) THEN [reading EXCEPT !.phase = "failed"]
                   ELSE [reading EXCEPT !.created = ids, !.loaded = Load(ids),
                           !.phase = IF reading.screen \in {"overview", "dynamics"}
                                     THEN "closed" ELSE "escalated"]
     /\ UNCHANGED <<today, table, card, dialogue, changes, taps>>

ReadClosed ==
  LET ids == Found(reading.filters, Period(reading.filters, today), "closed")
  IN /\ reading.phase = "closed"
     /\ reading' = [reading EXCEPT !.closed = ids, !.loaded = Load(ids),
                                   !.phase = "escalated"]
     /\ UNCHANGED <<today, table, card, dialogue, changes, taps>>

(* The times from creation to closing cannot be told of a row that an      *)
(* earlier query loaded while it was open: the handler fails.              *)
TimedOfCreated == reading.created      \* faulty
Timed == reading.closed
Untimed == {r \in Timed : reading.loaded[r].closed = None}

(* build_breakdown sorts the groups by the names of the workers, which     *)
(* fails when NULL is one of two.                                          *)
Unsortable ==
  /\ reading.screen = "workers"
  /\ \E r, s \in reading.created : /\ reading.loaded[r].worker \in Unnamed
                                   /\ reading.loaded[s].worker \notin Unnamed

Show ==
  LET ids == IF reading.screen = "overview"
             THEN Found(reading.filters, Period(reading.filters, today), "escalated") ELSE {}
  IN /\ reading.phase = "escalated"
     /\ IF Untimed # {} \/ Unsortable
        THEN /\ reading' = [reading EXCEPT !.phase = "failed"]
             /\ UNCHANGED card
        ELSE /\ reading' = [reading EXCEPT !.escalated = ids, !.phase = "shown"]
             /\ card' = IF reading.screen = "csv" THEN card
                        ELSE Card(reading.screen, reading.filters)
     /\ UNCHANGED <<today, table, dialogue, changes, taps>>

-----------------------------------------------------------------------------
(* What others commit meanwhile, and midnight.                             *)
Change(r, row) ==
  /\ changes < MaxChanges
  /\ table' = [table EXCEPT ![r] = row]
  /\ reading' = [reading EXCEPT !.touched = @ \cup {r}]
  /\ changes' = changes + 1
  /\ UNCHANGED <<today, card, dialogue, taps>>

Create(r, u) ==
  /\ table[r] = None
  /\ Change(r, [urgency |-> u, worker |-> None, created |-> today,
                closed |-> None, escalated |-> None])
Open(r) == table[r] # None /\ table[r].closed = None
Assign(r, w) == Open(r) /\ table[r].worker # w /\ Change(r, [table[r] EXCEPT !.worker = w])
Escalate(r) ==
  /\ Open(r) /\ table[r].worker = None /\ table[r].escalated = None
  /\ Change(r, [table[r] EXCEPT !.escalated = today])
Close(r) == Open(r) /\ Change(r, [table[r] EXCEPT !.closed = today])
Delete(r) == table[r] # None /\ Change(r, None)

Midnight ==
  /\ today < LastDay
  /\ today' = today + 1
  /\ UNCHANGED <<table, card, dialogue, reading, changes, taps>>

Next ==
  \/ Summary \/ TapFilters \/ TapReset \/ Cancel
  \/ ReadCreated \/ ReadClosed \/ Show \/ Midnight
  \/ \E p \in Periods \ {"yesterday"} : TapPeriod(p)
  \/ \E screen \in Screens : TapSection(screen)
  \/ \E u \in Offered : ChooseUrgency(u)
  \/ \E w \in Workers \cup {None} : ChooseWorker(w)
  \/ \E d \in Dates : TypeStart(d) \/ TypeEnd(d)
  \/ \E r \in Requests : \/ Escalate(r) \/ Close(r) \/ Delete(r)
                         \/ \E u \in Urgencies : Create(r, u)
                         \/ \E w \in Workers : Assign(r, w)

Spec == Init /\ [][Next]_vars

-----------------------------------------------------------------------------
(* Properties.                                                             *)

(* Every variable has its type: a report over dates a dispatcher typed has *)
(* its days in order and spans no more than MaxSpan.                       *)
TypeOK ==
  /\ today \in Dates /\ table \in [Requests -> Rows \cup {None}]
  /\ dialogue.waits \in {"no", "start", "end"}
  /\ dialogue.waits = "end" => dialogue.start \in Dates
  /\ DOMAIN reading = DOMAIN Blank("overview", DefaultFilters)
  /\ reading.phase \in Phases /\ reading.screen \in Screens
  /\ IsFilters(reading.filters)
  /\ reading.loaded \in [Requests -> Rows \cup {None}]
  /\ card # None => /\ card.screen \in Screens \cup {"filters"}
                    /\ IsFilters(card.filters)
                    /\ card.buttons = Encode(card.filters)
  /\ changes \in 0..MaxChanges /\ taps \in 0..MaxTaps

(* The days the name of a period stands for, both ends included            *)
(* (tests/test_reports.py:31).                                             *)
NamedDay(f, t, d) ==
  CASE f.period = "today"      -> d = t
    [] f.period = "yesterday"  -> d = t - 1
    [] f.period = "30d"        -> d <= t /\ t - d < ThirtyDays
    [] f.period = "month"      -> d <= t /\ d \div Month = t \div Month
    [] f.period = "prev_month" -> d \div Month = (t \div Month) - 1
    [] Fixed(f)                -> f.start <= d /\ d <= f.end
    [] OTHER                   -> d <= t /\ t - d < Week

(* A report that is shown counts every request nobody changed while it was *)
(* read just when its date is a day of the period that was asked for and   *)
(* it passes the filters, in each of its queries, unless midnight moved    *)
(* the period; a line of the dynamics never mixes two days, or two months  *)
(* (build_overview, build_dynamics).                                       *)
ReportAddsUp ==
  LET f == reading.filters
      t == reading.began
      period == Period(f, t)
      Counts(ids, date) ==
        \A r \in Requests \ reading.touched :
          r \in ids <=> /\ table[r] # None /\ Selected(f, table[r])
                       /\ table[r][date] # None
                       /\ NamedDay(f, t, table[r][date])
  IN (reading.phase = "shown" /\ (today = t \/ Fixed(f))) =>
       /\ Counts(reading.created, "created")
       /\ reading.screen \in {"overview", "dynamics"} =>
            Counts(reading.closed, "closed")
       /\ reading.screen = "overview" =>
            Counts(reading.escalated, "escalated")
       /\ \A d, e \in period.from..(period.to - 1) :
            Line(period, d) = Line(period, e) =>
              d = e \/ (period.to - period.from > BucketDays
                         /\ d \div Month = e \div Month)

(* "Filters are kept when moving between the sections" (reports.py:274):   *)
(* a tap opens the screen with the filters the message names but for the   *)
(* one it changes, although they travel as short codes on the buttons.     *)
FiltersKept ==
  [][/\ \A screen \in Screens :
          TapSection(screen) => reading'.filters = card.filters
     /\ \A p \in Periods \ {"custom"} :
          TapPeriod(p) => reading'.filters = [card.filters EXCEPT !.period = p]
     /\ TapFilters => card'.filters = card.filters
     /\ \A u \in Offered :
          ChooseUrgency(u) => card'.filters = [card.filters EXCEPT !.urgency = u]
     /\ \A w \in Workers \cup {None} :
          ChooseWorker(w) => card'.filters = [card.filters EXCEPT !.worker = w]]_vars

(* A report fails for one of three reasons: a request it had counted among *)
(* the new ones was closed between two of its queries (reports.py:203-223, *)
(* 323-334); a date that was typed for it is the first or the last there   *)
(* is (reports.py:77-84); or, by workers, it holds a request of a worker   *)
(* without a name and one of somebody else or of nobody (reports.py:302-   *)
(* 312; add_worker_finish, dispatcher.py:1453, knows no name).             *)
FailsForThreeReasons ==
  reading.phase = "failed" =>
    \/ \E r \in reading.created \cap reading.closed \cap reading.touched :
         reading.loaded[r].closed = None
    \/ {reading.filters.start, reading.filters.end} \cap Extreme # {}
    \/ /\ reading.screen = "workers"
       /\ \E r, s \in reading.created : /\ reading.loaded[r].worker \in Unnamed
                                        /\ reading.loaded[s].worker \notin Unnamed

=============================================================================
