----------------------------- MODULE ReportsProofs -----------------------------
(***************************************************************************)
(* Theorems about Reports for every set of requests and workers, all dates,*)
(* and any changes between the queries of a report.                        *)
(***************************************************************************)
EXTENDS Reports, TLAPS

-----------------------------------------------------------------------------
(* The codes on the buttons.                                               *)

Choices == [period : Periods, urgency : DOMAIN UrgencyCode,
            worker : Workers \cup {None},
            start : Dates \cup {None}, end : Dates \cup {None}]

(* No two periods have the same code, and no two urgencies.                *)
LEMMA PeriodCodes ==
  /\ DOMAIN PeriodCode = Periods
  /\ \A p, q \in Periods : PeriodCode[p] = PeriodCode[q] => p = q
BY DEF PeriodCode, Periods

LEMMA UrgencyCodes ==
  /\ DOMAIN UrgencyCode = {"all", "high", "normal", "low", "none"}
  /\ \A p, q \in DOMAIN UrgencyCode : UrgencyCode[p] = UrgencyCode[q] => p = q
BY DEF UrgencyCode

LEMMA KeyFacts ==
  ASSUME NEW codes, \A p, q \in DOMAIN codes : codes[p] = codes[q] => p = q,
         NEW key \in DOMAIN codes
  PROVE  KeyOf(codes, codes[key]) = key
BY DEF KeyOf

(* What travels on a button comes back.                                    *)
LEMMA RoundTrip ==
  ASSUME NEW f \in Choices
  PROVE  /\ Decode(Encode(f)) = f
         /\ \A p \in Periods :
              Decode([Encode(f) EXCEPT !.period = PeriodCode[p]]) = [f EXCEPT !.period = p]
<1>1. \A p \in Periods : KeyOf(PeriodCode, PeriodCode[p]) = p
  BY PeriodCodes, KeyFacts
<1>2. KeyOf(UrgencyCode, UrgencyCode[f.urgency]) = f.urgency
  BY UrgencyCodes, KeyFacts DEF Choices
<1> DEFINE b == Encode(f)
<1>3. b = [f EXCEPT !.period = PeriodCode[f.period], !.urgency = UrgencyCode[f.urgency]]
  BY DEF Encode
<1>4. Decode(b) = f
  BY <1>1, <1>2, <1>3 DEF Decode, Choices
<1>5. ASSUME NEW p \in Periods
      PROVE  Decode([b EXCEPT !.period = PeriodCode[p]]) = [f EXCEPT !.period = p]
  BY <1>1, <1>2, <1>3, <1>5 DEF Decode, Choices
<1>6. QED BY <1>4, <1>5

-----------------------------------------------------------------------------
(* Filters.                                                                *)

Good == {f \in Filters : IsFilters(f)}

LEMMA GoodChoices == Good \subseteq Choices
BY ReportsAssumption DEF Good, Filters, Choices

LEMMA DefaultGood == DefaultFilters \in Good
BY ReportsAssumption DEF DefaultFilters, Good, Filters, IsFilters, Periods

(* One filter is changed.                                                  *)
LEMMA ChangeGood ==
  ASSUME NEW f \in Good
  PROVE  /\ \A p \in Periods : [f EXCEPT !.period = p] \in Good
         /\ \A u \in Offered : [f EXCEPT !.urgency = u] \in Good
         /\ \A w \in Workers \cup {None} : [f EXCEPT !.worker = w] \in Good
BY DEF Good, Filters, IsFilters

(* The dates of a custom period, typed one after the other.                *)
LEMMA CustomGood ==
  ASSUME NEW s \in Dates, NEW d \in Dates, s <= d, d - s <= MaxSpan
  PROVE  [DefaultFilters EXCEPT !.period = "custom", !.start = s, !.end = d] \in Good
<1>1. PICK f : f = [DefaultFilters EXCEPT !.period = "custom", !.start = s, !.end = d]
  OBVIOUS
<1>2. DefaultFilters \in Filters
  BY DefaultGood DEF Good
<1>3. f \in Filters /\ f.start = s /\ f.end = d
  BY <1>1, <1>2 DEF Filters, Periods
<1>4. s # None /\ d # None
  BY ReportsAssumption
<1>5. IsFilters(f)
  BY <1>3, <1>4 DEF IsFilters
<1>6. QED BY <1>1, <1>3, <1>5 DEF Good

(* A screen and its buttons.                                               *)
GoodCard(c) == c # None => /\ c.screen \in Screens \cup {"filters"}
                           /\ c.filters \in Good
                           /\ c.buttons = Encode(c.filters)

LEMMA CardGood ==
  ASSUME NEW screen \in Screens \cup {"filters"}, NEW f \in Good
  PROVE  GoodCard(Card(screen, f))
BY DEF GoodCard, Card

-----------------------------------------------------------------------------
(* The inductive invariant.                                                *)

Reading == [phase : Phases, screen : Screens, filters : Good, began : Dates,
            loaded : [Requests -> Rows \cup {None}],
            created : SUBSET Requests, closed : SUBSET Requests,
            escalated : SUBSET Requests, touched : SUBSET Requests]

(* What the first query loaded is as it was unless somebody changed it; a  *)
(* closed request that looks open was loaded by the first query and then   *)
(* changed.                                                                *)
Consistent(rd, rows) ==
  /\ rd.phase = "created" => \A r \in Requests : rd.loaded[r] = None
  /\ rd.phase \in {"created", "closed"} => rd.closed = {}
  /\ rd.phase = "closed" =>
       \A r \in Requests :
         \/ rd.loaded[r] = None
         \/ r \in rd.created /\ (r \in rd.touched \/ rd.loaded[r] = rows[r])
  /\ \A r \in rd.closed : \/ rd.loaded[r].closed # None
                          \/ r \in rd.created /\ r \in rd.touched

DayInv == today \in Dates
TableInv == table \in [Requests -> Rows \cup {None}]
CardInv == GoodCard(card)
DialogueInv == /\ dialogue.waits \in {"no", "start", "end"}
               /\ dialogue.waits = "end" => dialogue.start \in Dates
ReadingInv == reading \in Reading /\ Consistent(reading, table)
CountInv == changes \in 0..MaxChanges /\ taps \in 0..MaxTaps

Inv == DayInv /\ TableInv /\ CardInv /\ DialogueInv /\ ReadingInv /\ CountInv

(* A report begins with nothing loaded.                                    *)
LEMMA BlankFacts ==
  ASSUME NEW screen \in Screens, NEW f \in Good, NEW phase \in {"no", "created"}, DayInv
  PROVE  /\ [Blank(screen, f) EXCEPT !.phase = phase] \in Reading
         /\ \A rows : Consistent([Blank(screen, f) EXCEPT !.phase = phase], rows)
BY DEF Blank, Reading, Phases, Consistent, DayInv

LEMMA InvInit == Init => Inv
<1> SUFFICES ASSUME Init PROVE Inv
  OBVIOUS
<1>1. DayInv
  BY ReportsAssumption DEF Init, DayInv, Dates
<1>2. TableInv /\ CountInv
  BY ReportsAssumption DEF Init, TableInv, CountInv
<1>3. ReadingInv
  <2>1. [Blank("overview", DefaultFilters) EXCEPT !.phase = "no"]
          = Blank("overview", DefaultFilters)
    BY DEF Blank
  <2>2. "overview" \in Screens
    BY DEF Screens
  <2>3. Blank("overview", DefaultFilters) \in Reading
        /\ Consistent(Blank("overview", DefaultFilters), table)
    BY <1>1, <2>1, <2>2, DefaultGood, BlankFacts
  <2>4. reading = Blank("overview", DefaultFilters)
    BY DEF Init
  <2>5. QED BY <2>3, <2>4 DEF ReadingInv
<1>4. CardInv /\ DialogueInv
  <2>1. ASSUME NEW screen \in {"overview", "workers", "filters"}, NEW f \in Filters,
               IsFilters(f), card = Card(screen, f), dialogue = Quiet
        PROVE  CardInv /\ DialogueInv
    <3>1. f \in Good /\ screen \in Screens \cup {"filters"}
      BY <2>1 DEF Good, Screens
    <3>2. CardInv
      BY <2>1, <3>1, CardGood DEF CardInv
    <3>3. QED BY <2>1, <3>2 DEF DialogueInv, Quiet
  <2>2. CASE card = None /\ dialogue \in {Quiet, [Quiet EXCEPT !.waits = "start"]}
                                        \cup [waits : {"end"}, start : Dates]
    BY <2>2 DEF CardInv, GoodCard, DialogueInv, Quiet
  <2>3. QED BY <2>1, <2>2 DEF Init
<1>5. QED BY <1>1, <1>2, <1>3, <1>4 DEF Inv

(* A step that begins a report.                                            *)
LEMMA BeginStep ==
  ASSUME Inv, NEW screen \in Screens, NEW f \in Good, Begin(screen, f), Tap,
         table' = table, today' = today, card' = card, changes' = changes,
         dialogue' = dialogue \/ dialogue' = Quiet
  PROVE  Inv'
<1>1. reading' \in Reading /\ Consistent(reading', table)
  BY BlankFacts DEF Begin, Inv
<1>2. CountInv'
  BY ReportsAssumption DEF Inv, CountInv, Tap
<1>3. DialogueInv'
  BY DEF Inv, DialogueInv, Quiet
<1>4. QED BY <1>1, <1>2, <1>3 DEF Inv, DayInv, TableInv, CardInv, ReadingInv

(* A step that only moves the screen or the dialogue.                      *)
LEMMA ScreenStep ==
  ASSUME Inv, Tap, table' = table, today' = today, reading' = reading,
         changes' = changes, CardInv', DialogueInv'
  PROVE  Inv'
<1>1. CountInv'
  BY ReportsAssumption DEF Inv, CountInv, Tap
<1>2. QED BY <1>1 DEF Inv, DayInv, TableInv, ReadingInv

(* The message on the screen names good filters, and its buttons carry     *)
(* them.                                                                   *)
LEMMA CardFacts ==
  ASSUME Inv, card # None
  PROVE  /\ card.filters \in Good
         /\ Decode(card.buttons) = card.filters
         /\ \A p \in Periods : Decode([card.buttons EXCEPT !.period = PeriodCode[p]])
                               = [card.filters EXCEPT !.period = p]
<1>1. card.filters \in Good /\ card.buttons = Encode(card.filters)
  BY DEF Inv, CardInv, GoodCard
<1>2. QED BY <1>1, GoodChoices, RoundTrip

-----------------------------------------------------------------------------
(* The dispatcher.                                                         *)

LEMMA TapStep ==
  ASSUME Inv,
         \/ Summary \/ TapFilters \/ TapReset
         \/ \E p \in Periods \ {"yesterday"} : TapPeriod(p)
         \/ \E screen \in Screens : TapSection(screen)
         \/ \E u \in Offered : ChooseUrgency(u)
         \/ \E w \in Workers \cup {None} : ChooseWorker(w)
  PROVE  Inv'
<1>1. "overview" \in Screens
  BY DEF Screens
<1>2. CASE Summary
  BY <1>1, <1>2, BeginStep, DefaultGood DEF Summary
<1>3. CASE TapFilters
  <2>1. card # None
    BY <1>3 DEF TapFilters, Shows
  <2>2. card' = Card("filters", card.filters) /\ card.filters \in Good
    BY <1>3, <2>1, CardFacts DEF TapFilters
  <2>3. CardInv'
    BY <2>2, CardGood DEF CardInv
  <2>4. QED BY <1>3, <2>3, ScreenStep DEF TapFilters, Inv, DialogueInv
<1>4. CASE TapReset
  <2>1. card # None
    BY <1>4 DEF TapReset, Shows
  <2>2. Decode(card.buttons).period \in Periods
    BY <2>1, CardFacts DEF Good, Filters
  <2>3. [DefaultFilters EXCEPT !.period = Decode(card.buttons).period] \in Good
    BY <2>2, DefaultGood, ChangeGood
  <2>4. QED BY <1>1, <1>4, <2>3, BeginStep DEF TapReset
<1>5. ASSUME NEW p \in Periods, TapPeriod(p)
      PROVE  Inv'
  <2>1. card # None
    BY <1>5 DEF TapPeriod, Shows
  <2>2. CASE p = "custom"
    <3>1. DialogueInv' /\ CardInv'
      BY <1>5, <2>2 DEF TapPeriod, Inv, DialogueInv, CardInv, Quiet
    <3>2. QED BY <1>5, <2>2, <3>1, ScreenStep DEF TapPeriod
  <2>3. CASE p # "custom"
    <3>1. Begin("overview", [card.filters EXCEPT !.period = p])
      BY <1>5, <2>1, <2>3, CardFacts DEF TapPeriod
    <3>2. [card.filters EXCEPT !.period = p] \in Good
      BY <2>1, CardFacts, ChangeGood
    <3>3. QED BY <1>1, <1>5, <2>3, <3>1, <3>2, BeginStep DEF TapPeriod
  <2>4. QED BY <2>2, <2>3
<1>6. ASSUME NEW screen \in Screens, TapSection(screen)
      PROVE  Inv'
  <2>1. card # None
    BY <1>6 DEF TapSection, Shows
  <2>2. Begin(screen, card.filters) /\ card.filters \in Good
    BY <1>6, <2>1, CardFacts DEF TapSection
  <2>3. QED BY <1>6, <2>2, BeginStep DEF TapSection
<1>7. ASSUME NEW f \in Good, Choose(f)
      PROVE  Inv'
  <2>1. card' = Card("filters", f)
    BY <1>7, GoodChoices, RoundTrip DEF Choose
  <2>2. CardInv'
    BY <2>1, CardGood DEF CardInv
  <2>3. QED BY <1>7, <2>2, ScreenStep DEF Choose, Inv, DialogueInv
<1>8. ASSUME NEW u \in Offered, ChooseUrgency(u)
      PROVE  Inv'
  <2>1. card # None
    BY <1>8 DEF ChooseUrgency, Choose, Shows
  <2>2. [Decode(card.buttons) EXCEPT !.urgency = u] \in Good
    BY <2>1, CardFacts, ChangeGood
  <2>3. QED BY <1>7, <1>8, <2>2 DEF ChooseUrgency
<1>9. ASSUME NEW w \in Workers \cup {None}, ChooseWorker(w)
      PROVE  Inv'
  <2>1. card # None
    BY <1>9 DEF ChooseWorker, Choose, Shows
  <2>2. [Decode(card.buttons) EXCEPT !.worker = w] \in Good
    BY <2>1, CardFacts, ChangeGood
  <2>3. QED BY <1>7, <1>9, <2>2 DEF ChooseWorker
<1>10. QED BY <1>2, <1>3, <1>4, <1>5, <1>6, <1>8, <1>9

LEMMA TypeDatesStep ==
  ASSUME Inv, Cancel \/ \E d \in Dates : TypeStart(d) \/ TypeEnd(d)
  PROVE  Inv'
<1>1. CASE Cancel
  <2>1. DialogueInv' /\ CardInv'
    BY <1>1 DEF Cancel, Inv, DialogueInv, CardInv, Quiet
  <2>2. QED BY <1>1, <2>1, ScreenStep DEF Cancel
<1>2. ASSUME NEW d \in Dates, TypeStart(d) PROVE Inv'
  <2>1. DialogueInv' /\ CardInv'
    BY <1>2 DEF TypeStart, Inv, DialogueInv, CardInv
  <2>2. QED BY <1>2, <2>1, ScreenStep DEF TypeStart
<1>3. ASSUME NEW d \in Dates, TypeEnd(d) PROVE Inv'
  <2>1. dialogue.start \in Dates
    BY <1>3 DEF TypeEnd, Inv, DialogueInv
  <2>2. [DefaultFilters EXCEPT !.period = "custom", !.start = dialogue.start,
                               !.end = d] \in Good
    BY <1>3, <2>1, CustomGood DEF TypeEnd
  <2>3. "overview" \in Screens
    BY DEF Screens
  <2>4. QED BY <1>3, <2>2, <2>3, BeginStep DEF TypeEnd
<1>4. QED BY <1>1, <1>2, <1>3

-----------------------------------------------------------------------------
(* The queries.                                                            *)

(* A query finds requests of the table that have the date it is about.     *)
LEMMA LoadFacts ==
  ASSUME Inv, NEW ids \in SUBSET Requests
  PROVE  /\ Load(ids) \in [Requests -> Rows \cup {None}]
         /\ \A r \in Requests :
              Load(ids)[r] = IF r \in ids /\ reading.loaded[r] = None
                             THEN table[r] ELSE reading.loaded[r]
<1>1. reading.loaded \in [Requests -> Rows \cup {None}] /\ TableInv
  BY DEF Inv, ReadingInv, Reading
<1>2. QED BY <1>1 DEF Load, TableInv

LEMMA ReadCreatedStep ==
  ASSUME Inv, ReadCreated
  PROVE  Inv'
<1>1. \/ reading' = [reading EXCEPT !.phase = "failed"]
      \/ \E ids \in SUBSET Requests, phase \in {"closed", "escalated"} :
           reading' = [reading EXCEPT !.created = ids, !.loaded = Load(ids),
                                      !.phase = phase]
  <2>1. \A f, period : Found(f, period, "created") \in SUBSET Requests
    BY DEF Found
  <2>2. QED BY <2>1 DEF ReadCreated
<1>2. /\ reading.phase = "created" /\ today' = today /\ table' = table
      /\ card' = card /\ dialogue' = dialogue /\ changes' = changes /\ taps' = taps
  BY DEF ReadCreated
<1>3. reading \in Reading /\ reading.closed = {}
      /\ \A r \in Requests : reading.loaded[r] = None
  BY <1>2 DEF Inv, ReadingInv, Consistent
<1>4. CASE reading' = [reading EXCEPT !.phase = "failed"]
  <2>1. /\ reading' \in Reading /\ reading'.phase = "failed"
        /\ reading'.closed = {}
    BY <1>3, <1>4 DEF Reading, Phases
  <2>2. Consistent(reading', table)
    BY <2>1 DEF Consistent
  <2>3. QED BY <1>2, <2>1, <2>2 DEF Inv, DayInv, TableInv, CardInv, DialogueInv,
            ReadingInv, CountInv
<1>5. ASSUME NEW ids \in SUBSET Requests, NEW phase \in {"closed", "escalated"},
             reading' = [reading EXCEPT !.created = ids, !.loaded = Load(ids),
                                        !.phase = phase]
      PROVE  Inv'
  <2>1. PICK loaded \in [Requests -> Rows \cup {None}] : loaded = Load(ids)
    BY LoadFacts
  <2>2. \A r \in Requests : loaded[r] = IF r \in ids THEN table[r] ELSE None
    BY <1>3, <2>1, LoadFacts
  <2> DEFINE rd == [reading EXCEPT !.created = ids, !.loaded = loaded, !.phase = phase]
  <2>3. /\ rd \in Reading /\ rd.created = ids /\ rd.loaded = loaded
        /\ rd.phase = phase /\ rd.closed = {} /\ rd.touched = reading.touched
    BY <1>3 DEF Reading, Phases
  <2>4. reading' = rd
    BY <1>5, <2>1
  <2> HIDE DEF rd
  <2>5. Consistent(rd, table)
    BY <2>2, <2>3 DEF Consistent
  <2>6. QED BY <1>2, <2>3, <2>4, <2>5 DEF Inv, DayInv, TableInv, CardInv,
            DialogueInv, ReadingInv, CountInv
<1>6. QED BY <1>1, <1>4, <1>5

LEMMA ReadClosedStep ==
  ASSUME Inv, ReadClosed
  PROVE  Inv'
<1>1. PICK ids \in SUBSET Requests :
        /\ reading' = [reading EXCEPT !.closed = ids, !.loaded = Load(ids),
                                      !.phase = "escalated"]
        /\ \A r \in ids : table[r].closed # None
  <2>1. \A f, period : /\ Found(f, period, "closed") \in SUBSET Requests
                      /\ \A r \in Found(f, period, "closed") :
                           table[r].closed # None
    BY DEF Found
  <2>2. QED BY <2>1 DEF ReadClosed
<1>2. /\ reading.phase = "closed" /\ today' = today /\ table' = table
      /\ card' = card /\ dialogue' = dialogue /\ changes' = changes /\ taps' = taps
  BY DEF ReadClosed
<1>3. /\ reading \in Reading
      /\ \A r \in Requests :
           \/ reading.loaded[r] = None
           \/ r \in reading.created /\ (r \in reading.touched \/ reading.loaded[r] = table[r])
  BY <1>2 DEF Inv, ReadingInv, Consistent
<1>4. PICK loaded \in [Requests -> Rows \cup {None}] : loaded = Load(ids)
  BY LoadFacts
<1>5. \A r \in ids : loaded[r] = IF reading.loaded[r] = None THEN table[r]
                                 ELSE reading.loaded[r]
  BY <1>4, LoadFacts
<1> DEFINE rd == [reading EXCEPT !.closed = ids, !.loaded = loaded,
                                 !.phase = "escalated"]
<1>6. /\ rd \in Reading /\ rd.closed = ids /\ rd.loaded = loaded
      /\ rd.phase = "escalated" /\ rd.created = reading.created
      /\ rd.touched = reading.touched
  BY <1>3 DEF Reading, Phases
<1>7. reading' = rd
  BY <1>1, <1>4
<1> HIDE DEF rd
<1>8. Consistent(rd, table)
  <2>1. \A r \in ids : \/ loaded[r].closed # None
                       \/ r \in reading.created /\ r \in reading.touched
    BY <1>1, <1>3, <1>5
  <2>2. QED BY <1>6, <2>1 DEF Consistent
<1>9. QED BY <1>2, <1>6, <1>7, <1>8 DEF Inv, DayInv, TableInv, CardInv,
          DialogueInv, ReadingInv, CountInv

LEMMA ShowStep ==
  ASSUME Inv, Show
  PROVE  Inv'
<1>1. reading \in Reading /\ Consistent(reading, table)
  BY DEF Inv, ReadingInv
<1>2. PICK ids \in SUBSET Requests, phase \in {"failed", "shown"} :
        \/ reading' = [reading EXCEPT !.phase = phase]
        \/ reading' = [reading EXCEPT !.escalated = ids, !.phase = phase]
  <2>1. \A f, period : Found(f, period, "escalated") \in SUBSET Requests
    BY DEF Found
  <2>2. QED BY <2>1 DEF Show
<1>3. /\ reading' \in Reading /\ reading'.phase = phase
      /\ reading'.created = reading.created /\ reading'.closed = reading.closed
      /\ reading'.loaded = reading.loaded /\ reading'.touched = reading.touched
  BY <1>1, <1>2 DEF Reading, Phases
<1>4. Consistent(reading', table)
  BY <1>1, <1>3 DEF Consistent
<1>5. CardInv'
  <2>1. Card(reading.screen, reading.filters) = Card(reading.screen, reading.filters)
        /\ GoodCard(Card(reading.screen, reading.filters))
    BY <1>1, CardGood DEF Reading
  <2>2. QED BY <2>1 DEF Show, CardInv, Inv
<1>6. QED BY <1>3, <1>4, <1>5 DEF Show, Inv, DayInv, TableInv, DialogueInv,
          ReadingInv, CountInv

-----------------------------------------------------------------------------
(* What others commit meanwhile.                                           *)

LEMMA ChangeStep ==
  ASSUME Inv, NEW r \in Requests, NEW row \in Rows \cup {None}, Change(r, row)
  PROVE  Inv'
<1>1. /\ table' = [table EXCEPT ![r] = row]
      /\ reading' = [reading EXCEPT !.touched = @ \cup {r}]
      /\ changes < MaxChanges /\ changes' = changes + 1
      /\ today' = today /\ card' = card /\ dialogue' = dialogue /\ taps' = taps
  BY DEF Change
<1>2. reading \in Reading /\ Consistent(reading, table)
  BY DEF Inv, ReadingInv
<1>3. /\ reading' \in Reading /\ reading'.phase = reading.phase
      /\ reading'.created = reading.created /\ reading'.closed = reading.closed
      /\ reading'.loaded = reading.loaded
      /\ reading'.touched = reading.touched \cup {r}
  BY <1>1, <1>2 DEF Reading
<1>4. table' \in [Requests -> Rows \cup {None}]
      /\ \A q \in Requests : q # r => table'[q] = table[q]
  BY <1>1 DEF Inv, TableInv
<1>5. Consistent(reading', table')
  BY <1>2, <1>3, <1>4 DEF Consistent
<1>6. CountInv'
  BY <1>1, ReportsAssumption DEF Inv, CountInv
<1>7. QED BY <1>1, <1>3, <1>4, <1>5, <1>6 DEF Inv, DayInv, TableInv, CardInv,
          DialogueInv, ReadingInv

LEMMA OthersStep ==
  ASSUME Inv, NEW r \in Requests,
         \/ Escalate(r) \/ Close(r) \/ Delete(r)
         \/ \E u \in Urgencies : Create(r, u)
         \/ \E w \in Workers : Assign(r, w)
  PROVE  Inv'
<1>1. today \in Dates /\ (Open(r) => table[r] \in Rows)
  BY DEF Inv, DayInv, TableInv, Open
<1>2. PICK row \in Rows \cup {None} : Change(r, row)
  <2>1. CASE Escalate(r)
    <3>1. [table[r] EXCEPT !.escalated = today] \in Rows
      BY <1>1, <2>1 DEF Escalate, Rows
    <3>2. QED BY <2>1, <3>1 DEF Escalate
  <2>2. CASE Close(r)
    <3>1. [table[r] EXCEPT !.closed = today] \in Rows
      BY <1>1, <2>2 DEF Close, Rows
    <3>2. QED BY <2>2, <3>1 DEF Close
  <2>3. CASE Delete(r)
    BY <2>3 DEF Delete
  <2>4. ASSUME NEW u \in Urgencies, Create(r, u)
        PROVE  \E row \in Rows \cup {None} : Change(r, row)
    <3>1. [urgency |-> u, worker |-> None, created |-> today, closed |-> None,
           escalated |-> None] \in Rows
      BY <1>1 DEF Rows
    <3>2. QED BY <2>4, <3>1 DEF Create
  <2>5. ASSUME NEW w \in Workers, Assign(r, w)
        PROVE  \E row \in Rows \cup {None} : Change(r, row)
    <3>1. [table[r] EXCEPT !.worker = w] \in Rows
      BY <1>1, <2>5 DEF Assign, Rows
    <3>2. QED BY <2>5, <3>1 DEF Assign
  <2>6. QED BY <2>1, <2>2, <2>3, <2>4, <2>5
<1>3. QED BY <1>2, ChangeStep

LEMMA MidnightStep ==
  ASSUME Inv, Midnight
  PROVE  Inv'
<1>1. DayInv'
  BY ReportsAssumption DEF Midnight, Inv, DayInv, Dates
<1>2. QED BY <1>1 DEF Midnight, Inv, TableInv, CardInv, DialogueInv, ReadingInv,
          CountInv

LEMMA InvStep == Inv /\ [Next]_vars => Inv'
<1> SUFFICES ASSUME Inv, [Next]_vars PROVE Inv'
  OBVIOUS
<1>1. CASE UNCHANGED vars
  BY <1>1 DEF vars, Inv, DayInv, TableInv, CardInv, DialogueInv, ReadingInv, CountInv
<1>2. CASE \/ Summary \/ TapFilters \/ TapReset
           \/ \E p \in Periods \ {"yesterday"} : TapPeriod(p)
           \/ \E screen \in Screens : TapSection(screen)
           \/ \E u \in Offered : ChooseUrgency(u)
           \/ \E w \in Workers \cup {None} : ChooseWorker(w)
  BY <1>2, TapStep
<1>3. CASE Cancel \/ \E d \in Dates : TypeStart(d) \/ TypeEnd(d)
  BY <1>3, TypeDatesStep
<1>4. CASE ReadCreated \/ ReadClosed \/ Show \/ Midnight
  BY <1>4, ReadCreatedStep, ReadClosedStep, ShowStep, MidnightStep
<1>5. CASE \E r \in Requests : \/ Escalate(r) \/ Close(r) \/ Delete(r)
                               \/ \E u \in Urgencies : Create(r, u)
                               \/ \E w \in Workers : Assign(r, w)
  BY <1>5, OthersStep
<1>6. QED BY <1>1, <1>2, <1>3, <1>4, <1>5 DEF Next

-----------------------------------------------------------------------------
(* The theorems.                                                           *)

(* Every variable has its type; the dates of a custom period are in order  *)
(* and span no more than MaxSpan.                                          *)
THEOREM TypeCorrect == Spec => []TypeOK
<1>1. Inv => TypeOK
  <2> SUFFICES ASSUME Inv PROVE TypeOK
    OBVIOUS
  <2>1. reading \in Reading
    BY DEF Inv, ReadingInv
  <2>2. /\ DOMAIN reading = DOMAIN Blank("overview", DefaultFilters)
        /\ reading.phase \in Phases /\ reading.screen \in Screens
        /\ reading.filters \in Good
        /\ reading.loaded \in [Requests -> Rows \cup {None}]
    BY <2>1 DEF Reading, Blank
  <2>3. \A f \in Good : IsFilters(f)
    BY DEF Good
  <2>4. QED BY <2>2, <2>3 DEF TypeOK, Inv, DayInv, TableInv, CardInv, GoodCard,
            DialogueInv, CountInv
<1>2. QED BY InvInit, InvStep, <1>1, PTL DEF Spec

(* A tap opens the screen with the filters the message names but for the   *)
(* one it changes: the codes on the buttons lose nothing.                  *)
THEOREM FiltersCorrect == Spec => FiltersKept
<1> DEFINE Kept ==
      /\ \A screen \in Screens :
           TapSection(screen) => reading'.filters = card.filters
      /\ \A p \in Periods \ {"custom"} :
           TapPeriod(p) => reading'.filters = [card.filters EXCEPT !.period = p]
      /\ TapFilters => card'.filters = card.filters
      /\ \A u \in Offered :
           ChooseUrgency(u) => card'.filters = [card.filters EXCEPT !.urgency = u]
      /\ \A w \in Workers \cup {None} :
           ChooseWorker(w) => card'.filters = [card.filters EXCEPT !.worker = w]
<1>1. Inv => Kept
  <2> SUFFICES ASSUME Inv PROVE Kept
    OBVIOUS
  <2>1. \A screen, f : Begin(screen, f) => reading'.filters = f
    BY DEF Begin, Blank
  <2>2. \A screen, f : Card(screen, f).filters = f
    BY DEF Card
  <2>3. ASSUME NEW screen \in Screens, TapSection(screen)
        PROVE  reading'.filters = card.filters
    BY <2>1, <2>3, CardFacts DEF TapSection, Shows
  <2>4. ASSUME NEW p \in Periods, p # "custom", TapPeriod(p)
        PROVE  reading'.filters = [card.filters EXCEPT !.period = p]
    BY <2>1, <2>4, CardFacts DEF TapPeriod, Shows
  <2>5. TapFilters => card'.filters = card.filters
    BY <2>2, CardFacts DEF TapFilters, Shows
  <2>6. ASSUME NEW f \in Good, Choose(f)
        PROVE  card'.filters = f
    BY <2>2, <2>6, GoodChoices, RoundTrip DEF Choose
  <2>7. ASSUME NEW u \in Offered, ChooseUrgency(u)
        PROVE  card'.filters = [card.filters EXCEPT !.urgency = u]
    <3>1. card # None
      BY <2>7 DEF ChooseUrgency, Choose, Shows
    <3>2. Decode(card.buttons) = card.filters
          /\ [card.filters EXCEPT !.urgency = u] \in Good
      BY <3>1, CardFacts, ChangeGood
    <3>3. QED BY <2>6, <2>7, <3>2 DEF ChooseUrgency
  <2>8. ASSUME NEW w \in Workers \cup {None}, ChooseWorker(w)
        PROVE  card'.filters = [card.filters EXCEPT !.worker = w]
    <3>1. card # None
      BY <2>8 DEF ChooseWorker, Choose, Shows
    <3>2. Decode(card.buttons) = card.filters
          /\ [card.filters EXCEPT !.worker = w] \in Good
      BY <3>1, CardFacts, ChangeGood
    <3>3. QED BY <2>6, <2>8, <3>2 DEF ChooseWorker
  <2>9. QED BY <2>3, <2>4, <2>5, <2>7, <2>8
<1>2. QED BY InvInit, InvStep, <1>1, PTL DEF Spec, FiltersKept

(* A report has failed on a time that cannot be told, on a date or on      *)
(* names that cannot be sorted.                                            *)
FailedInv == reading.phase = "failed" =>
               Untimed # {} \/ Overflows(reading.filters) \/ Unsortable

(* A report fails only if a request it had counted among the new ones was  *)
(* closed between two of its queries, if a date typed for it is the first  *)
(* or the last there is, or if it would sort the name of a worker who has  *)
(* none.                                                                   *)
THEOREM FailureCorrect == Spec => []FailsForThreeReasons
<1>1. Init => FailedInv
  BY DEF Init, FailedInv, Blank
<1>2. Inv /\ FailedInv /\ [Next]_vars => FailedInv'
  <2> SUFFICES ASSUME Inv, FailedInv, [Next]_vars PROVE FailedInv'
    OBVIOUS
  <2>1. reading \in Reading
    BY DEF Inv, ReadingInv
  <2> DEFINE Why == Untimed # {} \/ Overflows(reading.filters) \/ Unsortable
  <2>2. CASE reading' = reading
    <3>1. Why' <=> Why
      BY <2>2 DEF Untimed, Timed, Overflows, Fixed, Unsortable
    <3>2. QED BY <2>2, <3>1 DEF FailedInv
  <2>3. ASSUME NEW screen, NEW f, Begin(screen, f) PROVE FailedInv'
    BY <2>3 DEF Begin, Blank, FailedInv
  <2>4. CASE ReadCreated
    <3>1. CASE Overflows(reading.filters)
      <4>1. reading' = [reading EXCEPT !.phase = "failed"]
        BY <2>4, <3>1 DEF ReadCreated
      <4>2. reading'.filters = reading.filters
        BY <2>1, <4>1 DEF Reading
      <4>3. QED BY <3>1, <4>2 DEF FailedInv, Overflows, Fixed
    <3>2. CASE ~Overflows(reading.filters)
      BY <2>1, <2>4, <3>2 DEF ReadCreated, Reading, FailedInv
    <3>3. QED BY <3>1, <3>2
  <2>5. CASE ReadClosed
    BY <2>1, <2>5 DEF ReadClosed, Reading, FailedInv
  <2>6. CASE Show
    <3>1. CASE Untimed # {} \/ Unsortable
      <4>1. reading' = [reading EXCEPT !.phase = "failed"]
        BY <2>6, <3>1 DEF Show
      <4>2. /\ reading'.closed = reading.closed /\ reading'.loaded = reading.loaded
            /\ reading'.created = reading.created /\ reading'.screen = reading.screen
        BY <2>1, <4>1 DEF Reading
      <4>3. (Untimed # {} \/ Unsortable)'
        BY <3>1, <4>2 DEF Untimed, Timed, Unsortable
      <4>4. QED BY <4>3 DEF FailedInv
    <3>2. CASE ~(Untimed # {} \/ Unsortable)
      BY <2>1, <2>6, <3>2 DEF Show, Reading, FailedInv
    <3>3. QED BY <3>1, <3>2
  <2>7. ASSUME NEW r, NEW row, Change(r, row) PROVE FailedInv'
    <3>1. reading' = [reading EXCEPT !.touched = @ \cup {r}]
      BY <2>7 DEF Change
    <3>2. /\ reading'.closed = reading.closed /\ reading'.loaded = reading.loaded
          /\ reading'.created = reading.created /\ reading'.screen = reading.screen
          /\ reading'.phase = reading.phase /\ reading'.filters = reading.filters
      BY <2>1, <3>1 DEF Reading
    <3>3. Why' <=> Why
      BY <3>2 DEF Untimed, Timed, Overflows, Fixed, Unsortable
    <3>4. QED BY <3>2, <3>3 DEF FailedInv
  <2>8. CASE UNCHANGED vars
    BY <2>2, <2>8 DEF vars
  <2>9. CASE \/ Summary \/ TapFilters \/ TapReset \/ Cancel \/ Midnight
             \/ \E p \in Periods \ {"yesterday"} : TapPeriod(p)
             \/ \E screen \in Screens : TapSection(screen)
             \/ \E u \in Offered : ChooseUrgency(u)
             \/ \E w \in Workers \cup {None} : ChooseWorker(w)
             \/ \E d \in Dates : TypeStart(d) \/ TypeEnd(d)
    BY <2>2, <2>3, <2>9 DEF Summary, TapFilters, TapReset, Cancel, Midnight,
       TapPeriod, TapSection, ChooseUrgency, ChooseWorker, Choose, TypeStart, TypeEnd
  <2>10. CASE \E r \in Requests : \/ Escalate(r) \/ Close(r) \/ Delete(r)
                                  \/ \E u \in Urgencies : Create(r, u)
                                  \/ \E w \in Workers : Assign(r, w)
    BY <2>7, <2>10 DEF Escalate, Close, Delete, Create, Assign
  <2>11. QED BY <2>4, <2>5, <2>6, <2>8, <2>9, <2>10 DEF Next
<1>3. Inv /\ FailedInv => FailsForThreeReasons
  <2> SUFFICES ASSUME Inv, reading.phase = "failed",
                      Untimed # {} \/ Overflows(reading.filters) \/ Unsortable
               PROVE  FailsForThreeReasons
    BY DEF FailedInv, FailsForThreeReasons
  <2>1. CASE Untimed # {}
    <3>1. PICK r \in reading.closed : reading.loaded[r].closed = None
      BY <2>1 DEF Untimed, Timed
    <3>2. r \in reading.created /\ r \in reading.touched
      BY <3>1 DEF Inv, ReadingInv, Consistent
    <3>3. QED BY <3>1, <3>2 DEF FailsForThreeReasons
  <2>2. CASE Overflows(reading.filters) \/ Unsortable
    BY <2>2 DEF FailsForThreeReasons, Overflows, Unsortable
  <2>3. QED BY <2>1, <2>2
<1>4. QED BY InvInit, InvStep, <1>1, <1>2, <1>3, PTL DEF Spec

-----------------------------------------------------------------------------
(* The calendar: months of any length.                                     *)

(* Quotient and rest.                                                      *)
LEMMA Division ==
  ASSUME NEW d \in Int, NEW m \in Nat \ {0}
  PROVE  /\ d \div m \in Int /\ d % m \in Int /\ d = m * (d \div m) + (d % m)
         /\ 0 <= d % m /\ d % m < m
OBVIOUS

(* Two different multiples are at least m apart.                           *)
LEMMA Multiples ==
  ASSUME NEW m \in Nat \ {0}, NEW a \in Int, NEW b \in Int, a < b
  PROVE  m * a + m <= m * b
<1>1. PICK c \in Nat : b = a + 1 + c
  <2>1. b - a - 1 \in Nat /\ b = a + 1 + (b - a - 1)
    OBVIOUS
  <2>2. QED BY <2>1
<1>2. m * b = m * a + m + m * c
  BY <1>1
<1>3. m * c >= 0
  OBVIOUS
<1>4. QED BY <1>2, <1>3

(* A date is in month k or a later one from the first day of month k on.   *)
LEMMA QuotientAtLeast ==
  ASSUME NEW d \in Int, NEW m \in Nat \ {0}, NEW k \in Int
  PROVE  m * k <= d <=> k <= d \div m
<1> DEFINE q == d \div m
<1>1. q \in Int /\ m * q \in Int /\ m * k \in Int /\ m * q <= d /\ d < m * q + m
  BY Division
<1> HIDE DEF q
<1>2. CASE k < q
  BY <1>1, <1>2, Multiples DEF q
<1>3. CASE k = q
  BY <1>1, <1>3 DEF q
<1>4. CASE q < k
  <2>1. m * q + m <= m * k
    BY <1>1, <1>4, Multiples
  <2>2. QED BY <1>1, <1>4, <2>1 DEF q
<1>5. QED BY <1>1, <1>2, <1>3, <1>4

(* Two dates with the same rest that are less than m apart are one.        *)
LEMMA SameRest ==
  ASSUME NEW d \in Int, NEW e \in Int, NEW m \in Nat \ {0},
         d % m = e % m, d - e < m, e - d < m
  PROVE  d = e
<1> DEFINE a == d \div m
           b == e \div m
           r == d % m
<1>1. /\ a \in Int /\ b \in Int /\ r \in Int
      /\ d = m * a + r /\ e = m * b + r
  BY Division
<1>2. m * a \in Int /\ m * b \in Int
  BY <1>1
<1> HIDE DEF a, b, r
<1>3. CASE a < b
  <2>1. m * a + m <= m * b
    BY <1>1, <1>3, Multiples
  <2>2. QED BY <1>1, <1>2, <2>1
<1>4. CASE b < a
  <2>1. m * b + m <= m * a
    BY <1>1, <1>4, Multiples
  <2>2. QED BY <1>1, <1>2, <2>1
<1>5. CASE a = b
  BY <1>1, <1>5
<1>6. QED BY <1>1, <1>3, <1>4, <1>5

(* The first day of a month is the month's number of months from the start.*)
LEMMA MonthStartFacts ==
  ASSUME NEW d \in Int
  PROVE  /\ MonthStart(d) \in Int /\ d \div Month \in Int
         /\ MonthStart(d) = Month * (d \div Month)
         /\ \A e \in Int : MonthStart(d) <= e <=> d \div Month <= e \div Month
<1>1. Month \in Nat \ {0}
  BY ReportsAssumption
<1> DEFINE q == d \div Month
           r == d % Month
<1>2. q \in Int /\ r \in Int /\ d = Month * q + r
  BY <1>1, Division
<1> HIDE DEF q, r
<1>3. Month * q \in Int
  BY <1>1, <1>2
<1>4. MonthStart(d) = Month * q
  BY <1>2, <1>3 DEF MonthStart, r
<1>5. \A e \in Int : Month * q <= e <=> q <= e \div Month
  BY <1>1, <1>2, QuotientAtLeast
<1>6. QED BY <1>2, <1>3, <1>4, <1>5 DEF q

(* The previous month is the one before.                                   *)
LEMMA PreviousMonth ==
  ASSUME NEW t \in Int
  PROVE  (MonthStart(t) - 1) \div Month = (t \div Month) - 1
<1>1. Month \in Nat \ {0}
  BY ReportsAssumption
<1> DEFINE q == t \div Month
           s == MonthStart(t)
           p == (s - 1) \div Month
<1>2. q \in Int /\ s \in Int /\ s = Month * q
  BY MonthStartFacts
<1> HIDE DEF q, s
<1>3. p \in Int
  BY <1>1, <1>2, Division
<1>4. ~(q <= p)
  <2>1. Month * q <= s - 1 <=> q <= p
    BY <1>1, <1>2, QuotientAtLeast
  <2>2. QED BY <1>2, <2>1
<1>5. q - 1 <= p
  <2>1. Month * (q - 1) <= s - 1 <=> q - 1 <= p
    BY <1>1, <1>2, QuotientAtLeast
  <2>2. Month * (q - 1) + Month <= Month * q
    BY <1>1, <1>2, Multiples
  <2>3. Month * (q - 1) \in Int
    BY <1>1, <1>2
  <2>4. QED BY <1>1, <1>2, <2>1, <2>2, <2>3
<1> HIDE DEF p
<1>6. p = q - 1
  BY <1>2, <1>3, <1>4, <1>5
<1>7. QED BY <1>6 DEF p, q, s

(* The days of a period are the days its name stands for.                  *)
LEMMA PeriodDays ==
  ASSUME NEW f \in Good, NEW t \in Dates
  PROVE  /\ Period(f, t).from \in Int /\ Period(f, t).to \in Int
         /\ \A d \in Dates :
              d \in Period(f, t).from..(Period(f, t).to - 1) <=> NamedDay(f, t, d)
<1>1. t \in Int /\ Dates \subseteq Int /\ Week \in Int /\ ThirtyDays \in Int
  BY ReportsAssumption DEF Dates
<1>2. f.period \in Periods
  BY DEF Good, Filters
<1>3. \A n \in Int : /\ LastDays(t, n).from = t - (n - 1)
                    /\ LastDays(t, n).to = t + 1
  BY DEF LastDays
<1>4. ASSUME NEW n \in Int
      PROVE  /\ LastDays(t, n).from \in Int /\ LastDays(t, n).to \in Int
             /\ \A d \in Dates :
                  d \in LastDays(t, n).from..(LastDays(t, n).to - 1)
                    <=> d <= t /\ t - d < n
  BY <1>1, <1>3
<1>5. CASE f.period = "today"
  <2>1. Period(f, t) = LastDays(t, 1)
    BY <1>5 DEF Period, Fixed
  <2>2. \A d \in Dates : NamedDay(f, t, d) <=> d = t
    BY <1>5 DEF NamedDay, Fixed
  <2>3. \A d \in Dates : d = t <=> d <= t /\ t - d < 1
    BY <1>1
  <2>4. QED BY <1>4, <2>1, <2>2, <2>3
<1>6. CASE f.period = "yesterday"
  <2>1. Period(f, t) = [from |-> t - 1, to |-> t]
    BY <1>6 DEF Period, Fixed
  <2>2. \A d \in Dates : NamedDay(f, t, d) <=> d = t - 1
    BY <1>6 DEF NamedDay, Fixed
  <2>3. QED BY <1>1, <2>1, <2>2
<1>7. CASE f.period = "30d"
  <2>1. Period(f, t) = LastDays(t, ThirtyDays)
    BY <1>7 DEF Period, Fixed
  <2>2. \A d \in Dates : NamedDay(f, t, d) <=> d <= t /\ t - d < ThirtyDays
    BY <1>7 DEF NamedDay, Fixed
  <2>3. QED BY <1>1, <1>4, <2>1, <2>2
<1>8. CASE f.period = "month"
  <2>1. Period(f, t) = [from |-> MonthStart(t), to |-> t + 1]
    BY <1>8 DEF Period, Fixed
  <2>2. \A d \in Dates : NamedDay(f, t, d) <=> d <= t /\ d \div Month = t \div Month
    BY <1>8 DEF NamedDay, Fixed
  <2>3. MonthStart(t) \in Int /\ t \div Month \in Int
        /\ \A e \in Int : MonthStart(t) <= e <=> t \div Month <= e \div Month
    BY <1>1, MonthStartFacts
  <2>4. ASSUME NEW d \in Dates
        PROVE  d \in MonthStart(t)..t <=> d <= t /\ d \div Month = t \div Month
    <3>1. /\ MonthStart(d) \in Int /\ d \div Month \in Int
          /\ MonthStart(d) <= t <=> d \div Month <= t \div Month
          /\ MonthStart(d) <= d
      BY <1>1, MonthStartFacts
    <3>2. d <= t => d \div Month <= t \div Month
      BY <1>1, <3>1
    <3>3. QED BY <1>1, <2>3, <3>1, <3>2
  <2>5. (t + 1) - 1 = t
    BY <1>1
  <2>6. QED BY <1>1, <2>1, <2>2, <2>3, <2>4, <2>5
<1>9. CASE f.period = "prev_month"
  <2> DEFINE s == MonthStart(t)
             q == t \div Month
             b == MonthStart(s - 1)
  <2>1. Period(f, t) = [from |-> b, to |-> s]
    BY <1>9 DEF Period, Fixed
  <2>2. \A d \in Dates : NamedDay(f, t, d) <=> d \div Month = q - 1
    BY <1>9 DEF NamedDay, Fixed
  <2>3. s \in Int /\ q \in Int /\ \A e \in Int : s <= e <=> q <= e \div Month
    BY <1>1, MonthStartFacts
  <2>4. b \in Int /\ \A e \in Int : b <= e <=> q - 1 <= e \div Month
    <3>1. (s - 1) \div Month = q - 1
      BY <1>1, PreviousMonth
    <3>2. s - 1 \in Int
      BY <2>3
    <3> HIDE DEF s, q
    <3>3. QED BY <3>1, <3>2, MonthStartFacts
  <2> HIDE DEF s, q, b
  <2>5. ASSUME NEW d \in Dates
        PROVE  d \in b..(s - 1) <=> d \div Month = q - 1
    <3>1. d \in Int /\ d \div Month \in Int
      BY <1>1, MonthStartFacts
    <3>2. (b <= d <=> q - 1 <= d \div Month) /\ (s <= d <=> q <= d \div Month)
      BY <2>3, <2>4, <3>1
    <3>3. QED BY <2>3, <2>4, <3>1, <3>2
  <2>6. QED BY <2>1, <2>2, <2>3, <2>4, <2>5
<1>10. CASE Fixed(f)
  <2>1. f.period = "custom" /\ f.start \in Dates /\ f.end \in Dates
    BY <1>10 DEF Fixed, Good, Filters, IsFilters
  <2>2. Period(f, t) = [from |-> f.start, to |-> f.end + 1]
    BY <1>10, <2>1 DEF Period
  <2>3. \A d \in Dates : NamedDay(f, t, d) <=> f.start <= d /\ d <= f.end
    BY <1>10, <2>1 DEF NamedDay
  <2>4. PICK first \in Int, last \in Int : first = f.start /\ last = f.end
    BY <1>1, <2>1
  <2>5. Period(f, t) = [from |-> first, to |-> last + 1]
    BY <2>2, <2>4
  <2>6. Period(f, t).from = first /\ Period(f, t).to = last + 1
    BY <2>5
  <2>7. \A d \in Dates : NamedDay(f, t, d) <=> first <= d /\ d <= last
    BY <2>3, <2>4
  <2>8. QED BY <1>1, <2>4, <2>6, <2>7
<1>11. CASE f.period = "7d" \/ (f.period = "custom" /\ ~Fixed(f))
  <2>1. Period(f, t) = LastDays(t, Week)
    BY <1>11 DEF Period, Fixed
  <2>2. \A d \in Dates : NamedDay(f, t, d) <=> d <= t /\ t - d < Week
    BY <1>11 DEF NamedDay, Fixed
  <2>3. QED BY <1>1, <1>4, <2>1, <2>2
<1>12. QED
  BY <1>2, <1>5, <1>6, <1>7, <1>8, <1>9, <1>10, <1>11 DEF Periods

(* A line of the dynamics is one day of the period, or part of one month.  *)
LEMMA LineFacts ==
  ASSUME NEW from \in Int, NEW to \in Int, NEW period, period.from = from, period.to = to,
         NEW d \in from..(to - 1), NEW e \in from..(to - 1),
         Line(period, d) = Line(period, e)
  PROVE  d = e \/ (period.to - period.from > BucketDays
                     /\ d \div Month = e \div Month)
<1>1. /\ d \in Int /\ e \in Int /\ d - e < to - from /\ e - d < to - from
      /\ period.from = from /\ period.to = to
  OBVIOUS
<1>2. BucketDays \in Int /\ Year \in Nat \ {0} /\ BucketDays <= Year
  BY ReportsAssumption
<1>3. CASE to - from <= BucketDays
  <2>1. d % Year = e % Year
    BY <1>1, <1>3 DEF Line
  <2>2. d - e < Year /\ e - d < Year
    BY <1>1, <1>2, <1>3
  <2>3. QED BY <1>1, <1>2, <2>1, <2>2, SameRest
<1>4. CASE ~(to - from <= BucketDays)
  <2>1. d \div Month = e \div Month
    BY <1>1, <1>4 DEF Line
  <2>2. to - from > BucketDays
    BY <1>2, <1>4
  <2>3. QED BY <1>1, <2>1, <2>2
<1>5. QED BY <1>3, <1>4

-----------------------------------------------------------------------------
(* What a query found is still what it would find, apart from the requests *)
(* that were changed since the report was begun, as long as midnight does  *)
(* not move the period.                                                    *)
Counted(ids, date) ==
  \A r \in Requests \ reading.touched :
    r \in ids <=>
      r \in Found(reading.filters, Period(reading.filters, reading.began), date)

SamePeriod == today = reading.began \/ Fixed(reading.filters)

SumInv ==
  /\ reading.began <= today
  /\ SamePeriod =>
       /\ reading.phase \in {"closed", "escalated", "shown"} =>
            Counted(reading.created, "created")
       /\ reading.phase \in {"escalated", "shown"}
            /\ reading.screen \in {"overview", "dynamics"} =>
            Counted(reading.closed, "closed")
       /\ reading.phase = "shown" /\ reading.screen = "overview" =>
            Counted(reading.escalated, "escalated")

(* A period between typed dates stays as it is at midnight.                *)
LEMMA PeriodNow ==
  ASSUME Inv, SamePeriod
  PROVE  Period(reading.filters, today) = Period(reading.filters, reading.began)
<1>1. CASE Fixed(reading.filters)
  BY <1>1 DEF Period, Fixed
<1>2. CASE today = reading.began
  BY <1>2
<1>3. QED BY <1>1, <1>2 DEF SamePeriod

(* A report that begins has found nothing yet.                             *)
LEMMA SumBegin ==
  ASSUME Inv, NEW screen, NEW f, NEW phase \in {"no", "created"}, today' = today,
         reading' = [Blank(screen, f) EXCEPT !.phase = phase]
  PROVE  SumInv'
<1>1. reading'.began = today /\ reading'.phase = phase
  BY DEF Blank
<1>2. today \in Int
  BY ReportsAssumption DEF Inv, DayInv, Dates
<1>3. QED BY <1>1, <1>2 DEF SumInv

(* What the queries found stays right as long as neither table nor report  *)
(* changes in what the requests nobody touched are.                        *)
LEMMA CountedKeeps ==
  ASSUME NEW date,
         reading'.filters = reading.filters, reading'.began = reading.began,
         reading.touched \subseteq reading'.touched,
         \A r \in Requests \ reading'.touched : table'[r] = table[r]
  PROVE  /\ reading'.created = reading.created /\ Counted(reading.created, date)
              => Counted(reading.created, date)'
         /\ reading'.closed = reading.closed /\ Counted(reading.closed, date)
              => Counted(reading.closed, date)'
         /\ reading'.escalated = reading.escalated /\ Counted(reading.escalated, date)
              => Counted(reading.escalated, date)'
<1> DEFINE f == reading.filters
           period == Period(f, reading.began)
<1>1. /\ reading'.filters = f /\ Period(reading'.filters, reading'.began) = period
  OBVIOUS
<1>2. \A r \in Requests \ reading'.touched :
        r \in Found(f, period, date)' <=> r \in Found(f, period, date)
  BY <1>1 DEF Found
<1>3. QED BY <1>1, <1>2 DEF Counted

(* Every step keeps what the queries found.                                *)
LEMMA SumStep == Inv /\ SumInv /\ [Next]_vars => SumInv'
<1> SUFFICES ASSUME Inv, SumInv, [Next]_vars PROVE SumInv'
  OBVIOUS
<1> DEFINE f == reading.filters
           now == Period(f, today)
<1>1. reading \in Reading /\ today \in Int /\ reading.began \in Int
  BY ReportsAssumption DEF Inv, ReadingInv, DayInv, Dates, Reading
<1>2. SamePeriod => now = Period(f, reading.began)
  BY PeriodNow
<1>3. CASE UNCHANGED <<today, table, reading>>
  BY <1>3 DEF SumInv, SamePeriod, Counted, Found
<1>4. ASSUME NEW screen, NEW g, Begin(screen, g), today' = today
      PROVE  SumInv'
  BY <1>4, SumBegin DEF Begin
<1>5. CASE ReadCreated
  <2> DEFINE phase == IF Overflows(f) THEN "failed"
                      ELSE IF reading.screen \in {"overview", "dynamics"}
                      THEN "closed" ELSE "escalated"
  <2>0. CASE Overflows(f)
    <3>1. reading' = [reading EXCEPT !.phase = "failed"]
      BY <1>5, <2>0 DEF ReadCreated
    <3>2. /\ reading'.phase = "failed" /\ reading'.began = reading.began
          /\ today' = today
      BY <1>1, <1>5, <3>1 DEF Reading, ReadCreated
    <3>3. QED BY <3>2 DEF SumInv
  <2> SUFFICES ASSUME ~Overflows(f) PROVE SumInv'
    BY <2>0
  <2>1. PICK ids, loaded :
          /\ ids = Found(f, now, "created")
          /\ reading' = [reading EXCEPT !.created = ids, !.loaded = loaded,
                                        !.phase = phase]
          /\ today' = today /\ table' = table
    BY <1>5 DEF ReadCreated
  <2>2. /\ reading'.phase = phase /\ reading'.created = ids /\ reading'.began = reading.began
        /\ reading'.filters = f /\ reading'.screen = reading.screen
        /\ reading'.touched = reading.touched
    BY <1>1, <2>1 DEF Reading
  <2>3. SamePeriod' => SamePeriod
    BY <2>1, <2>2 DEF SamePeriod
  <2>4. ASSUME SamePeriod PROVE Counted(reading.created, "created")'
    <3>1. ids = Found(f, Period(f, reading.began), "created")
      BY <1>2, <2>1, <2>4
    <3>2. \A g, p, d : Found(g, p, d)' = Found(g, p, d)
      BY <2>1 DEF Found
    <3> HIDE DEF f
    <3>3. QED BY <2>2, <3>1, <3>2 DEF Counted
  <2>5. reading'.phase = "escalated" => reading'.screen \notin {"overview", "dynamics"}
    BY <1>1, <2>1, <2>2
  <2>6. QED BY <2>1, <2>2, <2>3, <2>4, <2>5 DEF SumInv
<1>6. CASE ReadClosed
  <2>1. PICK ids, loaded :
          /\ ids = Found(f, now, "closed")
          /\ reading' = [reading EXCEPT !.closed = ids, !.loaded = loaded,
                                        !.phase = "escalated"]
          /\ today' = today /\ table' = table
    BY <1>6 DEF ReadClosed
  <2>2. /\ reading'.phase = "escalated" /\ reading'.closed = ids
        /\ reading'.created = reading.created /\ reading'.began = reading.began
        /\ reading'.filters = f /\ reading'.screen = reading.screen
        /\ reading'.touched = reading.touched /\ reading.phase = "closed"
    BY <1>1, <1>6, <2>1 DEF Reading, ReadClosed
  <2>3. SamePeriod' => SamePeriod
    BY <2>1, <2>2 DEF SamePeriod
  <2>4. ASSUME SamePeriod PROVE Counted(reading.closed, "closed")'
    <3>1. ids = Found(f, Period(f, reading.began), "closed")
      BY <1>2, <2>1, <2>4
    <3>2. \A g, p, d : Found(g, p, d)' = Found(g, p, d)
      BY <2>1 DEF Found
    <3> HIDE DEF f
    <3>3. QED BY <2>2, <3>1, <3>2 DEF Counted
  <2>5. Counted(reading.created, "created") => Counted(reading.created, "created")'
    BY <2>1, <2>2, CountedKeeps
  <2>6. QED BY <2>1, <2>2, <2>3, <2>4, <2>5 DEF SumInv
<1>7. CASE Show
  <2>1. PICK ids :
          /\ reading.screen = "overview" => ids = Found(f, now, "escalated")
          /\ \/ reading' = [reading EXCEPT !.phase = "failed"]
             \/ reading' = [reading EXCEPT !.escalated = ids, !.phase = "shown"]
          /\ today' = today /\ table' = table /\ reading.phase = "escalated"
    BY <1>7 DEF Show
  <2>2. /\ reading'.closed = reading.closed
        /\ reading'.created = reading.created /\ reading'.began = reading.began
        /\ reading'.filters = f /\ reading'.screen = reading.screen
        /\ reading'.touched = reading.touched
        /\ reading'.phase = "failed" \/ (reading'.phase = "shown" /\ reading'.escalated = ids)
    BY <1>1, <2>1 DEF Reading
  <2>3. SamePeriod' => SamePeriod
    BY <2>1, <2>2 DEF SamePeriod
  <2>4. ASSUME SamePeriod, reading'.phase = "shown", reading.screen = "overview"
        PROVE  Counted(reading.escalated, "escalated")'
    <3>1. ids = Found(f, Period(f, reading.began), "escalated")
      BY <1>2, <2>1, <2>4
    <3>2. \A g, p, d : Found(g, p, d)' = Found(g, p, d)
      BY <2>1 DEF Found
    <3>3. reading'.escalated = ids
      BY <2>2, <2>4
    <3> HIDE DEF f
    <3>4. QED BY <2>2, <3>1, <3>2, <3>3 DEF Counted
  <2>5. /\ Counted(reading.created, "created") => Counted(reading.created, "created")'
        /\ Counted(reading.closed, "closed") => Counted(reading.closed, "closed")'
    BY <2>1, <2>2, CountedKeeps
  <2>6. QED BY <2>1, <2>2, <2>3, <2>4, <2>5 DEF SumInv
<1>8. ASSUME NEW r \in Requests, NEW row, Change(r, row)
      PROVE  SumInv'
  <2>1. /\ reading' = [reading EXCEPT !.touched = @ \cup {r}]
        /\ table' = [table EXCEPT ![r] = row] /\ today' = today
    BY <1>8 DEF Change
  <2>2. /\ reading'.closed = reading.closed /\ reading'.escalated = reading.escalated
        /\ reading'.created = reading.created /\ reading'.began = reading.began
        /\ reading'.filters = f /\ reading'.screen = reading.screen
        /\ reading'.phase = reading.phase
        /\ reading'.touched = reading.touched \cup {r}
    BY <1>1, <2>1 DEF Reading
  <2>3. SamePeriod' => SamePeriod
    BY <2>1, <2>2 DEF SamePeriod
  <2>4. \A q \in Requests \ reading'.touched : table'[q] = table[q]
    BY <2>1, <2>2 DEF Inv, TableInv
  <2>5. reading.touched \subseteq reading'.touched
    BY <2>2
  <2>6. /\ Counted(reading.created, "created") => Counted(reading.created, "created")'
        /\ Counted(reading.closed, "closed") => Counted(reading.closed, "closed")'
        /\ Counted(reading.escalated, "escalated") => Counted(reading.escalated, "escalated")'
    BY <2>2, <2>4, <2>5, CountedKeeps
  <2>7. QED BY <2>1, <2>2, <2>3, <2>6 DEF SumInv
<1>9. CASE Midnight
  <2>1. today' = today + 1 /\ reading' = reading /\ table' = table
    BY <1>9 DEF Midnight
  <2>2. reading.began <= today' /\ today' # reading.began
    BY <1>1, <2>1 DEF SumInv
  <2>3. SamePeriod' => SamePeriod
    BY <2>1, <2>2 DEF SamePeriod
  <2>4. /\ Counted(reading.created, "created") => Counted(reading.created, "created")'
        /\ Counted(reading.closed, "closed") => Counted(reading.closed, "closed")'
        /\ Counted(reading.escalated, "escalated") => Counted(reading.escalated, "escalated")'
    BY <2>1, CountedKeeps
  <2>5. QED BY <2>1, <2>2, <2>3, <2>4 DEF SumInv
<1>10. CASE \/ Summary \/ TapFilters \/ TapReset
            \/ \E p \in Periods \ {"yesterday"} : TapPeriod(p)
            \/ \E screen \in Screens : TapSection(screen)
            \/ \E u \in Offered : ChooseUrgency(u)
            \/ \E w \in Workers \cup {None} : ChooseWorker(w)
  BY <1>3, <1>4, <1>10 DEF Summary, TapFilters, TapReset,
     TapPeriod, TapSection, ChooseUrgency, ChooseWorker, Choose
<1>11. CASE \E r \in Requests : \/ Escalate(r) \/ Close(r) \/ Delete(r)
                                \/ \E u \in Urgencies : Create(r, u)
                                \/ \E w \in Workers : Assign(r, w)
  BY <1>8, <1>11 DEF Escalate, Close, Delete, Create, Assign
<1>12. CASE UNCHANGED vars
  BY <1>3, <1>12 DEF vars
<1>13. CASE ReadCreated \/ ReadClosed \/ Show \/ Midnight
  BY <1>5, <1>6, <1>7, <1>9, <1>13
<1>14. CASE Cancel \/ \E d \in Dates : TypeStart(d) \/ TypeEnd(d)
  BY <1>3, <1>4, <1>14 DEF Cancel, TypeStart, TypeEnd
<1>15. QED BY <1>10, <1>11, <1>12, <1>13, <1>14 DEF Next

(* A report that is shown counts what its period and its filters name.     *)
THEOREM AddsUpCorrect == Spec => []ReportAddsUp
<1>1. Init => SumInv
  BY DEF Init, SumInv, Blank
<1>2. Inv /\ SumInv => ReportAddsUp
  <2> SUFFICES ASSUME Inv, SumInv, reading.phase = "shown", SamePeriod
               PROVE  ReportAddsUp
    BY DEF ReportAddsUp, SamePeriod
  <2> DEFINE f == reading.filters
             t == reading.began
             period == Period(f, t)
             Counts(ids, date) ==
               \A r \in Requests \ reading.touched :
                 r \in ids <=> /\ table[r] # None /\ Selected(f, table[r])
                              /\ table[r][date] # None
                              /\ NamedDay(f, t, table[r][date])
  <2>1. f \in Good /\ t \in Dates
    BY DEF Inv, ReadingInv, Reading
  <2>2. ASSUME NEW date \in {"created", "closed", "escalated"}, NEW r \in Requests,
               table[r] # None
        PROVE  table[r][date] # None => table[r][date] \in Dates
    BY <2>2 DEF Inv, TableInv, Rows
  <2>3. ASSUME NEW date \in {"created", "closed", "escalated"}, NEW ids,
               Counted(ids, date)
        PROVE  Counts(ids, date)
    <3>1. \A d \in Dates : d \in period.from..(period.to - 1) <=> NamedDay(f, t, d)
      BY <2>1, PeriodDays
    <3> HIDE DEF period, f, t
    <3>2. \A r \in Requests :
            r \in Found(f, period, date) <=>
              /\ table[r] # None /\ Selected(f, table[r])
              /\ table[r][date] # None
              /\ NamedDay(f, t, table[r][date])
      BY <2>2, <3>1 DEF Found
    <3>3. QED BY <2>3, <3>2 DEF Counted, period, f, t
  <2>4. ASSUME NEW d \in period.from..(period.to - 1),
               NEW e \in period.from..(period.to - 1),
               Line(period, d) = Line(period, e)
        PROVE  d = e \/ (period.to - period.from > BucketDays
                           /\ d \div Month = e \div Month)
    <3>1. period.from \in Int /\ period.to \in Int
      BY <2>1, PeriodDays
    <3> HIDE DEF period
    <3>2. QED BY <2>4, <3>1, LineFacts
  <2>5. /\ Counts(reading.created, "created")
        /\ reading.screen \in {"overview", "dynamics"} => Counts(reading.closed, "closed")
        /\ reading.screen = "overview" => Counts(reading.escalated, "escalated")
    BY <2>3 DEF SumInv
  <2> HIDE DEF Counts
  <2>6. QED BY <2>4, <2>5 DEF ReportAddsUp, Counts
<1>3. QED BY InvInit, InvStep, SumStep, <1>1, <1>2, PTL DEF Spec

=============================================================================
