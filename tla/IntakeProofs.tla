----------------------------- MODULE IntakeProofs -----------------------------
(***************************************************************************)
(* Theorems about Intake for any number of descriptions, requests and      *)
(* overlapping handlers.  What needs a resident who waits for answers says *)
(* so by `patient': of two overlapping handlers one may act for a form the *)
(* other has left.                                                         *)
(***************************************************************************)
EXTENDS Intake, TLAPS

-----------------------------------------------------------------------------
(* The inductive invariant: what holds for any handlers.                   *)

GoodForm(f) ==
  /\ f \in [state : States, data : Data]
  /\ f.state = "confirm" => f.data.raw # None
  /\ f.state = "area" => f.data.category = "plumber"
  /\ f.state = "media" => f.data.category \in {"kazakhdomofon", "cleaning"}

(* A handler that asks the LLM has a text, one that checks or files has a  *)
(* category, one that is free remembers nothing.                           *)
GoodHandler(h) ==
  /\ h \in Handlers
  /\ h.phase \in {"check", "recheck", "create"} => h.category \in Categories
  /\ h.phase \in {"classify", "check"} => h.text \in Texts
  /\ h.phase = "free" => h.text = None

TableInv == /\ requests \in Seq(Requests) /\ Len(requests) <= MaxRows
RestInv  == /\ approved \in BOOLEAN /\ count \in 0..MaxTexts
            /\ typed \subseteq Texts /\ cards \subseteq Texts
            /\ past \subseteq Rows /\ twice \subseteq Texts
            /\ patient \in BOOLEAN

TypeInv == /\ GoodForm(fsm) /\ TableInv /\ RestInv
           /\ task \in [Tasks -> Handlers] /\ \A t \in Tasks : GoodHandler(task[t])

-----------------------------------------------------------------------------
(* The records the form and its handlers are made of.                      *)

LEMMA Values ==
  /\ None \notin Texts /\ None \notin Categories /\ None \notin Drafts
  /\ Empty \in Data /\ GoodHandler(Free)
BY IntakeAssumption
   DEF Texts, Rows, Empty, Data, Free, Handlers, GoodHandler, Categories

LEMMA DataFields ==
  ASSUME NEW d \in Data
  PROVE  /\ \A c \in Categories \cup {None} : [d EXCEPT !.category = c] \in Data
         /\ \A x \in Texts \cup {None} : /\ [d EXCEPT !.raw = x] \in Data
                                         /\ [d EXCEPT !.weak = x] \in Data
         /\ \A x \in Texts \cup {None}, c \in Categories \cup {None} :
              [d EXCEPT !.raw = x, !.guess = c] \in Data
         /\ \A y \in Drafts : [d EXCEPT !.draft = y] \in Data
         /\ \A i \in Rows : [d EXCEPT !.dup = i] \in Data
BY DEF Data

LEMMA Candidate ==
  ASSUME TypeInv, NEW c
  PROVE  Candidates(c) \subseteq Rows /\ Candidates(c) \cap Completed = {}
<1>1. requests \in Seq(Requests) /\ Len(requests) <= MaxRows /\ MaxRows \in Nat
  BY IntakeAssumption DEF TypeInv, TableInv
<1>2. DOMAIN requests = 1..Len(requests) /\ Len(requests) \in Nat
  BY <1>1
<1>3. DOMAIN requests \subseteq Rows
  BY <1>1, <1>2 DEF Rows
<1>4. QED BY <1>3 DEF Candidates, Completed

(* A handler that is to file, and one that compares first.                 *)
LEMMA FileType ==
  ASSUME NEW t \in Tasks, NEW c \in Categories, NEW x \in Texts \cup {None},
         NEW k \in Texts \cup {None}, File(t, c, x, k)
  PROVE  \E h : /\ GoodHandler(h) /\ task' = [task EXCEPT ![t] = h]
                /\ h.phase = "create" /\ h.text = x
<1> DEFINE h == [Free EXCEPT !.phase = "create", !.category = c, !.text = x, !.shown = k]
<1>1. task' = [task EXCEPT ![t] = h]
  BY DEF File
<1>2. GoodHandler(h) /\ h.phase = "create" /\ h.text = x
  BY DEF GoodHandler, Handlers, Free
<1> HIDE DEF h
<1>3. QED BY <1>1, <1>2

LEMMA CheckType ==
  ASSUME TypeInv, NEW t \in Tasks, NEW c \in Categories, NEW x \in Texts,
         NEW k \in Texts \cup {None}, Check(t, c, x, k)
  PROVE  \E h : /\ GoodHandler(h) /\ task' = [task EXCEPT ![t] = h]
                /\ h.phase \in {"check", "create"} /\ h.text = x
<1>1. CASE Candidates(c) = {}
  BY <1>1, FileType DEF Check
<1>2. CASE Candidates(c) # {}
  <2> DEFINE h == [phase |-> "check", text |-> x, category |-> c, shown |-> k,
                   cands |-> Candidates(c)]
  <2>1. task' = [task EXCEPT ![t] = h]
    BY <1>2 DEF Check
  <2>2. GoodHandler(h) /\ h.phase = "check" /\ h.text = x
    BY Candidate DEF GoodHandler, Handlers
  <2> HIDE DEF h
  <2>3. QED BY <2>1, <2>2
<1>3. QED BY <1>1, <1>2

LEMMA RecheckType ==
  ASSUME TypeInv, NEW t \in Tasks, NEW d \in Drafts,
         NEW cands, cands \subseteq Rows, Recheck(t, d, cands)
  PROVE  \E h : /\ GoodHandler(h) /\ task' = [task EXCEPT ![t] = h]
                /\ h.phase \in {"recheck", "create"} /\ h.text = d.text
                /\ h.cands \subseteq cands
<1>1. d.category \in Categories /\ d.text \in Texts
  BY DEF Drafts
<1>2. CASE cands = {}
  <2> DEFINE h == [phase |-> "create", text |-> d.text, category |-> d.category,
                   cands |-> {}, shown |-> None]
  <2>1. task' = [task EXCEPT ![t] = h]
    BY <1>2 DEF Recheck, File, Free
  <2>2. /\ GoodHandler(h) /\ h.phase = "create" /\ h.text = d.text
        /\ h.cands \subseteq cands
    BY <1>1 DEF GoodHandler, Handlers
  <2> HIDE DEF h
  <2>3. QED BY <2>1, <2>2
<1>3. CASE cands # {}
  <2> DEFINE h == [phase |-> "recheck", text |-> d.text, category |-> d.category,
                   shown |-> None, cands |-> cands]
  <2>1. task' = [task EXCEPT ![t] = h]
    BY <1>3 DEF Recheck
  <2>2. /\ GoodHandler(h) /\ h.phase = "recheck" /\ h.text = d.text
        /\ h.cands \subseteq cands
    BY <1>1 DEF GoodHandler, Handlers
  <2> HIDE DEF h
  <2>3. QED BY <2>1, <2>2
<1>4. QED BY <1>2, <1>3

-----------------------------------------------------------------------------
(* What nearly every step of a handler does.                               *)

(* The form holds the text x, to be filed later.                           *)
Held(d, x) == \/ d.raw = x \/ d.weak = x
              \/ d.draft # None /\ d.draft.text = x

(* A handler is begun, or goes on.                                         *)
Acts(t) == Ready(t) \/ ~Idle(t)

(* A text that t did not have before is no other handler's, or is marked.  *)
Marks(t) ==
  /\ twice \subseteq twice'
  /\ \A x \in Texts : task'[t].text = x =>
       task[t].text = x \/ x \in twice' \/ \A u \in Tasks \ {t} : task[u].text # x

(* A handler and the form pass on the texts they have; if the form was     *)
(* begun anew, or the handler has filed, they keep none.                   *)
Passes(t) ==
  /\ Acts(t) /\ Marks(t)
  /\ UNCHANGED <<requests, count, patient>>
  /\ GoodForm(fsm') /\ RestInv'
  /\ task' \in [Tasks -> Handlers] /\ GoodHandler(task'[t])
  /\ \A u \in Tasks \ {t} : task'[u] = task[u]
  /\ task'[t].phase # "filed"
  /\ typed' = typed \/ typed' = {}
  /\ \A x \in Texts : Held(fsm'.data, x) \/ task'[t].text = x =>
       /\ Held(fsm.data, x) \/ task[t].text = x
       /\ typed' = typed /\ task[t].phase # "filed"

(* The data that state s needs, but for the questions about a duplicate.   *)
Sound(s, d) ==
  /\ s = "confirm" => d.raw # None /\ d.guess # None
  /\ s = "clarify" => d.draft # None
  /\ s # "decide"

(* A step that asks no question about a duplicate.                         *)
Plain(t) ==
  /\ past' = past /\ task'[t].phase # "recheck"
  /\ \/ Sound(fsm'.state, fsm'.data)
     \/ /\ fsm'.state = fsm.state /\ fsm'.data.raw = fsm.data.raw
        /\ fsm'.data.guess = fsm.data.guess /\ fsm'.data.draft = fsm.data.draft
        /\ fsm'.data.dup = fsm.data.dup

LEMMA Marked ==
  ASSUME TypeInv, NEW t \in Tasks, task' \in [Tasks -> Handlers],
         \/ Share(t)
         \/ twice' = twice /\ \A x \in Texts : task'[t].text = x => task[t].text = x
  PROVE  Marks(t) /\ twice' \subseteq Texts
<1>1. task'[t].text \in Texts \cup {None} /\ twice \subseteq Texts
  BY DEF Handlers, TypeInv, RestInv
<1>2. CASE Share(t)
  BY <1>1, <1>2, Values DEF Share, Marks
<1>3. CASE twice' = twice /\ \A x \in Texts : task'[t].text = x => task[t].text = x
  BY <1>1, <1>3 DEF Marks
<1>4. QED BY <1>2, <1>3

LEMMA Handed ==
  ASSUME TypeInv, NEW t \in Tasks, NEW h, GoodHandler(h),
         task' = [task EXCEPT ![t] = h]
  PROVE  /\ task' \in [Tasks -> Handlers] /\ task'[t] = h
         /\ \A u \in Tasks \ {t} : task'[u] = task[u]
BY DEF TypeInv, GoodHandler

(* A handler goes on with a text of its own or of the form.                *)
LEMMA PassOn ==
  ASSUME TypeInv, NEW t \in Tasks, NEW h, GoodHandler(h),
         task' = [task EXCEPT ![t] = h], h.phase \notin {"filed", "recheck"},
         \A x \in Texts : h.text = x => Held(fsm.data, x) \/ task[t].text = x,
         task[t].phase # "filed", Acts(t),
         \/ Share(t)
         \/ twice' = twice /\ \A x \in Texts : h.text = x => task[t].text = x,
         UNCHANGED <<fsm, requests, approved, count, typed, cards, past, patient>>
  PROVE  Passes(t) /\ Plain(t)
<1>1. fsm' = fsm /\ task'[t] = h /\ typed' = typed
  BY Handed
<1>2. Marks(t) /\ twice' \subseteq Texts
  BY <1>1, Handed, Marked
<1>3. GoodForm(fsm') /\ RestInv'
  BY <1>2 DEF TypeInv, RestInv
<1>4. QED BY <1>1, <1>2, <1>3, Handed DEF Passes, Plain

(* A handler moves the form and ends.                                      *)
LEMMA NewForm ==
  ASSUME TypeInv, NEW t \in Tasks, NEW s, NEW d, Goto(s, d),
         GoodForm([state |-> s, data |-> d]),
         task' = [task EXCEPT ![t] = Free] \/ (Idle(t) /\ task' = task),
         typed' = typed \/ typed' = {},
         \A x \in Texts : Held(d, x) =>
           /\ Held(fsm.data, x) \/ task[t].text = x
           /\ typed' = typed /\ task[t].phase # "filed",
         cards' \in SUBSET Texts, Acts(t), Share(t) \/ twice' = twice,
         UNCHANGED <<requests, approved, count, past, patient>>
  PROVE  Passes(t) /\ (Sound(s, d) => Plain(t))
<1>1. GoodForm(fsm') /\ fsm'.state = s /\ fsm'.data = d
  BY DEF Goto
<1>2. /\ task' \in [Tasks -> Handlers] /\ task'[t] = Free
      /\ \A u \in Tasks \ {t} : task'[u] = task[u]
  BY Handed, Values DEF Stop, Idle, TypeInv
<1>3. Free.phase = "free" /\ Free.text = None
  BY DEF Free
<1>4. Marks(t) /\ twice' \subseteq Texts
  BY <1>2, <1>3, Values, Marked
<1>5. RestInv'
  BY <1>4 DEF TypeInv, RestInv
<1>6. QED BY <1>1, <1>2, <1>3, <1>4, <1>5, Values DEF Passes, Plain

(* The form is left.                                                       *)
LEMMA Cleared ==
  ASSUME TypeInv, NEW t \in Tasks, Clear,
         task' = [task EXCEPT ![t] = Free] \/ (Idle(t) /\ task' = task),
         Acts(t), Share(t) \/ twice' = twice,
         UNCHANGED <<requests, approved, count, cards, past, patient>>
  PROVE  Passes(t) /\ Plain(t)
<1>1. GoodForm([state |-> "none", data |-> Empty]) /\ Sound("none", Empty)
  BY Values DEF GoodForm, States, Sound
<1>2. \A x \in Texts : ~Held(Empty, x)
  BY Values DEF Held, Empty
<1>3. cards' \in SUBSET Texts
  BY DEF TypeInv, RestInv
<1>4. QED BY <1>1, <1>2, <1>3, NewForm DEF Clear

-----------------------------------------------------------------------------
(* The steps of the chat, one by one.                                      *)

LEMMA BeginSteps ==
  ASSUME TypeInv, NEW t \in Tasks,
         Start(t) \/ Cancel(t) \/ ChooseTrade(t) \/ ChooseKazakhdomofon(t)
           \/ ChooseCleaning(t) \/ Recategorize(t) \/ OpenDuplicate(t)
  PROVE  Passes(t) /\ Plain(t)
<1> fsm.data \in Data /\ cards \in SUBSET Texts
  BY DEF TypeInv, GoodForm, RestInv
<1>1. Ready(t) /\ Idle(t) /\ Acts(t) /\ twice' = twice
  BY DEF Start, Cancel, ChooseTrade, ChooseKazakhdomofon, ChooseCleaning, Recategorize,
         OpenDuplicate, Ready, Acts
<1>2. CASE Cancel(t) \/ OpenDuplicate(t)
  BY <1>1, <1>2, Cleared DEF Cancel, OpenDuplicate
<1>3. CASE Start(t)
  <2>1. PICK s \in {"description", "category"} : Goto(s, Empty)
    BY <1>3 DEF Start
  <2>2. GoodForm([state |-> s, data |-> Empty]) /\ Sound(s, Empty)
    BY Values DEF GoodForm, States, Sound
  <2>3. \A x \in Texts : ~Held(Empty, x)
    BY Values DEF Held, Empty
  <2>4. QED BY <1>1, <1>3, <2>1, <2>2, <2>3, NewForm DEF Start
<1>4. CASE ChooseTrade(t)
  <2> DEFINE d == [fsm.data EXCEPT !.category = "plumber"]
  <2>1. /\ d \in Data /\ d.category = "plumber"
        /\ \A x \in Texts : Held(d, x) => Held(fsm.data, x)
    BY <1>1 DEF Data, Categories, Held
  <2>2. Goto("area", d)
    BY <1>4 DEF ChooseTrade
  <2> HIDE DEF d
  <2>3. GoodForm([state |-> "area", data |-> d]) /\ Sound("area", d)
    BY <2>1 DEF GoodForm, States, Sound
  <2>4. task[t].phase = "free"
    BY <1>1 DEF Idle, Free
  <2>5. QED BY <1>1, <1>4, <2>1, <2>2, <2>3, <2>4, NewForm DEF ChooseTrade
<1>5. CASE ChooseKazakhdomofon(t)
  <2> DEFINE d == [Empty EXCEPT !.category = "kazakhdomofon"]
  <2>1. d \in Data /\ \A x \in Texts : ~Held(d, x)
    BY Values DEF Data, Categories, Held, Empty
  <2>2. Goto("category", d)
    BY <1>5 DEF ChooseKazakhdomofon
  <2> HIDE DEF d
  <2>3. GoodForm([state |-> "category", data |-> d]) /\ Sound("category", d)
    BY <2>1 DEF GoodForm, States, Sound
  <2>4. QED BY <1>1, <1>5, <2>1, <2>2, <2>3, NewForm DEF ChooseKazakhdomofon
<1>6. CASE ChooseCleaning(t)
  <2> DEFINE d == [Empty EXCEPT !.category = "cleaning"]
  <2>1. d \in Data /\ d.category = "cleaning" /\ \A x \in Texts : ~Held(d, x)
    BY Values DEF Data, Categories, Held, Empty
  <2>2. Goto("media", d)
    BY <1>6 DEF ChooseCleaning
  <2> HIDE DEF d
  <2>3. GoodForm([state |-> "media", data |-> d]) /\ Sound("media", d)
    BY <2>1 DEF GoodForm, States, Sound
  <2>4. QED BY <1>1, <1>6, <2>1, <2>2, <2>3, NewForm DEF ChooseCleaning
<1>7. CASE Recategorize(t)
  <2> DEFINE d == [fsm.data EXCEPT !.category = None]
  <2>1. d \in Data /\ \A x \in Texts : Held(d, x) => Held(fsm.data, x)
    BY <1>1 DEF Data, Held
  <2>2. Goto("category", d)
    BY <1>7 DEF Recategorize
  <2> HIDE DEF d
  <2>3. GoodForm([state |-> "category", data |-> d]) /\ Sound("category", d)
    BY <2>1 DEF GoodForm, States, Sound
  <2>4. task[t].phase = "free"
    BY <1>1 DEF Idle, Free
  <2>5. QED BY <1>1, <1>7, <2>1, <2>2, <2>3, <2>4, NewForm DEF Recategorize
<1>8. QED BY <1>2, <1>3, <1>4, <1>5, <1>6, <1>7

(* A tap that files the text x, or one that compares it first.             *)
LEMMA Files ==
  ASSUME TypeInv, NEW t \in Tasks, NEW c \in Categories, NEW x \in Texts \cup {None},
         NEW k \in Texts \cup {None},
         File(t, c, x, k) \/ (x # None /\ Check(t, c, x, k)),
         task[t].phase # "filed",
         x # None => Held(fsm.data, x) \/ task[t].text = x, Acts(t),
         Share(t) \/ (twice' = twice /\ (x # None => task[t].text = x)),
         UNCHANGED <<fsm, requests, approved, count, typed, cards, past, patient>>
  PROVE  Passes(t) /\ Plain(t)
<1>1. PICK h : /\ GoodHandler(h) /\ task' = [task EXCEPT ![t] = h]
               /\ h.phase \in {"check", "create"} /\ h.text = x
  BY FileType, CheckType
<1>2. \A y \in Texts : h.text = y => Held(fsm.data, y) \/ task[t].text = y
  BY <1>1, Values
<1>3. Share(t) \/ (twice' = twice /\ \A y \in Texts : h.text = y => task[t].text = y)
  BY <1>1, Values
<1>4. QED BY <1>1, <1>2, <1>3, PassOn

(* _finalize_from_message, of a handler that classifies.                   *)
LEMMA Finalizes ==
  ASSUME TypeInv, NEW t \in Tasks, NEW c \in Categories, Classifying(t),
         Finalize(t, c, task[t].text),
         UNCHANGED <<requests, approved, count, cards, past, twice, patient>>
  PROVE  Passes(t) /\ Plain(t)
<1>1. task[t].text \in Texts /\ task[t].phase # "filed" /\ Acts(t)
  BY DEF TypeInv, GoodHandler, Classifying, Acts, Idle, Free
<1>2. CASE approved
  BY <1>1, <1>2, Values, Files DEF Finalize
<1>3. CASE ~approved
  <2>1. Clear /\ task' = [task EXCEPT ![t] = Free]
    BY <1>3 DEF Finalize, Stop
  <2>2. QED BY <1>1, <2>1, Cleared
<1>4. QED BY <1>2, <1>3

LEMMA FilingSteps ==
  ASSUME TypeInv, NEW t \in Tasks,
         ChooseSecurity(t) \/ ChooseArea(t) \/ ChooseTemplate(t) \/ SendMedia(t)
           \/ ForceWeak(t) \/ CreateAnyway(t) \/ \E k \in Texts : Confirm(t, k)
  PROVE  Passes(t) /\ Plain(t)
<1>1. fsm.data \in Data /\ cards \in SUBSET Texts
  BY DEF TypeInv, GoodForm, RestInv
<1>2. /\ task[t].phase = "free" /\ Idle(t) /\ Acts(t)
      /\ Share(t) \/ twice' = twice
  <2>1. Ready(t) /\ (Share(t) \/ twice' = twice)
    BY DEF ChooseSecurity, ChooseArea, ChooseTemplate, SendMedia, ForceWeak,
           CreateAnyway, Confirm
  <2>2. QED BY <2>1 DEF Ready, Acts, Idle, Free
<1>3. /\ fsm.data.raw \in Texts \cup {None} /\ fsm.data.weak \in Texts \cup {None}
      /\ fsm.data.category \in Categories \cup {None}
      /\ fsm.data.guess \in Categories \cup {None}
      /\ fsm.data.draft \in Drafts \cup {None}
  BY <1>1 DEF Data
<1>4. CASE ChooseSecurity(t)
  <2>1. CASE fsm.data.raw # None
    <3>1. "security" \in Categories /\ Held(fsm.data, fsm.data.raw)
      BY DEF Categories, Held
    <3>2. QED BY <1>2, <1>3, <1>4, <2>1, <3>1, Files DEF ChooseSecurity
  <2>2. CASE fsm.data.raw = None
    <3> DEFINE d == [fsm.data EXCEPT !.category = "security"]
    <3>1. d \in Data /\ \A x \in Texts : Held(d, x) => Held(fsm.data, x)
      BY <1>1 DEF Data, Categories, Held
    <3>2. Goto("description", d)
      BY <1>4, <2>2 DEF ChooseSecurity
    <3> HIDE DEF d
    <3>3. GoodForm([state |-> "description", data |-> d]) /\ Sound("description", d)
      BY <3>1 DEF GoodForm, States, Sound
    <3>4. QED BY <1>1, <1>2, <1>4, <2>2, <3>1, <3>2, <3>3, NewForm DEF ChooseSecurity
  <2>3. QED BY <2>1, <2>2
<1>5. CASE ChooseArea(t)
  <2>1. fsm.data.category \in Categories
    BY <1>5 DEF ChooseArea, TypeInv, GoodForm, Categories
  <2>2. CASE fsm.data.raw # None
    <3>1. Held(fsm.data, fsm.data.raw)
      BY DEF Held
    <3>2. QED BY <1>2, <1>3, <1>5, <2>1, <2>2, <3>1, Files DEF ChooseArea
  <2>3. CASE fsm.data.raw = None
    <3>1. GoodForm([state |-> "description", data |-> fsm.data])
          /\ Sound("description", fsm.data)
      BY <1>1 DEF GoodForm, States, Sound
    <3>2. QED BY <1>1, <1>2, <1>5, <2>3, <3>1, NewForm DEF ChooseArea
  <2>4. QED BY <2>2, <2>3
<1>6. CASE ChooseTemplate(t)
  <2>1. "kazakhdomofon" \in Categories
    BY DEF Categories
  <2>2. CASE File(t, "kazakhdomofon", None, None) /\ UNCHANGED <<fsm, typed>>
    BY <1>2, <1>6, <2>1, <2>2, Files DEF ChooseTemplate
  <2>3. CASE /\ Goto("media", [Empty EXCEPT !.category = "kazakhdomofon"])
             /\ typed' = {} /\ UNCHANGED task
    <3> DEFINE d == [Empty EXCEPT !.category = "kazakhdomofon"]
    <3>1. d \in Data /\ d.category = "kazakhdomofon" /\ \A x \in Texts : ~Held(d, x)
      BY Values, <2>1 DEF Data, Held, Empty
    <3>2. Goto("media", d)
      BY <2>3
    <3> HIDE DEF d
    <3>3. GoodForm([state |-> "media", data |-> d]) /\ Sound("media", d)
      BY <3>1 DEF GoodForm, States, Sound
    <3>4. QED BY <1>1, <1>2, <1>6, <2>3, <3>1, <3>2, <3>3, NewForm DEF ChooseTemplate
  <2>4. QED BY <1>6, <2>2, <2>3 DEF ChooseTemplate
<1>7. CASE SendMedia(t)
  <2>1. CASE approved /\ fsm.data.category \in {"kazakhdomofon", "cleaning"}
    BY <1>2, <1>7, <2>1, Files DEF SendMedia, Categories
  <2>2. CASE ~(approved /\ fsm.data.category \in {"kazakhdomofon", "cleaning"})
    BY <1>2, <1>7, <2>2, Cleared DEF SendMedia
  <2>3. QED BY <2>1, <2>2
<1>8. CASE ForceWeak(t)
  <2>1. Held(fsm.data, fsm.data.weak)
    BY DEF Held
  <2>2. CASE fsm.data.category = None
    <3> DEFINE d == [fsm.data EXCEPT !.raw = fsm.data.weak]
    <3>1. d \in Data /\ \A x \in Texts : Held(d, x) => Held(fsm.data, x)
      BY <1>1, <1>3 DEF Data, Held
    <3>2. Goto("category", d)
      BY <1>8, <2>2 DEF ForceWeak
    <3> HIDE DEF d
    <3>3. GoodForm([state |-> "category", data |-> d]) /\ Sound("category", d)
      BY <3>1 DEF GoodForm, States, Sound
    <3>4. QED BY <1>1, <1>2, <1>8, <2>2, <3>1, <3>2, <3>3, NewForm DEF ForceWeak
  <2>3. CASE fsm.data.category # None
    BY <1>2, <1>3, <1>8, <2>1, <2>3, Files DEF ForceWeak
  <2>4. QED BY <2>2, <2>3
<1>9. CASE CreateAnyway(t)
  <2>1. CASE approved /\ fsm.data.draft # None
    <3>1. /\ fsm.data.draft.category \in Categories /\ fsm.data.draft.text \in Texts
          /\ Held(fsm.data, fsm.data.draft.text)
      BY <1>3, <2>1 DEF Drafts, Held
    <3>2. QED BY <1>2, <1>9, <2>1, <3>1, Files DEF CreateAnyway
  <2>2. CASE ~(approved /\ fsm.data.draft # None)
    BY <1>2, <1>9, <2>2, Cleared DEF CreateAnyway
  <2>3. QED BY <2>1, <2>2
<1>10. CASE \E k \in Texts : Confirm(t, k)
  <2>1. PICK k \in Texts : Confirm(t, k)
    BY <1>10
  <2>2. CASE fsm.data.guess = None
    BY <1>2, <2>1, <2>2, Cleared DEF Confirm
  <2>3. CASE fsm.data.guess # None
    <3>1. Held(fsm.data, fsm.data.raw) /\ fsm.data.raw # None
      BY <2>1 DEF Held, Confirm, TypeInv, GoodForm
    <3>2. QED BY <1>2, <1>3, <2>1, <2>3, <3>1, Files DEF Confirm
  <2>4. QED BY <2>2, <2>3
<1>11. QED BY <1>4, <1>5, <1>6, <1>7, <1>8, <1>9, <1>10

LEMMA ClassifySteps ==
  ASSUME TypeInv, NEW t \in Tasks,
         Unclassified(t) \/ OffTopic(t) \/ NeedsDetail(t)
           \/ \E c \in Guesses : AcceptAsIs(t, c) \/ Suggest(t, c)
  PROVE  Passes(t) /\ Plain(t)
<1>1. fsm.data \in Data /\ cards \in SUBSET Texts
  BY DEF TypeInv, GoodForm, RestInv
<1>2. Classifying(t) /\ task[t].phase # "filed" /\ Acts(t) /\ UNCHANGED <<twice, patient>>
  <2>1. Classifying(t) /\ UNCHANGED <<twice, patient>>
    BY DEF Unclassified, OffTopic, NeedsDetail, AcceptAsIs, Suggest
  <2>2. QED BY <2>1 DEF Classifying, Acts, Idle, Free
<1>3. task[t].text \in Texts /\ task[t].category \in Categories \cup {None}
  BY <1>2 DEF TypeInv, GoodHandler, Handlers, Classifying
<1>4. CASE Unclassified(t)
  <2>1. CASE task[t].category = None
    <3> DEFINE d == [fsm.data EXCEPT !.raw = task[t].text]
    <3>1. /\ d \in Data
          /\ \A x \in Texts : Held(d, x) => Held(fsm.data, x) \/ task[t].text = x
      BY <1>1, <1>3 DEF Data, Held
    <3>2. Goto("category", d)
      BY <1>4, <2>1 DEF Unclassified
    <3> HIDE DEF d
    <3>3. GoodForm([state |-> "category", data |-> d]) /\ Sound("category", d)
      BY <3>1 DEF GoodForm, States, Sound
    <3>4. QED BY <1>1, <1>2, <1>4, <2>1, <3>1, <3>2, <3>3, NewForm DEF Unclassified, Stop
  <2>2. CASE task[t].category # None
    BY <1>2, <1>3, <1>4, <2>2, Finalizes DEF Unclassified
  <2>3. QED BY <2>1, <2>2
<1>5. CASE OffTopic(t)
  <2>1. task' = [task EXCEPT ![t] = Free] /\ Free.phase = "free" /\ Free.text = None
    BY <1>5 DEF OffTopic, Stop, Free
  <2>2. QED BY <1>2, <1>5, <2>1, Values, PassOn DEF OffTopic
<1>6. CASE NeedsDetail(t)
  <2> DEFINE d == [fsm.data EXCEPT !.weak = task[t].text]
  <2>1. /\ d \in Data /\ d.raw = fsm.data.raw /\ d.guess = fsm.data.guess
        /\ d.draft = fsm.data.draft /\ d.dup = fsm.data.dup
        /\ d.category = fsm.data.category
        /\ \A x \in Texts : Held(d, x) => Held(fsm.data, x) \/ task[t].text = x
    BY <1>1, <1>3 DEF Data, Held
  <2>2. fsm \in [state : States, data : Data]
    BY DEF TypeInv, GoodForm
  <2>3. Goto(fsm.state, d)
    BY <1>6, <2>2 DEF NeedsDetail, Goto
  <2> HIDE DEF d
  <2>4. GoodForm([state |-> fsm.state, data |-> d])
    BY <2>1 DEF TypeInv, GoodForm
  <2>5. Passes(t)
    BY <1>1, <1>2, <1>6, <2>1, <2>3, <2>4, NewForm DEF NeedsDetail, Stop
  <2>6. task'[t].phase = "free"
    BY <1>6 DEF NeedsDetail, Stop, Free, TypeInv
  <2>7. fsm'.state = fsm.state /\ fsm'.data = d
    BY <2>3 DEF Goto
  <2>8. Plain(t)
    BY <1>6, <2>1, <2>6, <2>7 DEF Plain, NeedsDetail
  <2>9. QED BY <2>5, <2>8
<1>7. CASE \E c \in Guesses : AcceptAsIs(t, c)
  <2>1. PICK c \in Guesses : AcceptAsIs(t, c)
    BY <1>7
  <2>2. Settled(t, c) \in Categories
    BY <1>3, IntakeAssumption DEF Settled
  <2>3. QED BY <1>2, <2>1, <2>2, Finalizes DEF AcceptAsIs
<1>8. CASE \E c \in Guesses : Suggest(t, c)
  <2>1. PICK c \in Guesses : Suggest(t, c)
    BY <1>8
  <2>2. PICK g \in Categories : g = Settled(t, c)
    BY <1>3, IntakeAssumption DEF Settled
  <2> DEFINE d == [fsm.data EXCEPT !.raw = task[t].text, !.guess = g]
  <2>3. /\ d \in Data /\ d.raw # None /\ d.guess # None
        /\ \A x \in Texts : Held(d, x) => Held(fsm.data, x) \/ task[t].text = x
    BY <1>1, <1>3, Values DEF Data, Held
  <2>4. Goto("confirm", d)
    BY <2>1, <2>2 DEF Suggest
  <2> HIDE DEF d
  <2>5. GoodForm([state |-> "confirm", data |-> d]) /\ Sound("confirm", d)
    BY <2>3 DEF GoodForm, States, Sound
  <2>6. cards' \in SUBSET Texts
    BY <1>1, <1>3, <2>1 DEF Suggest
  <2>7. QED BY <1>2, <2>1, <2>3, <2>4, <2>5, <2>6, NewForm DEF Suggest, Stop
<1>9. QED BY <1>4, <1>5, <1>6, <1>7, <1>8

LEMMA CheckSteps ==
  ASSUME TypeInv, NEW t \in Tasks, Unique(t) \/ AskQuestion(t) \/ LeaveForm(t)
  PROVE  Passes(t) /\ Plain(t)
<1>1. fsm.data \in Data /\ cards \in SUBSET Texts
  BY DEF TypeInv, GoodForm, RestInv
<1>2. /\ task[t] \in Handlers /\ GoodHandler(task[t])
      /\ Acts(t) /\ UNCHANGED <<twice, patient>>
  BY DEF TypeInv, Unique, AskQuestion, LeaveForm, Acts, Idle, Free
<1>3. CASE Unique(t)
  <2>1. /\ task[t].category \in Categories /\ task[t].text \in Texts \cup {None}
        /\ task[t].shown \in Texts \cup {None} /\ task[t].phase # "filed"
    BY <1>2, <1>3 DEF Unique, GoodHandler, Handlers
  <2>2. QED BY <1>2, <1>3, <2>1, Files DEF Unique
<1>4. CASE AskQuestion(t)
  <2> DEFINE y == [category |-> task[t].category, text |-> task[t].text,
                   cands |-> task[t].cands]
             d == [fsm.data EXCEPT !.draft = y]
  <2>1. /\ task[t].category \in Categories /\ task[t].text \in Texts
        /\ task[t].cands \subseteq Rows /\ task[t].phase # "filed"
    BY <1>2, <1>4 DEF AskQuestion, GoodHandler, Handlers
  <2>2. y \in Drafts /\ y.text = task[t].text
    BY <2>1 DEF Drafts
  <2> HIDE DEF y
  <2>3. /\ d \in Data /\ d.draft # None
        /\ \A x \in Texts : Held(d, x) => Held(fsm.data, x) \/ task[t].text = x
    BY <1>1, <2>2, Values DEF Data, Held
  <2>4. Goto("clarify", d)
    BY <1>4 DEF AskQuestion, y
  <2> HIDE DEF d
  <2>5. GoodForm([state |-> "clarify", data |-> d]) /\ Sound("clarify", d)
    BY <2>3 DEF GoodForm, States, Sound
  <2>6. QED BY <1>1, <1>2, <1>4, <2>1, <2>3, <2>4, <2>5, NewForm DEF AskQuestion, Stop
<1>5. CASE LeaveForm(t)
  BY <1>2, <1>5, Cleared DEF LeaveForm, Stop
<1>6. QED BY <1>3, <1>4, <1>5

(* The steps that ask about a duplicate.                                   *)
LEMMA DuplicateStep ==
  ASSUME TypeInv, NEW t \in Tasks, NEW i \in Rows, Duplicate(t, i)
  PROVE  /\ Passes(t) /\ past' = past /\ task'[t].phase = "free"
         /\ fsm'.state = "decide" /\ fsm'.data = [fsm.data EXCEPT !.dup = i]
<1>1. fsm.data \in Data /\ cards \in SUBSET Texts
  BY DEF TypeInv, GoodForm, RestInv
<1> DEFINE d == [fsm.data EXCEPT !.dup = i]
<1>2. d \in Data /\ \A x \in Texts : Held(d, x) => Held(fsm.data, x)
  BY <1>1 DEF Data, Held
<1>3. Goto("decide", d)
  BY DEF Duplicate
<1> HIDE DEF d
<1>4. GoodForm([state |-> "decide", data |-> d])
  BY <1>2 DEF GoodForm, States
<1>5. Passes(t)
  <2>1. task[t].phase # "filed" /\ Acts(t) /\ UNCHANGED <<twice, patient>>
    BY DEF Duplicate, Acts, Idle, Free
  <2>2. QED BY <1>1, <1>2, <1>3, <1>4, <2>1, NewForm DEF Duplicate, Stop
<1>6. fsm'.state = "decide" /\ fsm'.data = d
  BY <1>3 DEF Goto
<1>7. past' = past /\ task'[t].phase = "free"
  BY DEF Duplicate, Stop, Free, TypeInv
<1>8. QED BY <1>5, <1>6, <1>7 DEF d

LEMMA AnswerStep ==
  ASSUME TypeInv, NEW t \in Tasks, Answer(t)
  PROVE  /\ Passes(t)
         /\ \/ Plain(t)
            \/ /\ fsm' = fsm /\ fsm.state = "clarify" /\ fsm.data.draft # None
               /\ task'[t].phase = "recheck" => task'[t].cands \cap past' = {}
<1>1. /\ fsm.data \in Data /\ fsm.data.draft \in Drafts \cup {None}
      /\ task[t].phase = "free" /\ Idle(t) /\ Acts(t) /\ Share(t)
  BY DEF TypeInv, GoodForm, Data, Answer, Ready, Acts, Idle, Free
<1>2. CASE ~(approved /\ fsm.data.draft # None)
  <2>1. Clear /\ UNCHANGED <<task, past>>
    BY <1>2 DEF Answer
  <2>2. QED BY <1>1, <2>1, Cleared DEF Answer
<1>3. CASE approved /\ fsm.data.draft # None
  <2> DEFINE d == fsm.data.draft
             cands == d.cands \cap Candidates(d.category)
  <2>1. d \in Drafts /\ d.text \in Texts /\ d.cands \subseteq Rows /\ Held(fsm.data, d.text)
    BY <1>1, <1>3 DEF Drafts, Held
  <2>2. cands \subseteq Rows /\ past' = d.cands \cap Completed /\ cands \cap past' = {}
    BY <1>3, <2>1, Candidate DEF Answer
  <2>3. Recheck(t, d, cands) /\ UNCHANGED <<fsm, typed>> /\ fsm.state = "clarify"
    BY <1>3 DEF Answer
  <2>4. UNCHANGED <<requests, approved, count, cards, patient>>
    BY DEF Answer
  <2> HIDE DEF d, cands
  <2>5. PICK h : /\ GoodHandler(h) /\ task' = [task EXCEPT ![t] = h]
                 /\ h.phase \in {"recheck", "create"} /\ h.text = d.text
                 /\ h.cands \subseteq cands
    BY <2>1, <2>2, <2>3, RecheckType
  <2>6. /\ task' \in [Tasks -> Handlers] /\ task'[t] = h
        /\ \A u \in Tasks \ {t} : task'[u] = task[u]
    BY <2>5, Handed
  <2>7. Marks(t) /\ GoodForm(fsm') /\ RestInv'
    <3>1. Marks(t) /\ twice' \subseteq Texts
      BY <1>1, <2>6, Marked
    <3>2. QED BY <2>1, <2>2, <2>3, <2>4, <3>1 DEF TypeInv, RestInv
  <2>8. Passes(t)
    BY <1>1, <2>1, <2>3, <2>4, <2>5, <2>6, <2>7 DEF Passes
  <2>9. QED BY <1>3, <2>2, <2>3, <2>5, <2>6, <2>8
<1>4. QED BY <1>2, <1>3

-----------------------------------------------------------------------------
(* Types, for any handlers.                                                *)

LEMMA PassesType ==
  ASSUME TypeInv, NEW t \in Tasks, Passes(t)
  PROVE  TypeInv'
<1>1. GoodForm(fsm') /\ RestInv' /\ requests' = requests
  BY DEF Passes
<1>2. task' \in [Tasks -> Handlers] /\ \A u \in Tasks : GoodHandler(task'[u])
  BY DEF Passes, TypeInv
<1>3. QED BY <1>1, <1>2 DEF TypeInv, TableInv

(* A description is typed.                                                 *)
LEMMA DescribeStep ==
  ASSUME TypeInv, NEW t \in Tasks, Describe(t)
  PROVE  /\ TypeInv' /\ Idle(t) /\ Acts(t) /\ count' = count + 1 /\ count' \in Texts
         /\ typed' = typed \cup {count'}
         /\ UNCHANGED <<fsm, requests, past, twice, patient>>
         /\ task'[t].phase = "classify" /\ task'[t].text = count'
         /\ \A u \in Tasks \ {t} : task'[u] = task[u]
<1>1. /\ Idle(t) /\ Acts(t) /\ count' = count + 1 /\ typed' = typed \cup {count'}
      /\ UNCHANGED <<fsm, requests, approved, cards, past, twice, patient>>
  BY DEF Describe, Ready, Acts
<1>2. count' \in Texts /\ count' \in 0..MaxTexts
  <2>1. count \in Nat /\ count < MaxTexts
    BY IntakeAssumption DEF TypeInv, RestInv, Describe
  <2>2. QED BY <1>1, <2>1, IntakeAssumption DEF Texts
<1>3. fsm.data.category \in Categories \cup {None}
  BY DEF TypeInv, GoodForm, Data
<1> DEFINE h == [Free EXCEPT !.phase = "classify", !.text = count',
                             !.category = fsm.data.category]
<1>4. task' = [task EXCEPT ![t] = h]
  BY DEF Describe
<1>5. GoodHandler(h) /\ h.phase = "classify" /\ h.text = count'
  BY <1>2, <1>3 DEF GoodHandler, Handlers, Free
<1> HIDE DEF h
<1>6. /\ task' \in [Tasks -> Handlers] /\ task'[t] = h
      /\ \A u \in Tasks \ {t} : task'[u] = task[u]
  BY <1>4, <1>5, Handed
<1>7. RestInv'
  BY <1>1, <1>2 DEF TypeInv, RestInv
<1>8. GoodForm(fsm') /\ TableInv'
  BY <1>1 DEF TypeInv, TableInv
<1>9. \A u \in Tasks : GoodHandler(task'[u])
  BY <1>5, <1>6 DEF TypeInv
<1>10. QED BY <1>1, <1>2, <1>5, <1>6, <1>7, <1>8, <1>9 DEF TypeInv

(* A request is committed.                                                 *)
LEMMA CreateStep ==
  ASSUME TypeInv, NEW t \in Tasks, Create(t)
  PROVE  /\ TypeInv' /\ Acts(t) /\ UNCHANGED <<fsm, count, typed, past, twice, patient>>
         /\ requests' = Append(requests, Row(task[t]))
         /\ Row(task[t]) \in Requests /\ Row(task[t]).text = task[t].text
         /\ task[t].phase = "create"
         /\ task'[t].phase = "filed" /\ task'[t].text = task[t].text
         /\ \A u \in Tasks \ {t} : task'[u] = task[u]
<1>1. /\ task[t] \in Handlers /\ task[t].category \in Categories
      /\ task[t].phase = "create" /\ Acts(t)
  BY DEF Create, TypeInv, GoodHandler, Acts, Idle, Free
<1>2. Row(task[t]) \in Requests /\ Row(task[t]).text = task[t].text
  BY <1>1 DEF Row, Requests, Handlers
<1>3. requests' = Append(requests, Row(task[t])) /\ Len(requests) < MaxRows
      /\ UNCHANGED <<fsm, approved, count, typed, cards, past, twice, patient>>
  BY DEF Create
<1>4. TableInv'
  BY <1>2, <1>3, IntakeAssumption DEF TypeInv, TableInv
<1> DEFINE h == [task[t] EXCEPT !.phase = "filed"]
<1>5. task' = [task EXCEPT ![t] = h]
  BY DEF Create
<1>6. GoodHandler(h) /\ h.phase = "filed" /\ h.text = task[t].text
  BY <1>1 DEF GoodHandler, Handlers
<1> HIDE DEF h
<1>7. /\ task' \in [Tasks -> Handlers] /\ task'[t] = h
      /\ \A u \in Tasks \ {t} : task'[u] = task[u]
  BY <1>5, <1>6, Handed
<1>8. \A u \in Tasks : GoodHandler(task'[u])
  BY <1>6, <1>7 DEF TypeInv
<1>9. GoodForm(fsm') /\ RestInv'
  BY <1>3 DEF TypeInv, RestInv
<1>10. QED BY <1>1, <1>2, <1>3, <1>4, <1>6, <1>7, <1>8, <1>9 DEF TypeInv

(* A handler is cut off, or all of them are.                               *)
LEMMA RaiseStep ==
  ASSUME TypeInv, NEW t \in Tasks, Raise(t)
  PROVE  /\ TypeInv' /\ Acts(t) /\ UNCHANGED <<fsm, requests, count, typed, past, patient>>
         /\ twice' = twice \cup FiledBy({t}) /\ task'[t] = Free
         /\ \A u \in Tasks \ {t} : task'[u] = task[u]
<1>1. /\ UNCHANGED <<fsm, requests, approved, count, typed, cards, past, patient>>
      /\ twice' = twice \cup FiledBy({t}) /\ task' = [task EXCEPT ![t] = Free]
      /\ Acts(t)
  BY DEF Raise, Stop, Acts
<1>2. FiledBy({t}) \subseteq Texts
  BY DEF FiledBy, TypeInv, Handlers
<1>3. /\ task' \in [Tasks -> Handlers] /\ task'[t] = Free
      /\ \A u \in Tasks \ {t} : task'[u] = task[u]
  BY <1>1, Values, Handed
<1>4. \A u \in Tasks : GoodHandler(task'[u])
  BY <1>3, Values DEF TypeInv
<1>5. GoodForm(fsm') /\ TableInv' /\ RestInv'
  BY <1>1, <1>2 DEF TypeInv, TableInv, RestInv
<1>6. QED BY <1>1, <1>3, <1>4, <1>5 DEF TypeInv

LEMMA RestartStep ==
  ASSUME TypeInv, Restart
  PROVE  /\ TypeInv' /\ UNCHANGED <<requests, count, past, patient>>
         /\ \A t \in Tasks : task'[t] = Free
         /\ \/ fsm' = [state |-> "none", data |-> Empty] /\ typed' = {} /\ twice' = twice
            \/ UNCHANGED <<fsm, typed>> /\ twice' = twice \cup FiledBy(Tasks)
<1>1. /\ UNCHANGED <<requests, approved, count, cards, past, patient>>
      /\ task' = [t \in Tasks |-> Free]
      /\ \/ fsm' = [state |-> "none", data |-> Empty] /\ typed' = {} /\ twice' = twice
         \/ UNCHANGED <<fsm, typed>> /\ twice' = twice \cup FiledBy(Tasks)
  BY DEF Restart, Clear, Goto
<1>2. FiledBy(Tasks) \subseteq Texts
  BY DEF FiledBy, TypeInv, Handlers
<1>3. /\ task' \in [Tasks -> Handlers]
      /\ \A t \in Tasks : task'[t] = Free /\ GoodHandler(task'[t])
  BY <1>1, Values DEF GoodHandler
<1>4. GoodForm([state |-> "none", data |-> Empty])
  BY Values DEF GoodForm, States
<1>5. GoodForm(fsm') /\ TableInv'
  BY <1>1, <1>4 DEF TypeInv, TableInv
<1>6. RestInv'
  BY <1>1, <1>2 DEF TypeInv, RestInv
<1>7. QED BY <1>1, <1>3, <1>5, <1>6 DEF TypeInv

(* The neighbours, the workers and the chairman.                           *)
LEMMA OthersStep ==
  ASSUME TypeInv,
         Revoke \/ (\E c \in Others : NeighbourFiles(c))
                \/ (\E i \in DOMAIN requests : Complete(i))
  PROVE  /\ TypeInv' /\ UNCHANGED <<fsm, task, count, typed, past, twice, patient>>
         /\ DOMAIN requests \subseteq DOMAIN requests'
         /\ \A i \in DOMAIN requests : requests'[i].text = requests[i].text
         /\ \A i \in DOMAIN requests' \ DOMAIN requests : requests'[i].text = None
<1>1. requests \in Seq(Requests) /\ Len(requests) <= MaxRows
  BY DEF TypeInv, TableInv
<1>2. CASE Revoke
  BY <1>2 DEF Revoke, TypeInv, TableInv, RestInv
<1>3. CASE \E c \in Others : NeighbourFiles(c)
  <2>1. PICK c \in Others : NeighbourFiles(c)
    BY <1>3
  <2> DEFINE row == [category |-> c, text |-> None, shown |-> None, open |-> TRUE]
  <2>2. row \in Requests /\ row.text = None
    BY <2>1, IntakeAssumption DEF Requests
  <2>3. requests' = Append(requests, row) /\ Len(requests) < MaxRows
        /\ UNCHANGED <<fsm, task, approved, count, typed, cards, past, twice, patient>>
    BY <2>1 DEF NeighbourFiles
  <2> HIDE DEF row
  <2>4. TableInv'
    BY <1>1, <2>2, <2>3, IntakeAssumption DEF TableInv
  <2>5. /\ DOMAIN requests \subseteq DOMAIN requests'
        /\ \A i \in DOMAIN requests : requests'[i] = requests[i]
        /\ \A i \in DOMAIN requests' \ DOMAIN requests : requests'[i] = row
    BY <1>1, <2>2, <2>3
  <2>6. QED BY <2>2, <2>3, <2>4, <2>5 DEF TypeInv, RestInv
<1>4. CASE \E i \in DOMAIN requests : Complete(i)
  <2>1. PICK i \in DOMAIN requests : Complete(i)
    BY <1>4
  <2> DEFINE row == [requests[i] EXCEPT !.open = FALSE]
  <2>2. row \in Requests /\ row.text = requests[i].text
    <3>1. requests[i] \in Requests
      BY <1>1
    <3>2. QED BY <3>1 DEF Requests
  <2>3. requests' = [requests EXCEPT ![i] = row]
        /\ UNCHANGED <<fsm, task, approved, count, typed, cards, past, twice, patient>>
    BY <2>1 DEF Complete
  <2> HIDE DEF row
  <2>4. requests' \in Seq(Requests) /\ Len(requests') = Len(requests)
    BY <1>1, <2>2, <2>3
  <2>5. DOMAIN requests' = DOMAIN requests
        /\ \A k \in DOMAIN requests : requests'[k].text = requests[k].text
    BY <1>1, <2>2, <2>3
  <2>6. QED BY <1>1, <2>3, <2>4, <2>5 DEF TypeInv, TableInv, RestInv
<1>5. QED BY <1>2, <1>3, <1>4

(* Every step of the chat is one of those above.                           *)
LEMMA Steps ==
  ASSUME TypeInv, Next
  PROVE  \/ \E t \in Tasks : Passes(t) /\ Plain(t)
         \/ \E t \in Tasks : Describe(t) \/ Create(t) \/ Raise(t) \/ Answer(t)
         \/ \E t \in Tasks, i \in Rows : Duplicate(t, i)
         \/ Restart
         \/ Revoke \/ (\E c \in Others : NeighbourFiles(c))
                   \/ (\E i \in DOMAIN requests : Complete(i))
<1>1. CASE \E t \in Tasks : Tap(t)
  <2>1. PICK t \in Tasks : Tap(t)
    BY <1>1
  <2>2. CASE Describe(t) \/ Answer(t)
    BY <2>2
  <2>3. CASE Start(t) \/ Cancel(t) \/ ChooseTrade(t) \/ ChooseKazakhdomofon(t)
               \/ ChooseCleaning(t) \/ Recategorize(t) \/ OpenDuplicate(t)
    BY <2>3, BeginSteps
  <2>4. CASE ChooseSecurity(t) \/ ChooseArea(t) \/ ChooseTemplate(t) \/ SendMedia(t)
               \/ ForceWeak(t) \/ CreateAnyway(t) \/ (\E k \in Texts : Confirm(t, k))
    BY <2>4, FilingSteps
  <2>5. QED BY <2>1, <2>2, <2>3, <2>4 DEF Tap
<1>2. CASE \E t \in Tasks : Resume(t)
  <2>1. PICK t \in Tasks : Resume(t)
    BY <1>2
  <2>2. CASE Create(t) \/ Raise(t) \/ (\E i \in Rows : Duplicate(t, i))
    BY <2>2
  <2>3. CASE Unclassified(t) \/ OffTopic(t) \/ NeedsDetail(t)
               \/ (\E c \in Guesses : AcceptAsIs(t, c) \/ Suggest(t, c))
    BY <2>3, ClassifySteps
  <2>4. CASE Unique(t) \/ AskQuestion(t) \/ LeaveForm(t)
    BY <2>4, CheckSteps
  <2>5. QED BY <2>1, <2>2, <2>3, <2>4 DEF Resume
<1>3. QED BY <1>1, <1>2 DEF Next

LEMMA TypeInit ==
  ASSUME Init
  PROVE  TypeInv
<1>1. GoodForm(fsm)
  BY Values DEF Init, GoodForm, States
<1>2. task \in [Tasks -> Handlers] /\ \A t \in Tasks : GoodHandler(task[t])
  BY Values DEF Init, GoodHandler
<1>3. TableInv /\ RestInv
  BY IntakeAssumption DEF Init, TableInv, RestInv
<1>4. QED BY <1>1, <1>2, <1>3 DEF TypeInv

LEMMA TypeNext ==
  ASSUME TypeInv, [Next]_vars
  PROVE  TypeInv'
<1>1. CASE UNCHANGED vars
  BY <1>1 DEF vars, TypeInv, TableInv, RestInv
<1>2. CASE Next
  BY <1>2, Steps, PassesType, DescribeStep, CreateStep, RaiseStep, AnswerStep,
     DuplicateStep, RestartStep, OthersStep
<1>3. QED BY <1>1, <1>2

(* Every variable keeps its type, and a handler that is about to file has  *)
(* a category: for any number of handlers, overlapping or not.             *)
THEOREM TypeCorrect == Spec => []TypeOK
<1>1. Init => TypeInv
  BY TypeInit
<1>2. TypeInv /\ [Next]_vars => TypeInv'
  BY TypeNext
<1>3. TypeInv => TypeOK
  BY DEF TypeInv, TypeOK, GoodForm, GoodHandler, TableInv, RestInv
<1>4. QED BY <1>1, <1>2, <1>3, PTL DEF Spec

-----------------------------------------------------------------------------
(* The form, the handlers and the table.                                   *)

(* While the resident waits for answers his handlers run one at a time.    *)
AloneInv == patient => \A t, u \in Tasks : ~Idle(t) /\ ~Idle(u) => t = u

(* Every text is one he has typed, ...                                     *)
KnownInv ==
  /\ typed \subseteq 1..count
  /\ \A x \in Texts : Held(fsm.data, x) => x \in 1..count
  /\ \A t \in Tasks : task[t].text \in (1..count) \cup {None}
  /\ \A i \in DOMAIN requests : requests[i].text \in (1..count) \cup {None}

(* ... since the form was begun, if he waits for answers.                  *)
TypedInv ==
  patient => /\ \A x \in Texts : Held(fsm.data, x) => x \in typed
             /\ \A t \in Tasks : task[t].text \in typed \cup {None}

(* No request in the table has the text x, or x may be filed twice.        *)
Fresh(x) == x \in twice \/ \A i \in DOMAIN requests : requests[i].text # x

(* One handler has a text, or it may be filed twice.                       *)
SoleInv ==
  \A x \in Texts, t, u \in Tasks :
    task[t].text = x /\ task[u].text = x => x \in twice \/ t = u

(* A text of the form or of a handler is still to be filed, unless a       *)
(* handler has just done so and is about to clear the form.                *)
Filing(x) == \E t \in Tasks : task[t].phase = "filed" /\ task[t].text = x
HeldInv ==
  \A x \in Texts :
    Held(fsm.data, x) \/ (\E t \in Tasks : task[t].text = x) => Fresh(x) \/ Filing(x)

(* A handler compares again only with requests that were open when the     *)
(* question was answered, and the question is still in the form.           *)
BlockInv ==
  /\ CompletedNeverBlock
  /\ patient => \A t \in Tasks : task[t].phase = "recheck" =>
       /\ fsm.state = "clarify" /\ fsm.data.draft # None
       /\ task[t].cands \cap past = {}

TextInv == KnownInv /\ TypedInv /\ SoleInv /\ HeldInv /\ FiledOnce
Inv == TypeInv /\ FormComplete /\ AloneInv /\ BlockInv /\ TextInv

(* Nobody else is at work while a handler acts for one who waits.          *)
LEMMA Alone ==
  ASSUME AloneInv, NEW t \in Tasks, Acts(t), patient, NEW u \in Tasks \ {t}
  PROVE  task[u] = Free /\ Free.phase = "free" /\ Free.text = None
BY DEF AloneInv, Acts, Ready, Idle, Free

LEMMA StillAlone ==
  ASSUME AloneInv, NEW t \in Tasks, Acts(t), patient' = patient,
         \A u \in Tasks \ {t} : task'[u] = task[u]
  PROVE  AloneInv'
<1>1. SUFFICES ASSUME patient', NEW u \in Tasks \ {t}
               PROVE  task'[u] = Free
  BY DEF AloneInv, Idle
<1>2. QED BY <1>1, Alone

(* A step that passes texts on changes nothing about them.                 *)
LEMMA PassesText ==
  ASSUME Inv, NEW t \in Tasks, Passes(t)
  PROVE  AloneInv' /\ TextInv'
<1>1. /\ UNCHANGED <<requests, count, patient>> /\ Acts(t)
      /\ \A u \in Tasks \ {t} : task'[u] = task[u]
      /\ task'[t].text \in Texts \cup {None} /\ twice \subseteq twice'
  BY DEF Passes, Marks, Handlers
<1>2. \A x \in Texts : Held(fsm'.data, x) \/ task'[t].text = x =>
        /\ Held(fsm.data, x) \/ task[t].text = x
        /\ typed' = typed /\ task[t].phase # "filed"
  BY DEF Passes
<1>3. AloneInv'
  BY <1>1, StillAlone DEF Inv
<1>4. KnownInv'
  <2>1. typed' \subseteq 1..count
    BY DEF Passes, Inv, TextInv, KnownInv
  <2>2. \A x \in Texts : Held(fsm.data, x) \/ task[t].text = x => x \in 1..count
    BY Values DEF Inv, TextInv, KnownInv
  <2>3. \A x \in Texts : Held(fsm'.data, x) => x \in 1..count
    BY <1>2, <2>2
  <2>4. task'[t].text \in (1..count) \cup {None}
    BY <1>1, <1>2, <2>2
  <2>5. \A u \in Tasks : task'[u].text \in (1..count) \cup {None}
    BY <1>1, <2>4 DEF Inv, TextInv, KnownInv
  <2>6. QED BY <1>1, <2>1, <2>3, <2>5 DEF Inv, TextInv, KnownInv
<1>5. TypedInv'
  <2>1. SUFFICES ASSUME patient'
                 PROVE  /\ \A x \in Texts : Held(fsm'.data, x) => x \in typed'
                        /\ \A u \in Tasks : task'[u].text \in typed' \cup {None}
    BY DEF TypedInv
  <2>2. patient
    BY <1>1, <2>1
  <2>3. \A x \in Texts : Held(fsm.data, x) \/ task[t].text = x => x \in typed
    BY <2>2, Values DEF Inv, TextInv, TypedInv
  <2>4. \A u \in Tasks \ {t} : task'[u].text = None
    BY <1>1, <2>2, Alone DEF Inv
  <2>5. QED BY <1>1, <1>2, <2>3, <2>4
<1>6. SoleInv'
  <2>1. \A x \in Texts : task'[t].text = x =>
          task[t].text = x \/ x \in twice' \/ \A u \in Tasks \ {t} : task[u].text # x
    BY DEF Passes, Marks
  <2>2. \A x \in Texts, u \in Tasks \ {t} :
          task'[t].text = x /\ task'[u].text = x => x \in twice'
    BY <1>1, <2>1 DEF Inv, TextInv, SoleInv
  <2>3. QED BY <1>1, <2>2 DEF Inv, TextInv, SoleInv
<1>7. HeldInv'
  <2>1. SUFFICES ASSUME NEW x \in Texts,
                        Held(fsm'.data, x) \/ (\E u \in Tasks : task'[u].text = x)
                 PROVE  Fresh(x)' \/ Filing(x)'
    BY DEF HeldInv
  <2>2. Fresh(x) => Fresh(x)'
    BY <1>1 DEF Fresh
  <2>3. ASSUME NEW v \in Tasks \ {t}, task[v].phase = "filed", task[v].text = x
        PROVE  Filing(x)'
    BY <1>1, <2>3 DEF Filing
  <2>4. CASE Held(fsm'.data, x) \/ task'[t].text = x
    BY <1>2, <2>2, <2>3, <2>4 DEF Inv, TextInv, HeldInv, Filing
  <2>5. CASE \E u \in Tasks \ {t} : task'[u].text = x
    <3>1. PICK u \in Tasks \ {t} : task[u].text = x
      BY <1>1, <2>5
    <3>2. Fresh(x) \/ Filing(x)
      BY <3>1 DEF Inv, TextInv, HeldInv
    <3>3. task[t].text = x => Fresh(x)
      BY <3>1 DEF Inv, TextInv, SoleInv, Fresh
    <3>4. QED BY <2>2, <2>3, <3>2, <3>3 DEF Filing
  <2>6. QED BY <2>1, <2>4, <2>5
<1>8. FiledOnce'
  BY <1>1 DEF Inv, TextInv, FiledOnce
<1>9. QED BY <1>3, <1>4, <1>5, <1>6, <1>7, <1>8 DEF TextInv

LEMMA PlainInv ==
  ASSUME Inv, NEW t \in Tasks, Passes(t), Plain(t)
  PROVE  Inv'
<1>1. TypeInv' /\ GoodForm(fsm') /\ Acts(t) /\ patient' = patient
  BY PassesType DEF Inv, Passes
<1>2. FormComplete'
  BY <1>1 DEF Plain, Sound, Inv, FormComplete, GoodForm
<1>3. CompletedNeverBlock'
  BY <1>1 DEF Plain, Sound, Inv, BlockInv, CompletedNeverBlock
<1>4. ASSUME patient' PROVE \A u \in Tasks : task'[u].phase # "recheck"
  <2>1. \A u \in Tasks \ {t} : task[u].phase = "free" /\ task'[u] = task[u]
    BY <1>1, <1>4, Alone DEF Inv, Passes
  <2>2. QED BY <2>1 DEF Plain
<1>5. BlockInv'
  BY <1>3, <1>4 DEF BlockInv
<1>6. QED BY <1>1, <1>2, <1>5, PassesText DEF Inv

LEMMA DescribeInv ==
  ASSUME Inv, NEW t \in Tasks, Describe(t)
  PROVE  Inv'
<1>1. /\ TypeInv' /\ Idle(t) /\ Acts(t) /\ count' = count + 1 /\ count' \in Texts
      /\ typed' = typed \cup {count'}
      /\ UNCHANGED <<fsm, requests, past, twice, patient>>
      /\ task'[t].phase = "classify" /\ task'[t].text = count'
      /\ \A u \in Tasks \ {t} : task'[u] = task[u]
  BY DescribeStep DEF Inv
<1>2. task[t].text = None /\ task[t].phase = "free"
  BY <1>1 DEF Idle, Free
<1>3. FormComplete' /\ FiledOnce' /\ AloneInv'
  BY <1>1, StillAlone DEF Inv, TextInv, FormComplete, FiledOnce
<1>4. BlockInv'
  <2>1. CompletedNeverBlock'
    BY <1>1 DEF Inv, BlockInv, CompletedNeverBlock
  <2>2. \A u \in Tasks : task'[u].phase = "recheck" => task'[u] = task[u]
    BY <1>1
  <2>3. QED BY <1>1, <2>1, <2>2 DEF Inv, BlockInv
<1>5. count \in Nat /\ count' \notin 1..count /\ 1..count \subseteq 1..count'
      /\ count' \in 1..count' /\ count' # None
  BY <1>1, Values DEF Inv, TypeInv, RestInv
<1>6. KnownInv'
  BY <1>1, <1>5 DEF Inv, TextInv, KnownInv
<1>7. TypedInv'
  BY <1>1 DEF Inv, TextInv, TypedInv
<1>8. SoleInv'
  BY <1>1, <1>5 DEF Inv, TextInv, KnownInv, SoleInv
<1>9. \A x : (Fresh(x) => Fresh(x)') /\ (Filing(x) => Filing(x)')
  BY <1>1, <1>2 DEF Fresh, Filing
<1>10. \A x : x = count' => Fresh(x)'
  BY <1>1, <1>5 DEF Inv, TextInv, KnownInv, Fresh
<1>11. HeldInv'
  BY <1>1, <1>9, <1>10 DEF Inv, TextInv, HeldInv
<1>12. QED BY <1>1, <1>3, <1>4, <1>6, <1>7, <1>8, <1>11 DEF Inv, TextInv

LEMMA CreateInv ==
  ASSUME Inv, NEW t \in Tasks, Create(t)
  PROVE  /\ Inv'
         /\ patient => \A i \in DOMAIN requests' \ DOMAIN requests :
                         requests'[i].text \in typed \cup {None}
<1> DEFINE row == Row(task[t])
<1>1. /\ TypeInv' /\ Acts(t) /\ UNCHANGED <<fsm, count, typed, past, twice, patient>>
      /\ requests' = Append(requests, row) /\ row \in Requests
      /\ row.text = task[t].text /\ task[t].phase = "create"
      /\ task'[t].phase = "filed" /\ task'[t].text = task[t].text
      /\ \A u \in Tasks \ {t} : task'[u] = task[u]
  BY CreateStep DEF Inv
<1> HIDE DEF row
<1>2. \A u \in Tasks : task'[u].text = task[u].text
  BY <1>1
<1>3. requests \in Seq(Requests)
  BY DEF Inv, TypeInv, TableInv
<1>4. PICK n \in Nat : /\ n \notin DOMAIN requests
                       /\ DOMAIN requests' = DOMAIN requests \cup {n}
                       /\ \A i \in DOMAIN requests : requests'[i] = requests[i]
                       /\ requests'[n] = row
  <2>1. /\ Len(requests) + 1 \in Nat
        /\ Len(requests) + 1 \notin DOMAIN requests
        /\ DOMAIN requests' = DOMAIN requests \cup {Len(requests) + 1}
        /\ \A i \in DOMAIN requests : requests'[i] = requests[i]
        /\ requests'[Len(requests) + 1] = row
    BY <1>1, <1>3
  <2>2. QED BY <2>1
<1>5. /\ row.text \in (1..count) \cup {None}
      /\ patient => row.text \in typed \cup {None}
  BY <1>1 DEF Inv, TextInv, KnownInv, TypedInv
<1>6. FormComplete' /\ AloneInv' /\ TypedInv' /\ SoleInv'
  BY <1>1, <1>2, StillAlone DEF Inv, TextInv, FormComplete, TypedInv, SoleInv
<1>7. BlockInv'
  <2>1. CompletedNeverBlock'
    BY <1>1 DEF Inv, BlockInv, CompletedNeverBlock
  <2>2. \A u \in Tasks : task'[u].phase = "recheck" => task'[u] = task[u]
    BY <1>1
  <2>3. QED BY <1>1, <2>1, <2>2 DEF Inv, BlockInv
<1>8. KnownInv'
  BY <1>1, <1>2, <1>4, <1>5 DEF Inv, TextInv, KnownInv
<1>9. \A x : /\ Fresh(x) /\ row.text # x => Fresh(x)'
             /\ Filing(x) => Filing(x)'
  BY <1>1, <1>2, <1>4 DEF Fresh, Filing
<1>10. \A x : row.text = x => Filing(x)'
  BY <1>1 DEF Filing
<1>11. HeldInv'
  BY <1>1, <1>2, <1>9, <1>10 DEF Inv, TextInv, HeldInv
<1>12. row.text \in Texts => Fresh(row.text)
  <2>1. SUFFICES ASSUME row.text \in Texts, Filing(row.text)
                 PROVE  row.text \in twice
    BY <1>1 DEF Inv, TextInv, HeldInv, Fresh
  <2>2. PICK u \in Tasks : task[u].phase = "filed" /\ task[u].text = row.text
    BY <2>1 DEF Filing
  <2>3. QED BY <1>1, <2>1, <2>2 DEF Inv, TextInv, SoleInv
<1>13. \A i, k \in DOMAIN requests :
         i # k /\ requests[i].text \in Texts \ twice => requests[i].text # requests[k].text
  BY DEF Inv, TextInv, FiledOnce
<1>14. \A i, k \in DOMAIN requests' :
         i # k /\ requests'[i].text \in Texts \ twice => requests'[i].text # requests'[k].text
  BY <1>4, <1>12, <1>13 DEF Fresh
<1>15. FiledOnce'
  BY <1>1, <1>14 DEF FiledOnce
<1>16. QED BY <1>1, <1>4, <1>5, <1>6, <1>7, <1>8, <1>11, <1>15 DEF Inv, TextInv

(* A handler that is cut off after the COMMIT has its text in twice.       *)
LEMMA RaiseInv ==
  ASSUME Inv, NEW t \in Tasks, Raise(t)
  PROVE  Inv'
<1>1. /\ TypeInv' /\ Acts(t) /\ UNCHANGED <<fsm, requests, count, typed, past, patient>>
      /\ twice' = twice \cup FiledBy({t}) /\ task'[t] = Free
      /\ \A u \in Tasks \ {t} : task'[u] = task[u]
  BY RaiseStep DEF Inv
<1>2. Free.text = None /\ Free.phase = "free"
  BY DEF Free
<1>3. FormComplete' /\ AloneInv' /\ FiledOnce'
  BY <1>1, StillAlone DEF Inv, TextInv, FormComplete, FiledOnce
<1>4. \A u \in Tasks : task'[u].text = None \/ task'[u].text = task[u].text
  BY <1>1, <1>2
<1>5. KnownInv' /\ TypedInv'
  BY <1>1, <1>4 DEF Inv, TextInv, KnownInv, TypedInv
<1>6. SoleInv'
  BY <1>1, <1>4, Values DEF Inv, TextInv, SoleInv
<1>7. BlockInv'
  <2>1. CompletedNeverBlock'
    BY <1>1 DEF Inv, BlockInv, CompletedNeverBlock
  <2>2. \A u \in Tasks : task'[u].phase = "recheck" => task'[u] = task[u]
    BY <1>1, <1>2
  <2>3. QED BY <1>1, <2>1, <2>2 DEF Inv, BlockInv
<1>8. HeldInv'
  <2>1. SUFFICES ASSUME NEW x \in Texts,
                        Held(fsm'.data, x) \/ (\E u \in Tasks : task'[u].text = x)
                 PROVE  Fresh(x)' \/ Filing(x)'
    BY DEF HeldInv
  <2>2. Fresh(x) \/ Filing(x)
    BY <1>1, <1>4, <2>1, Values DEF Inv, TextInv, HeldInv
  <2>3. Fresh(x) => Fresh(x)'
    BY <1>1 DEF Fresh
  <2>4. ASSUME Filing(x) PROVE Fresh(x)' \/ Filing(x)'
    <3>1. PICK u \in Tasks : task[u].phase = "filed" /\ task[u].text = x
      BY <2>4 DEF Filing
    <3>2. CASE u = t
      <4>1. x \in FiledBy({t})
        BY <3>1, <3>2, Values DEF FiledBy
      <4>2. QED BY <1>1, <4>1 DEF Fresh
    <3>3. CASE u # t
      BY <1>1, <3>1, <3>3 DEF Filing
    <3>4. QED BY <3>2, <3>3
  <2>5. QED BY <2>2, <2>3, <2>4
<1>9. QED BY <1>1, <1>3, <1>5, <1>6, <1>7, <1>8 DEF Inv, TextInv

LEMMA RestartInv ==
  ASSUME Inv, Restart
  PROVE  Inv'
<1>1. /\ TypeInv' /\ UNCHANGED <<requests, count, past, patient>>
      /\ \A t \in Tasks : task'[t] = Free
      /\ \/ fsm' = [state |-> "none", data |-> Empty] /\ typed' = {} /\ twice' = twice
         \/ UNCHANGED <<fsm, typed>> /\ twice' = twice \cup FiledBy(Tasks)
  BY RestartStep DEF Inv
<1>2. Free.text = None /\ Free.phase = "free"
  BY DEF Free
<1>3. \A x \in Texts : ~Held(Empty, x)
  BY Values DEF Held, Empty
<1>4. FormComplete'
  BY <1>1 DEF Inv, FormComplete
<1>5. BlockInv' /\ AloneInv' /\ SoleInv'
  BY <1>1, <1>2, Values DEF Inv, BlockInv, CompletedNeverBlock, AloneInv, Idle, SoleInv
<1>6. KnownInv'
  BY <1>1, <1>2, <1>3 DEF Inv, TextInv, KnownInv
<1>7. TypedInv'
  BY <1>1, <1>2, <1>3 DEF Inv, TextInv, TypedInv
<1>8. FiledOnce'
  BY <1>1 DEF Inv, TextInv, FiledOnce
<1>9. \A x \in Texts : Filing(x) => x \in FiledBy(Tasks)
  BY Values DEF FiledBy, Filing
<1>10. \A x \in Texts : Held(fsm.data, x) => Fresh(x) \/ x \in FiledBy(Tasks)
  BY <1>9 DEF Inv, TextInv, HeldInv
<1>11. \A x \in Texts : Held(fsm'.data, x) => Fresh(x)'
  BY <1>1, <1>3, <1>10 DEF Fresh
<1>12. HeldInv'
  BY <1>1, <1>2, <1>11, Values DEF HeldInv
<1>13. QED BY <1>1, <1>4, <1>5, <1>6, <1>7, <1>8, <1>12 DEF Inv, TextInv

LEMMA AnswerInv ==
  ASSUME Inv, NEW t \in Tasks, Answer(t)
  PROVE  Inv'
<1>1. CASE Plain(t)
  BY <1>1, AnswerStep, PlainInv DEF Inv
<1>2. CASE ~Plain(t)
  <2>1. /\ Passes(t) /\ fsm' = fsm /\ fsm.state = "clarify" /\ fsm.data.draft # None
        /\ task'[t].phase = "recheck" => task'[t].cands \cap past' = {}
    BY <1>2, AnswerStep DEF Inv
  <2>2. /\ Acts(t) /\ patient' = patient
        /\ \A u \in Tasks \ {t} : task'[u] = task[u]
    BY <2>1 DEF Passes
  <2>3. FormComplete' /\ CompletedNeverBlock'
    BY <2>1, <2>2 DEF Inv, FormComplete, CompletedNeverBlock
  <2>4. ASSUME patient' PROVE \A u \in Tasks \ {t} : task'[u].phase = "free"
    BY <2>2, <2>4, Alone DEF Inv
  <2>5. BlockInv'
    BY <2>1, <2>3, <2>4 DEF BlockInv
  <2>6. QED BY <2>1, <2>3, <2>5, PassesType, PassesText DEF Inv
<1>3. QED BY <1>1, <1>2

LEMMA DuplicateInv ==
  ASSUME Inv, NEW t \in Tasks, NEW i \in Rows, Duplicate(t, i)
  PROVE  Inv'
<1>1. /\ Passes(t) /\ past' = past /\ task'[t].phase = "free"
      /\ fsm'.state = "decide" /\ fsm'.data = [fsm.data EXCEPT !.dup = i]
  BY DuplicateStep DEF Inv
<1>2. /\ Acts(t) /\ patient' = patient
      /\ \A u \in Tasks \ {t} : task'[u] = task[u]
  BY <1>1 DEF Passes
<1>3. fsm.data \in Data /\ (patient => fsm.data.draft # None /\ i \notin past)
  BY DEF Inv, TypeInv, GoodForm, BlockInv, Duplicate
<1>4. fsm'.data.draft = fsm.data.draft /\ fsm'.data.dup = i
  BY <1>1, <1>3 DEF Data
<1>5. i # None
  BY IntakeAssumption DEF Rows
<1>6. FormComplete' /\ CompletedNeverBlock'
  BY <1>1, <1>2, <1>3, <1>4, <1>5 DEF FormComplete, CompletedNeverBlock
<1>7. ASSUME patient' PROVE \A u \in Tasks : task'[u].phase = "free"
  BY <1>1, <1>2, <1>7, Alone DEF Inv
<1>8. BlockInv'
  BY <1>6, <1>7 DEF BlockInv
<1>9. QED BY <1>1, <1>6, <1>8, PassesType, PassesText DEF Inv

LEMMA OthersInv ==
  ASSUME Inv,
         Revoke \/ (\E c \in Others : NeighbourFiles(c))
                \/ (\E i \in DOMAIN requests : Complete(i))
  PROVE  /\ Inv'
         /\ \A i \in DOMAIN requests' \ DOMAIN requests : requests'[i].text = None
<1>1. /\ TypeInv' /\ UNCHANGED <<fsm, task, count, typed, past, twice, patient>>
      /\ DOMAIN requests \subseteq DOMAIN requests'
      /\ \A i \in DOMAIN requests : requests'[i].text = requests[i].text
      /\ \A i \in DOMAIN requests' \ DOMAIN requests : requests'[i].text = None
  BY OthersStep DEF Inv
<1>2. FormComplete' /\ BlockInv' /\ AloneInv'
  BY <1>1 DEF Inv, FormComplete, BlockInv, CompletedNeverBlock, AloneInv, Idle
<1>3. KnownInv' /\ TypedInv' /\ SoleInv'
  BY <1>1 DEF Inv, TextInv, KnownInv, TypedInv, SoleInv
<1>4. FiledOnce'
  BY <1>1, Values DEF Inv, TextInv, FiledOnce
<1>5. \A x \in Texts : (Fresh(x) => Fresh(x)') /\ (Filing(x) => Filing(x)')
  BY <1>1, Values DEF Fresh, Filing
<1>6. HeldInv'
  BY <1>1, <1>5 DEF Inv, TextInv, HeldInv
<1>7. QED BY <1>1, <1>2, <1>3, <1>4, <1>6 DEF Inv, TextInv

-----------------------------------------------------------------------------
(* The theorems.                                                           *)

LEMMA InvInit ==
  ASSUME Init
  PROVE  Inv
<1>1. TypeInv
  BY TypeInit
<1>2. \A x \in Texts : ~Held(Empty, x)
  BY Values DEF Held, Empty
<1>3. Free.text = None /\ Free.phase = "free"
  BY DEF Free
<1>4. FormComplete /\ BlockInv /\ FiledOnce /\ AloneInv
  BY <1>3 DEF Init, FormComplete, BlockInv, CompletedNeverBlock, FiledOnce, AloneInv, Idle
<1>5. KnownInv /\ TypedInv /\ SoleInv /\ HeldInv
  BY <1>2, <1>3, Values DEF Init, KnownInv, TypedInv, SoleInv, HeldInv
<1>6. QED BY <1>1, <1>4, <1>5 DEF Inv, TextInv

(* A step keeps the invariant and files what was typed in this form.       *)
LEMMA InvNext ==
  ASSUME Inv, [Next]_vars
  PROVE  /\ Inv'
         /\ patient => \A i \in DOMAIN requests' \ DOMAIN requests :
                         requests'[i].text \in typed \cup {None}
<1>1. CASE UNCHANGED vars
  <2>1. UNCHANGED <<fsm, task, requests, count, typed, past, twice, patient>>
    BY <1>1 DEF vars
  <2>2. TypeInv'
    BY <1>1, TypeNext DEF Inv
  <2>3. FormComplete' /\ BlockInv' /\ AloneInv'
    BY <2>1 DEF Inv, FormComplete, BlockInv, CompletedNeverBlock, AloneInv, Idle
  <2>4. TextInv'
    BY <2>1 DEF Inv, TextInv, KnownInv, TypedInv, SoleInv, FiledOnce, HeldInv, Fresh,
                Filing
  <2>5. QED BY <2>1, <2>2, <2>3, <2>4 DEF Inv
<1>2. CASE \E t \in Tasks : Passes(t) /\ Plain(t)
  BY <1>2, PlainInv DEF Passes
<1>3. CASE \E t \in Tasks : Describe(t)
  BY <1>3, DescribeInv DEF Describe
<1>4. CASE \E t \in Tasks : Create(t)
  BY <1>4, CreateInv
<1>5. CASE \E t \in Tasks : Raise(t)
  BY <1>5, RaiseInv DEF Raise
<1>6. CASE \E t \in Tasks : Answer(t)
  BY <1>6, AnswerInv DEF Answer
<1>7. CASE \E t \in Tasks, i \in Rows : Duplicate(t, i)
  BY <1>7, DuplicateInv DEF Duplicate
<1>8. CASE Restart
  BY <1>8, RestartInv DEF Restart
<1>9. CASE Revoke \/ (\E c \in Others : NeighbourFiles(c))
                  \/ (\E i \in DOMAIN requests : Complete(i))
  BY <1>9, OthersInv
<1>10. QED
  BY <1>1, <1>2, <1>3, <1>4, <1>5, <1>6, <1>7, <1>8, <1>9, Steps DEF Inv

LEMMA InvAlways == Spec => []Inv
<1>1. Init => Inv
  BY InvInit
<1>2. Inv /\ [Next]_vars => Inv'
  BY InvNext
<1>3. QED BY <1>1, <1>2, PTL DEF Spec

(* In every state of the form the data holds what its buttons use, with any*)
(* number of handlers at work on it; the draft behind a decision, if the   *)
(* resident waits for answers.                                             *)
THEOREM FormCorrect == Spec => []FormComplete
<1>1. Inv => FormComplete
  BY DEF Inv
<1>2. QED BY <1>1, InvAlways, PTL

(* No description is filed twice, however many handlers overlap, unless one*)
(* was cut off between the COMMIT and state.clear(), or took the text while*)
(* another had it.                                                         *)
THEOREM OnceCorrect == Spec => []FiledOnce
<1>1. Inv => FiledOnce
  BY DEF Inv, TextInv
<1>2. QED BY <1>1, InvAlways, PTL

(* Completed requests never block a creation: the one that a resident who  *)
(* waits for answers is told of was open when he answered.                 *)
THEOREM BlockCorrect == Spec => []CompletedNeverBlock
<1>1. Inv => CompletedNeverBlock
  BY DEF Inv, BlockInv
<1>2. QED BY <1>1, InvAlways, PTL

(* A request describes what was typed since its form was begun, whatever   *)
(* forms were left before it, if the resident waits for answers.           *)
THEOREM SameFormCorrect == Spec => SameForm
<1>1. Inv /\ [Next]_vars =>
        [patient => \A i \in Filed : requests'[i].text \in typed \cup {None}]_vars
  BY InvNext DEF Filed
<1>2. QED BY <1>1, InvAlways, PTL DEF Spec, SameForm
=============================================================================
