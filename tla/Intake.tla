-------------------------------- MODULE Intake --------------------------------
(***************************************************************************)
(* How one resident files requests, bot/handlers/resident.py.              *)
(*                                                                         *)
(* A form lives in the FSM state and data of his chat.  He types a         *)
(* description, which the LLM may refuse, accept or rewrite; he reviews the*)
(* rewrite on a card; the draft is compared with the open requests of its  *)
(* category and he is asked about a likely duplicate.  Special categories  *)
(* have steps of their own, and when the LLM is down he picks the category *)
(* himself.                                                                *)
(*                                                                         *)
(* Buttons stay in the chat: those of old messages can be tapped at any    *)
(* time.  Handlers are tasks, suspended while they wait for the LLM, and   *)
(* meanwhile other residents file, workers complete and dispatchers revoke.*)
(* The resident may wait for the answer to an update before he sends the   *)
(* next, or not: then his own handlers overlap on one form.                *)
(***************************************************************************)
EXTENDS Naturals, Sequences

CONSTANTS
  Tasks,     \* handlers of this chat that may run at the same time
  Others,    \* categories in which the neighbours file
  Guesses,   \* categories the LLM may name
  MaxTexts,  \* bound: descriptions he types
  MaxHasty,  \* bound: descriptions he types if his updates overlap
  MaxRows,   \* bound: requests in the table
  None

\* "plumber" stands for electrician too
Categories == {"plumber", "security", "cleaning", "kazakhdomofon"}
Texts == 1..MaxTexts                  \* a description is known by its number
Rows == 1..MaxRows                    \* ids

States == {"none", "category", "area", "media", "description", "confirm",
           "clarify", "decide"}
Drafts == [category : Categories, text : Texts, cands : SUBSET Rows]
Data == [category : Categories \cup {None},
         raw      : Texts \cup {None},        \* pending_raw
         guess    : Categories \cup {None},   \* pending_category
         weak     : Texts \cup {None},        \* weak_raw
         draft    : Drafts \cup {None},       \* duplicate_draft
         dup      : Rows \cup {None}]         \* duplicate_request_id

Requests == [category : Categories,
             text  : Texts \cup {None},       \* None: a caption, a template, a neighbour's
             shown : Texts \cup {None},       \* the text on the card that filed it
             open  : BOOLEAN]                 \* status is new or accepted

Handlers == [phase : {"free", "classify", "check", "recheck", "create", "filed"},
             text  : Texts \cup {None},
             category : Categories \cup {None},
             cands : SUBSET Rows,
             shown : Texts \cup {None}]

ASSUME IntakeAssumption ==
  /\ MaxTexts \in Nat /\ MaxHasty \in 0..MaxTexts /\ MaxRows \in Nat
  /\ Others \subseteq Categories /\ Guesses \subseteq Categories
  /\ None \notin Nat \cup Categories \cup Drafts

VARIABLES
  fsm,       \* the form
  task,      \* the handlers in flight
  requests,  \* table requests; ids are positions
  approved,  \* the resident is approved
  count,     \* descriptions typed so far
  typed,     \* those typed since the present form was begun
  cards,     \* those shown on a suggestion card
  past,      \* requests completed when he last answered a question
  twice,     \* may be filed twice: the handler was cut off before it cleared the
             \* form, or two handlers had the text at once
  patient    \* he waits for the answer to an update before he sends the next

vars == <<fsm, task, requests, approved, count, typed, cards, past, twice, patient>>

Free == [phase |-> "free", text |-> None, category |-> None, cands |-> {},
         shown |-> None]
Empty == [category |-> None, raw |-> None, guess |-> None, weak |-> None,
          draft |-> None, dup |-> None]

Init ==
  /\ fsm = [state |-> "none", data |-> Empty]
  /\ task = [t \in Tasks |-> Free]
  /\ requests = <<>>
  /\ approved = TRUE
  /\ count = 0 /\ typed = {} /\ cards = {} /\ past = {} /\ twice = {}
  /\ patient \in BOOLEAN

-----------------------------------------------------------------------------
(* Helpers.                                                                *)

Idle(t) == task[t] = Free

(* An update is taken up.  aiogram does not wait for the one before it.    *)
Ready(t) == Idle(t) /\ (patient => \A u \in Tasks : Idle(u))

(* The text that t took from the form is with another handler already.     *)
Share(t) ==
  twice' = twice \cup {x \in {task'[t].text} \ {None} :
                        \E u \in Tasks \ {t} : task[u].text = x}

Stop(t) == task' = [task EXCEPT ![t] = Free]
Goto(state, data) == fsm' = [state |-> state, data |-> data]

(* state.clear()                                                           *)
Clear == Goto("none", Empty) /\ typed' = {}

(* _duplicate_candidates; its limit of 12 is out of the bounds.            *)
Candidates(c) == {i \in DOMAIN requests : requests[i].open /\ requests[i].category = c}
Completed == {i \in DOMAIN requests : ~requests[i].open}

(* The handler goes on to file the request.                                *)
File(t, category, text, shown) ==
  task' = [task EXCEPT ![t] = [Free EXCEPT !.phase = "create", !.category = category,
                                           !.text = text, !.shown = shown]]

(* _start_duplicate_check: without candidates the LLM is not asked.        *)
Check(t, category, text, shown) ==
  IF Candidates(category) = {}
  THEN File(t, category, text, shown)
  ELSE task' = [task EXCEPT ![t] = [phase |-> "check", text |-> text,
                                    category |-> category, shown |-> shown,
                                    cands |-> Candidates(category)]]

(* _finalize_from_message loads the resident once more.                    *)
Finalize(t, category, text) ==
  IF approved THEN Check(t, category, text, None) /\ UNCHANGED <<fsm, typed>>
              ELSE Clear /\ Stop(t)
-----------------------------------------------------------------------------
(* Beginning and leaving a form.                                           *)

(* A faulty start that keeps what the form before it left in the data.     *)
StartOver(t) ==
  /\ Ready(t) /\ approved
  /\ fsm' = [fsm EXCEPT !.state = "description", !.data.category = None]
  /\ typed' = {}
  /\ UNCHANGED <<task, requests, approved, count, cards, past, twice, patient>>

(* start_request; without an LLM the category comes first.                 *)
Start(t) ==
  /\ Ready(t) /\ approved
  /\ Goto("description", Empty) \/ Goto("category", Empty)
  /\ typed' = {}
  /\ UNCHANGED <<task, requests, approved, count, cards, past, twice, patient>>

(* cancel_fsm, and every command that begins with state.clear().           *)
Cancel(t) ==
  /\ Ready(t)
  /\ Clear
  /\ UNCHANGED <<task, requests, approved, count, cards, past, twice, patient>>

-----------------------------------------------------------------------------
(* Choosing a category, an area, a template.  The buttons of a category    *)
(* work in every state.                                                    *)

ChooseTrade(t) ==
  /\ Ready(t) /\ approved
  /\ Goto("area", [fsm.data EXCEPT !.category = "plumber"])
  /\ UNCHANGED <<task, requests, approved, count, typed, cards, past, twice, patient>>

(* A faulty choice that forgets to move the form.                          *)
ChooseKazakhdomofonInPlace(t) ==
  /\ Ready(t) /\ approved
  /\ Goto(fsm.state, [Empty EXCEPT !.category = "kazakhdomofon"])
  /\ typed' = {}
  /\ UNCHANGED <<task, requests, approved, count, cards, past, twice, patient>>

ChooseKazakhdomofon(t) ==
  /\ Ready(t) /\ approved
  /\ Goto("category", [Empty EXCEPT !.category = "kazakhdomofon"])
  /\ typed' = {}
  /\ UNCHANGED <<task, requests, approved, count, cards, past, twice, patient>>

ChooseCleaning(t) ==
  /\ Ready(t) /\ approved
  /\ Goto("media", [Empty EXCEPT !.category = "cleaning"])
  /\ typed' = {}
  /\ UNCHANGED <<task, requests, approved, count, cards, past, twice, patient>>

(* A description collected before is filed at once.                        *)
ChooseSecurity(t) ==
  /\ Ready(t) /\ approved
  /\ IF fsm.data.raw # None
     THEN File(t, "security", fsm.data.raw, None) /\ UNCHANGED fsm
     ELSE /\ Goto("description", [fsm.data EXCEPT !.category = "security"])
          /\ UNCHANGED task
  /\ UNCHANGED <<requests, approved, count, typed, cards, past, patient>>
  /\ Share(t)

(* choose_service_area.                                                    *)
ChooseArea(t) ==
  /\ Ready(t) /\ approved
  /\ fsm.state = "area"
  /\ IF fsm.data.raw # None
     THEN File(t, fsm.data.category, fsm.data.raw, None) /\ UNCHANGED fsm
     ELSE Goto("description", fsm.data) /\ UNCHANGED task
  /\ UNCHANGED <<requests, approved, count, typed, cards, past, patient>>
  /\ Share(t)

(* choose_kazakhdomofon_template: Face ID needs a photo.                   *)
ChooseTemplate(t) ==
  /\ Ready(t) /\ approved
  /\ fsm.state = "category"
  /\ \/ /\ Goto("media", [Empty EXCEPT !.category = "kazakhdomofon"])
        /\ typed' = {} /\ UNCHANGED task
     \/ File(t, "kazakhdomofon", None, None) /\ UNCHANGED <<fsm, typed>>
  /\ UNCHANGED <<requests, approved, count, cards, past, twice, patient>>

(* input_request_media; what is not accepted changes nothing.              *)
SendMedia(t) ==
  /\ Ready(t)
  /\ fsm.state = "media"
  /\ IF approved /\ fsm.data.category \in {"kazakhdomofon", "cleaning"}
     THEN File(t, fsm.data.category, None, None) /\ UNCHANGED <<fsm, typed>>
     ELSE Clear /\ UNCHANGED task
  /\ UNCHANGED <<requests, approved, count, cards, past, twice, patient>>

-----------------------------------------------------------------------------
(* input_description.                                                      *)

Describe(t) ==
  /\ Ready(t)
  /\ fsm.state = "description"
  /\ count < (IF patient THEN MaxTexts ELSE MaxHasty)
  /\ count' = count + 1
  /\ typed' = typed \cup {count'}
  /\ task' = [task EXCEPT ![t] = [Free EXCEPT !.phase = "classify", !.text = count',
                                              !.category = fsm.data.category]]
  /\ UNCHANGED <<fsm, requests, approved, cards, past, twice, patient>>

Classifying(t) == task[t].phase = "classify"

(* A faulty fallback that files whether or not it has a category.          *)
FileUnclassified(t) ==
  /\ Classifying(t)
  /\ Finalize(t, task[t].category, task[t].text)
  /\ UNCHANGED <<requests, approved, count, cards, past, twice, patient>>

(* The LLM is off or failed, or did not name a category.                   *)
Unclassified(t) ==
  /\ Classifying(t)
  /\ IF task[t].category = None
     THEN /\ Goto("category", [fsm.data EXCEPT !.raw = task[t].text])
          /\ Stop(t) /\ UNCHANGED typed
     ELSE Finalize(t, task[t].category, task[t].text)
  /\ UNCHANGED <<requests, approved, count, cards, past, twice, patient>>

OffTopic(t) ==
  /\ Classifying(t)
  /\ Stop(t)
  /\ UNCHANGED <<fsm, requests, approved, count, typed, cards, past, twice, patient>>

NeedsDetail(t) ==
  /\ Classifying(t)
  /\ fsm' = [fsm EXCEPT !.data.weak = task[t].text]
  /\ Stop(t)
  /\ UNCHANGED <<requests, approved, count, typed, cards, past, twice, patient>>

(* The category he chose wins over the guess of the LLM.                   *)
Settled(t, guess) == IF task[t].category = None THEN guess ELSE task[t].category

(* Accepted, and nothing to review.                                        *)
AcceptAsIs(t, guess) ==
  /\ Classifying(t)
  /\ Finalize(t, Settled(t, guess), task[t].text)
  /\ UNCHANGED <<requests, approved, count, cards, past, twice, patient>>

(* Accepted, with a card to review.                                        *)
Suggest(t, guess) ==
  /\ Classifying(t)
  /\ Goto("confirm", [fsm.data EXCEPT !.raw = task[t].text, !.guess = Settled(t, guess)])
  /\ cards' = cards \cup {task[t].text}
  /\ Stop(t)
  /\ UNCHANGED <<requests, approved, count, typed, past, twice, patient>>

(* force_weak_description.                                                 *)
ForceWeak(t) ==
  /\ Ready(t)
  /\ fsm.state = "description" /\ fsm.data.weak # None
  /\ IF fsm.data.category = None
     THEN /\ Goto("category", [fsm.data EXCEPT !.raw = fsm.data.weak])
          /\ UNCHANGED task
     ELSE /\ approved
          /\ Check(t, fsm.data.category, fsm.data.weak, None) /\ UNCHANGED fsm
  /\ UNCHANGED <<requests, approved, count, typed, cards, past, patient>>
  /\ Share(t)

-----------------------------------------------------------------------------
(* confirm_ai_suggestion, by a button of the card that shows text k.       *)

Recategorize(t) ==
  /\ Ready(t)
  /\ fsm.state = "confirm" /\ cards # {}
  /\ Goto("category", [fsm.data EXCEPT !.category = None])
  /\ UNCHANGED <<task, requests, approved, count, typed, cards, past, twice, patient>>

Confirm(t, k) ==
  /\ Ready(t)
  /\ fsm.state = "confirm" /\ k \in cards
  /\ IF fsm.data.guess = None
     THEN Clear /\ UNCHANGED task
     ELSE /\ approved
          /\ Check(t, fsm.data.guess, fsm.data.raw, k)
          /\ UNCHANGED <<fsm, typed>>
  /\ UNCHANGED <<requests, approved, count, cards, past, patient>>
  /\ Share(t)

-----------------------------------------------------------------------------
(* Duplicates.                                                             *)

(* The LLM answers "unique", or not at all.                                *)
Unique(t) ==
  /\ task[t].phase \in {"check", "recheck"}
  /\ File(t, task[t].category, task[t].text, task[t].shown)
  /\ UNCHANGED <<fsm, requests, approved, count, typed, cards, past, twice, patient>>

(* "duplicate" or "needs_clarification": he is asked a question.           *)
AskQuestion(t) ==
  /\ task[t].phase = "check"
  /\ Goto("clarify", [fsm.data EXCEPT !.draft = [category |-> task[t].category,
                                                 text |-> task[t].text,
                                                 cands |-> task[t].cands]])
  /\ Stop(t)
  /\ UNCHANGED <<requests, approved, count, typed, cards, past, twice, patient>>

(* duplicate_clarification.  With no candidate left the LLM is not asked.  *)
Recheck(t, draft, cands) ==
  IF cands = {}
  THEN File(t, draft.category, draft.text, None)
  ELSE task' = [task EXCEPT ![t] = [phase |-> "recheck", text |-> draft.text,
                                    category |-> draft.category, shown |-> None,
                                    cands |-> cands]]

(* A faulty handler that compares with the candidates of the first check.  *)
AnswerFirstCandidates(t) ==
  /\ Ready(t)
  /\ fsm.state = "clarify"
  /\ IF approved /\ fsm.data.draft # None
     THEN /\ Recheck(t, fsm.data.draft, fsm.data.draft.cands)
          /\ past' = fsm.data.draft.cands \cap Completed
          /\ UNCHANGED <<fsm, typed>>
     ELSE Clear /\ UNCHANGED <<task, past>>
  /\ UNCHANGED <<requests, approved, count, cards, patient>>
  /\ Share(t)

Answer(t) ==
  LET d == fsm.data.draft IN
  /\ Ready(t)
  /\ fsm.state = "clarify"
  /\ IF approved /\ d # None
     THEN /\ Recheck(t, d, d.cands \cap Candidates(d.category))
          /\ past' = d.cands \cap Completed
          /\ UNCHANGED <<fsm, typed>>
     ELSE Clear /\ UNCHANGED <<task, past>>
  /\ UNCHANGED <<requests, approved, count, cards, patient>>
  /\ Share(t)

(* "duplicate" of request i, with enough confidence.                       *)
Duplicate(t, i) ==
  /\ task[t].phase = "recheck" /\ i \in task[t].cands
  /\ Goto("decide", [fsm.data EXCEPT !.dup = i])
  /\ Stop(t)
  /\ UNCHANGED <<requests, approved, count, typed, cards, past, twice, patient>>

(* resolve_duplicate: look at the other request, or file nevertheless.     *)
OpenDuplicate(t) ==
  /\ Ready(t)
  /\ fsm.state = "decide"
  /\ Clear
  /\ UNCHANGED <<task, requests, approved, count, cards, past, twice, patient>>

CreateAnyway(t) ==
  LET d == fsm.data.draft IN
  /\ Ready(t)
  /\ fsm.state = "decide"
  /\ IF approved /\ d # None
     THEN File(t, d.category, d.text, None) /\ UNCHANGED <<fsm, typed>>
     ELSE Clear /\ UNCHANGED task
  /\ UNCHANGED <<requests, approved, count, cards, past, patient>>
  /\ Share(t)

-----------------------------------------------------------------------------
(* Filing, and everyone else.                                              *)

Row(h) == [category |-> h.category, text |-> h.text, shown |-> h.shown, open |-> TRUE]

(* _persist_request commits ...                                            *)
Create(t) ==
  /\ task[t].phase = "create" /\ Len(requests) < MaxRows
  /\ requests' = Append(requests, Row(task[t]))
  /\ task' = [task EXCEPT ![t].phase = "filed"]
  /\ UNCHANGED <<fsm, approved, count, typed, cards, past, twice, patient>>

(* A faulty end that leaves the form as it is.                             *)
StayInForm(t) ==
  /\ task[t].phase = "filed"
  /\ Stop(t)
  /\ UNCHANGED <<fsm, requests, approved, count, typed, cards, past, twice, patient>>

(* ... and the form is left: state.clear().                                *)
LeaveForm(t) ==
  /\ task[t].phase = "filed"
  /\ Clear
  /\ Stop(t)
  /\ UNCHANGED <<requests, approved, count, cards, past, twice, patient>>

FiledBy(ts) == {task[t].text : t \in {x \in ts : task[x].phase = "filed"}} \ {None}

(* A call to Telegram, the database or the FSM storage fails.              *)
Raise(t) ==
  /\ ~Idle(t)
  /\ twice' = twice \cup FiledBy({t})
  /\ Stop(t)
  /\ UNCHANGED <<fsm, requests, approved, count, typed, cards, past, patient>>

(* MemoryStorage loses the form, RedisStorage keeps it.                    *)
Restart ==
  /\ task' = [t \in Tasks |-> Free]
  /\ \/ Clear /\ UNCHANGED twice
     \/ twice' = twice \cup FiledBy(Tasks) /\ UNCHANGED <<fsm, typed>>
  /\ UNCHANGED <<requests, approved, count, cards, past, patient>>

NeighbourFiles(c) ==
  /\ Len(requests) < MaxRows
  /\ requests' = Append(requests, [category |-> c, text |-> None, shown |-> None,
                                   open |-> TRUE])
  /\ UNCHANGED <<fsm, task, approved, count, typed, cards, past, twice, patient>>

Complete(i) ==
  /\ requests[i].open
  /\ requests' = [requests EXCEPT ![i].open = FALSE]
  /\ UNCHANGED <<fsm, task, approved, count, typed, cards, past, twice, patient>>

(* The chairman revokes the resident's access, or gives it back.           *)
Revoke ==
  /\ approved' = ~approved
  /\ UNCHANGED <<fsm, task, requests, count, typed, cards, past, twice, patient>>

-----------------------------------------------------------------------------
Tap(t) ==
  \/ Start(t) \/ Cancel(t)
  \/ ChooseTrade(t) \/ ChooseKazakhdomofon(t) \/ ChooseCleaning(t) \/ ChooseSecurity(t)
  \/ ChooseArea(t) \/ ChooseTemplate(t) \/ SendMedia(t)
  \/ Describe(t) \/ ForceWeak(t) \/ Recategorize(t) \/ \E k \in Texts : Confirm(t, k)
  \/ Answer(t) \/ OpenDuplicate(t) \/ CreateAnyway(t)

Resume(t) ==
  \/ Unclassified(t) \/ OffTopic(t) \/ NeedsDetail(t)
  \/ \E c \in Guesses : AcceptAsIs(t, c) \/ Suggest(t, c)
  \/ Unique(t) \/ AskQuestion(t) \/ \E i \in Rows : Duplicate(t, i)
  \/ Create(t) \/ LeaveForm(t) \/ Raise(t)

Next ==
  \/ \E t \in Tasks : Tap(t) \/ Resume(t)
  \/ Restart \/ Revoke
  \/ \E c \in Others : NeighbourFiles(c)
  \/ \E i \in DOMAIN requests : Complete(i)

Spec == Init /\ [][Next]_vars

-----------------------------------------------------------------------------
(* TypeOK: types; a handler about to file has a category, without which    *)
(* create_request raises and the report is lost.                           *)
TypeOK ==
  /\ fsm \in [state : States, data : Data]
  /\ task \in [Tasks -> Handlers]
  /\ requests \in Seq(Requests)
  /\ approved \in BOOLEAN
  /\ count \in 0..MaxTexts
  /\ typed \subseteq Texts /\ cards \subseteq Texts /\ past \subseteq Rows
  /\ twice \subseteq Texts /\ patient \in BOOLEAN
  /\ \A t \in Tasks :
       task[t].phase \in {"check", "recheck", "create"} => task[t].category \in Categories

(* FormComplete: in every state the data holds what its buttons use, also  *)
(* if handlers overlap.  choose_category works in any state and merges into*)
(* or replaces the data, so a tap on an old keyboard could leave a form    *)
(* that only fails.  The draft behind a decision is there if he waits for  *)
(* answers; a handler that comes back to a form he has left finds none.    *)
FormComplete ==
  LET d == fsm.data IN
  /\ fsm.state = "confirm" => d.raw # None /\ d.guess # None
  /\ fsm.state = "clarify" => d.draft # None
  /\ fsm.state = "decide" => d.dup # None /\ (patient => d.draft # None)
  /\ fsm.state = "area" => d.category = "plumber"
  /\ fsm.state = "media" => d.category \in {"kazakhdomofon", "cleaning"}

Filed == {i \in DOMAIN requests' : i \notin DOMAIN requests}

(* SameForm: a request describes what was typed since its form was begun,  *)
(* if he waits for answers: "a cancelled flow leaves no pending_* behind". *)
SameForm ==
  [][patient => \A i \in Filed : requests'[i].text \in typed \cup {None}]_vars

(* FiledOnce: no description is filed twice, by whichever of the seven ways*)
(* a form can end and however many handlers overlap, with two exceptions:  *)
(* its handler was cut off between the COMMIT and state.clear() and the    *)
(* form outlived it, or a handler took it from the form while another had  *)
(* it (a double tap).                                                      *)
FiledOnce ==
  \A i, k \in DOMAIN requests :
    i # k /\ requests[i].text \in Texts \ twice => requests[i].text # requests[k].text

(* CompletedNeverBlock: "Completed requests never block creation": if he   *)
(* waits for answers he is told of no duplicate that was completed before  *)
(* his own.                                                                *)
CompletedNeverBlock ==
  patient /\ fsm.state = "decide" /\ fsm.data.dup # None => fsm.data.dup \notin past

(* StaleButtonsDead: "State filter kills stale buttons": the button of a   *)
(* suggestion card files the description on that card, or nothing.  It does*)
(* not hold: no button names its card.                                     *)
StaleButtonsDead ==
  \A i \in DOMAIN requests : requests[i].shown # None => requests[i].shown = requests[i].text

=============================================================================
