----------------------------- MODULE StaffForms -----------------------------
(***************************************************************************)
(* The dialogues of the staff: announcements and adding a worker           *)
(* (bot/handlers/dispatcher.py), the review of a request by the chairman   *)
(* (bot/handlers/chairman.py).                                             *)
(*                                                                         *)
(* The forms of one person share one FSM context: one state and one        *)
(* dictionary, which a new form does not always empty.  A handler is       *)
(* chosen by the text and the state at the arrival of a message, the first *)
(* that fits in the order of registration, and reads the dictionary later. *)
(* Every step below ends at an await, where other handlers run, the same   *)
(* person's too, and where this one may be cut off.  Nothing keeps the     *)
(* updates of one person apart (main.py:38 sets no events_isolation), but  *)
(* most promises below hold only for people who wait: see patient.  One    *)
(* call of the FSM context is one step, although clear and update_data     *)
(* each make two calls of the storage.                                     *)
(*                                                                         *)
(* A report's dates and a schedule's hours have states of their own        *)
(* (modules Reports, Duty); ids of requests are not given out again here.  *)
(***************************************************************************)
EXTENDS Naturals, FiniteSets, Sequences
LOCAL INSTANCE SequencesExt

CONSTANTS
  Staff, Chairmen,    \* who is on the staff, and who of them is administrator
  AdminIds,           \* ADMIN_IDS: who of those cannot be revoked
  Requests,           \* the requests that await approval
  Texts,              \* announcements, comments: long enough to be published
  Ids,                \* Telegram ids, too short for that
  Tasks,              \* handlers running at once
  MaxUpdates,         \* bound: messages and taps, of others too
  MaxHasty,           \* bound: the same when people do not wait for answers
  MaxFailures,        \* bound: handlers cut off, restarts
  None

Labels == {"cancel", "participants", "all_requests", "announcement",
           "worker_schedules", "add_worker"}
Photo  == "photo"

ASSUME StaffFormsAssumption ==
  /\ Chairmen \subseteq Staff /\ AdminIds \subseteq Chairmen
  /\ Texts \cap (Ids \cup Labels \cup {Photo}) = {} /\ Ids \cap Labels = {}
  /\ {MaxUpdates, MaxHasty, MaxFailures} \subseteq Nat /\ MaxHasty <= MaxUpdates
  /\ None \notin Staff \cup Requests \cup Texts \cup Ids \cup Labels

Typeable == Texts \cup Ids \cup Labels \cup {Photo}
Forms    == {"none", "reject", "announce", "worker_id", "worker_category"}
Empty    == [state |-> "none", request |-> None, pending |-> None, tid |-> None]

Steps == {"cancel", "ann_start", "ann_text", "card", "ann_use", "publish",
          "ann_clear", "broadcast", "reject_start", "reject_data", "reject_ask",
          "reject_text", "reject_write", "reject_clear", "reject_tell",
          "approve", "approve_write", "approve_tell", "add_start", "add_id",
          "add_card", "add_state", "add_finish", "add_clear"}
Free  == [at |-> "idle", who |-> None, text |-> None, request |-> None,
          polished |-> FALSE]

VARIABLES
  access,     \* the role each has at present, "none" once revoked
  fsm,        \* the FSM context of each: state and data
  task,       \* the handlers: whose, how far, with what they hold
  requests,   \* approval_status; history: who reviewed, and which request
              \* the chairman had been asked about when he typed
  published,  \* the table of announcements
  heard,      \* how often a text was broadcast
  told,       \* the verdicts a resident was told
  workers,    \* accounts added as workers
  seen,       \* cards shown: the suggestions, "category"
  asked,      \* history: the request each was last asked to comment on
  cut,        \* history: whose question, which suggestion was cut off
  typed,      \* history: texts typed, each once
  updates, failures,
  patient     \* whether all send an update only after the last one's answer

vars == <<access, fsm, task, requests, published, heard, told, workers, seen,
          asked, cut, typed, updates, failures, patient>>
world == <<requests, published, heard, told, workers>>

(* The drafts a card shows, or an announcement holds.                      *)
Drafts == [text : Texts \cup Labels, polished : BOOLEAN]
Long(t) == t \in Texts \cup {"worker_schedules", "add_worker"}

TypeOK ==
  /\ access \in [Staff -> {"administrator", "dispatcher", "none"}]
  /\ fsm \in [Staff -> [state : Forms, request : Requests \cup {None},
                        pending : Texts \cup Labels \cup {None},
                        tid : Ids \cup {None}]]
  /\ \A k \in Tasks :
       task[k] = Free \/ task[k] \in [at : Steps, who : Staff,
                                      text : Typeable \cup {None},
                                      request : Requests \cup {None},
                                      polished : BOOLEAN]
  /\ requests \in [Requests -> [status : {"pending", "approved", "rejected", "deleted"},
                                by : Staff \cup {None},
                                meant : Requests \cup {None}]]
  /\ published \in Seq(Drafts) /\ heard \in [Texts \cup Labels -> Nat]
  /\ told \in [Requests -> Seq({"approved", "rejected"})]
  /\ workers \subseteq Ids
  /\ seen \in [Staff -> SUBSET (Texts \cup Labels \cup {"category"})]
  /\ asked \in [Staff -> Requests \cup {None}]
  /\ cut \subseteq Staff \cup Texts \cup Labels
  /\ typed \subseteq Texts
  /\ updates \in 0..MaxUpdates /\ failures \in 0..MaxFailures /\ patient \in BOOLEAN

Init ==
  /\ access = [s \in Staff |-> IF s \in Chairmen THEN "administrator" ELSE "dispatcher"]
  /\ fsm = [s \in Staff |-> Empty]
  /\ task = [k \in Tasks |-> Free]
  /\ requests = [r \in Requests |-> [status |-> "pending", by |-> None, meant |-> None]]
  /\ published = <<>> /\ heard = [t \in Texts \cup Labels |-> 0]
  /\ told = [r \in Requests |-> <<>>]
  /\ workers = {}
  /\ seen = [s \in Staff |-> {}] /\ asked = [s \in Staff |-> None]
  /\ cut = {} /\ typed = {} /\ updates = 0 /\ failures = 0
  /\ patient \in BOOLEAN

-----------------------------------------------------------------------------
(* Helpers.                                                                *)

Administrator(s) == access[s] = "administrator"
Dispatcher(s)    == access[s] # "none"
Pending(r)       == requests[r].status = "pending"

At(k, step) == task[k].at = step
GoTo(k, step) == task' = [task EXCEPT ![k].at = step]
Stop(k) == task' = [task EXCEPT ![k] = Free]

(* set_state, which leaves the data; update_data, which leaves the rest of *)
(* it; set_data, which does not; clear.                                    *)
SetState(s, state) == fsm' = [fsm EXCEPT ![s].state = state]
SetRequest(s, r) ==
  fsm' = [fsm EXCEPT ![s] = [Empty EXCEPT !.state = fsm[s].state, !.request = r]]
Clear(s) == fsm' = [fsm EXCEPT ![s] = Empty]

-----------------------------------------------------------------------------
(* Updates.                                                                *)

(* The handlers of messages in the order of their registration: the first  *)
(* one whose label or state fits gets the message.  Only the handler of a  *)
(* comment takes what is not text.                                         *)
Registered ==
  << [on |-> "cancel",           step |-> "cancel"],
     [on |-> "participants",     step |-> "list"],
     [on |-> "reject",           step |-> "reject_text"],
     [on |-> "all_requests",     step |-> "list"],
     [on |-> "announcement",     step |-> "ann_start"],
     [on |-> "announce",         step |-> "ann_text"],
     [on |-> "worker_schedules", step |-> "list"],
     [on |-> "add_worker",       step |-> "add_start"],
     [on |-> "worker_id",        step |-> "add_id"] >>

Receiver(m, state) ==
  LET fits == {i \in DOMAIN Registered :
                 \/ Registered[i].on = m
                 \/ Registered[i].on = state /\ (state = "reject" \/ m # Photo)}
  IN  IF fits = {} THEN "nobody"
      ELSE Registered[CHOOSE i \in fits : \A j \in fits : i <= j].step

(* How many updates there are at most.                                     *)
Limit == IF patient THEN MaxUpdates ELSE MaxHasty

(* An update starts a handler at once, whatever else runs for its sender;  *)
(* only the patient wait until nothing does.                               *)
Begin(k, s, step, text, r, polished) ==
  /\ At(k, "idle") /\ updates < Limit
  /\ patient => \A j \in Tasks : task[j].who # s
  /\ task' = [task EXCEPT ![k] = [at |-> step, who |-> s, text |-> text,
                                 request |-> r, polished |-> polished]]
  /\ updates' = updates + 1
  /\ UNCHANGED <<access, fsm, world, seen, asked, cut, failures, patient>>

Receive(k, s, m) ==
  /\ m \in Typeable \ typed
  /\ Receiver(m, fsm[s].state) \notin {"list", "nobody"}
  /\ Begin(k, s, Receiver(m, fsm[s].state), m, None, FALSE)
  /\ typed' = typed \cup ({m} \cap Texts)

(* The buttons under a message work in every state.                        *)
Tap(k, s) ==
  /\ \/ \E r \in Requests, step \in {"approve", "reject_start"} :
          Begin(k, s, step, None, r, FALSE)
     \/ /\ seen[s] # {} /\ seen[s] # {"category"}
        /\ \E polished \in BOOLEAN : Begin(k, s, "ann_use", None, None, polished)
     \/ "category" \in seen[s] /\ Begin(k, s, "add_finish", None, None, FALSE)
     \/ Begin(k, s, "cancel", None, None, FALSE)
  /\ UNCHANGED typed

(* cancel_fsm_cb, cancel_fsm_text                                          *)
Cancel(k) ==
  LET s == task[k].who IN
  /\ At(k, "cancel") /\ Stop(k)
  /\ IF task[k].text = "cancel" /\ fsm[s].state = "none"
     THEN UNCHANGED <<fsm, asked>>
     ELSE Clear(s) /\ asked' = [asked EXCEPT ![s] = None]
  /\ UNCHANGED <<access, world, seen, cut, typed, updates, failures, patient>>

-----------------------------------------------------------------------------
(* Announcements.                                                          *)

(* create_ann_start: the draft of an earlier form stays in the data.       *)
AnnStart(k) ==
  LET s == task[k].who IN
  /\ At(k, "ann_start") /\ Stop(k)
  /\ IF Dispatcher(s) THEN SetState(s, "announce") ELSE UNCHANGED fsm
  /\ UNCHANGED <<access, world, seen, asked, cut, typed, updates, failures, patient>>

(* A faulty handler that publishes what the LLM suggests.                  *)
AnnTextTrusting(k) ==
  LET t == task[k].text IN
  /\ At(k, "ann_text")
  /\ IF Long(t)
     THEN task' = [task EXCEPT ![k].at = "publish", ![k].polished = TRUE]
     ELSE Stop(k)
  /\ UNCHANGED <<access, fsm, world, seen, asked, cut, typed, updates, failures, patient>>

(* create_ann_finish: the LLM suggests another wording, or does not.  The  *)
(* role of the author is not asked again.                                  *)
AnnText(k) ==
  LET s == task[k].who  t == task[k].text IN
  /\ At(k, "ann_text")
  /\ \/ ~Long(t) /\ Stop(k) /\ UNCHANGED fsm
     \/ Long(t) /\ GoTo(k, "publish") /\ UNCHANGED fsm
     \/ Long(t) /\ GoTo(k, "card") /\ fsm' = [fsm EXCEPT ![s].pending = t]
  /\ UNCHANGED <<access, world, seen, asked, cut, typed, updates, failures, patient>>

(* The card is shown; or sending it raises, delivered or not, and the text *)
(* is published as it was typed.                                           *)
AnnCard(k) ==
  LET s == task[k].who
      shown == [seen EXCEPT ![s] = @ \cup {task[k].text}]
  IN
  /\ At(k, "card")
  /\ \/ Stop(k) /\ seen' = shown /\ UNCHANGED cut
     \/ GoTo(k, "publish") /\ seen' = shown /\ UNCHANGED cut
     \/ GoTo(k, "publish") /\ cut' = cut \cup {task[k].text} /\ UNCHANGED seen
  /\ UNCHANGED <<access, fsm, world, asked, typed, updates, failures, patient>>

(* A faulty pick that drops the data of the form and leaves its state.     *)
AnnUseDropsData(k) ==
  LET s == task[k].who  draft == fsm[s].pending IN
  /\ At(k, "ann_use")
  /\ IF draft = None
     THEN fsm' = [fsm EXCEPT ![s] = [Empty EXCEPT !.state = fsm[s].state]] /\ Stop(k)
     ELSE /\ task' = [task EXCEPT ![k].at = "publish", ![k].text = draft]
          /\ UNCHANGED fsm
  /\ UNCHANGED <<access, world, seen, asked, cut, typed, updates, failures, patient>>

(* ann_use_pick takes the draft in the data, whichever card was pressed.   *)
AnnUse(k) ==
  LET s == task[k].who  draft == fsm[s].pending IN
  /\ At(k, "ann_use")
  /\ IF draft = None
     THEN Clear(s) /\ Stop(k) /\ asked' = [asked EXCEPT ![s] = None]
     ELSE /\ task' = [task EXCEPT ![k].at = "publish", ![k].text = draft]
          /\ UNCHANGED <<fsm, asked>>
  /\ UNCHANGED <<access, world, seen, cut, typed, updates, failures, patient>>

(* create_announcement and its commit.                                     *)
Publish(k) ==
  /\ At(k, "publish") /\ GoTo(k, "ann_clear")
  /\ published' = Append(published, [text |-> task[k].text, polished |-> task[k].polished])
  /\ UNCHANGED <<access, fsm, requests, heard, told, workers, seen, asked, cut,
                 typed, updates, failures, patient>>

(* A faulty clear that ends the form and keeps its draft.                  *)
AnnClearStateOnly(k) ==
  /\ At(k, "ann_clear") /\ GoTo(k, "broadcast")
  /\ SetState(task[k].who, "none")
  /\ UNCHANGED <<access, world, seen, asked, cut, typed, updates, failures, patient>>

AnnClear(k) ==
  LET s == task[k].who IN
  /\ At(k, "ann_clear") /\ GoTo(k, "broadcast")
  /\ Clear(s) /\ asked' = [asked EXCEPT ![s] = None]
  /\ UNCHANGED <<access, world, seen, cut, typed, updates, failures, patient>>

(* broadcast_announcement: from here on residents hear the text.           *)
Broadcast(k) ==
  /\ At(k, "broadcast") /\ Stop(k)
  /\ heard' = [heard EXCEPT ![task[k].text] = @ + 1]
  /\ UNCHANGED <<access, fsm, requests, published, told, workers, seen, asked, cut,
                 typed, updates, failures, patient>>
-----------------------------------------------------------------------------
(* The chairman's review.                                                  *)

(* start_reject_kazakhdomofon_request: the state, then the data, then the  *)
(* question, which does not name the request.                              *)
RejectStart(k) ==
  LET s == task[k].who IN
  /\ At(k, "reject_start")
  /\ IF Administrator(s) /\ Pending(task[k].request)
     THEN SetState(s, "reject") /\ GoTo(k, "reject_data")
     ELSE Stop(k) /\ UNCHANGED fsm
  /\ UNCHANGED <<access, world, seen, asked, cut, typed, updates, failures, patient>>

(* A faulty step that keeps the request the form is about already.         *)
RejectDataKept(k) ==
  LET s == task[k].who IN
  /\ At(k, "reject_data") /\ GoTo(k, "reject_ask")
  /\ IF fsm[s].request = None THEN SetRequest(s, task[k].request) ELSE UNCHANGED fsm
  /\ UNCHANGED <<access, world, seen, asked, cut, typed, updates, failures, patient>>

RejectData(k) ==
  /\ At(k, "reject_data") /\ GoTo(k, "reject_ask")
  /\ SetRequest(task[k].who, task[k].request)
  /\ UNCHANGED <<access, world, seen, asked, cut, typed, updates, failures, patient>>

RejectAsk(k) ==
  /\ At(k, "reject_ask") /\ Stop(k)
  /\ asked' = [asked EXCEPT ![task[k].who] = task[k].request]
  /\ UNCHANGED <<access, fsm, world, seen, cut, typed, updates, failures, patient>>

(* finish_reject_kazakhdomofon_request up to the last check.  The form of  *)
(* a request somebody has reviewed meanwhile stays open.                   *)
RejectText(k) ==
  LET s == task[k].who  r == fsm[s].request IN
  /\ At(k, "reject_text")
  /\ \/ /\ task[k].text = Photo
        /\ Stop(k) /\ UNCHANGED <<fsm, asked>>
     \/ /\ task[k].text # Photo /\ (~Administrator(s) \/ r = None)
        /\ Stop(k) /\ Clear(s) /\ asked' = [asked EXCEPT ![s] = None]
     \/ /\ task[k].text # Photo /\ Administrator(s) /\ r # None
        /\ IF Pending(r)
           THEN task' = [task EXCEPT ![k].at = "reject_write", ![k].request = r]
           ELSE Stop(k)
        /\ UNCHANGED <<fsm, asked>>
  /\ UNCHANGED <<access, world, seen, cut, typed, updates, failures, patient>>

(* A faulty UPDATE without its condition.                                  *)
ReviewAnyway(k, status, next) ==
  LET r == task[k].request  s == task[k].who IN
  /\ requests' = [requests EXCEPT ![r] =
                    [status |-> status, by |-> s, meant |-> asked[s]]]
  /\ GoTo(k, next)
  /\ UNCHANGED <<access, fsm, published, heard, told, workers, seen, asked, cut,
                 typed, updates, failures, patient>>

(* The conditional UPDATE of reject_request and approve_request.           *)
Review(k, status, next) ==
  LET r == task[k].request  s == task[k].who IN
  /\ IF Pending(r)
     THEN /\ requests' = [requests EXCEPT ![r] =
                            [status |-> status, by |-> s, meant |-> asked[s]]]
          /\ GoTo(k, next)
     ELSE Stop(k) /\ UNCHANGED requests
  /\ UNCHANGED <<access, fsm, published, heard, told, workers, seen, asked, cut,
                 typed, updates, failures, patient>>

RejectWrite(k) == At(k, "reject_write") /\ Review(k, "rejected", "reject_clear")

RejectClear(k) ==
  LET s == task[k].who IN
  /\ At(k, "reject_clear") /\ GoTo(k, "reject_tell")
  /\ Clear(s) /\ asked' = [asked EXCEPT ![s] = None]
  /\ UNCHANGED <<access, world, seen, cut, typed, updates, failures, patient>>

Tell(k, ruling) ==
  /\ told' = [told EXCEPT ![task[k].request] = Append(@, ruling)] /\ Stop(k)
  /\ UNCHANGED <<access, fsm, requests, published, heard, workers, seen, asked, cut,
                 typed, updates, failures, patient>>

RejectTell(k) == At(k, "reject_tell") /\ Tell(k, "rejected")

(* approve_kazakhdomofon_request                                           *)
Approve(k) ==
  /\ At(k, "approve")
  /\ IF Administrator(task[k].who) /\ Pending(task[k].request)
     THEN GoTo(k, "approve_write") ELSE Stop(k)
  /\ UNCHANGED <<access, fsm, world, seen, asked, cut, typed, updates, failures, patient>>

ApproveWrite(k) == At(k, "approve_write") /\ Review(k, "approved", "approve_tell")

(* The request is read again; scalar_one raises when it is gone.           *)
ApproveTell(k) ==
  /\ At(k, "approve_tell")
  /\ IF requests[task[k].request].status # "deleted"
     THEN Tell(k, "approved")
     ELSE Stop(k) /\ UNCHANGED <<access, fsm, world, seen, asked, cut, typed,
                                 updates, failures, patient>>

-----------------------------------------------------------------------------
(* Adding a worker.                                                        *)

(* add_worker_start                                                        *)
AddStart(k) ==
  LET s == task[k].who IN
  /\ At(k, "add_start") /\ Stop(k)
  /\ IF Dispatcher(s) THEN SetState(s, "worker_id") ELSE UNCHANGED fsm
  /\ UNCHANGED <<access, world, seen, asked, cut, typed, updates, failures, patient>>

(* add_worker_tid: the id, then the buttons, then the state.               *)
AddId(k) ==
  LET s == task[k].who IN
  /\ At(k, "add_id")
  /\ IF task[k].text \in Ids
     THEN fsm' = [fsm EXCEPT ![s].tid = task[k].text] /\ GoTo(k, "add_card")
     ELSE Stop(k) /\ UNCHANGED fsm
  /\ UNCHANGED <<access, world, seen, asked, cut, typed, updates, failures, patient>>

AddCard(k) ==
  /\ At(k, "add_card") /\ GoTo(k, "add_state")
  /\ seen' = [seen EXCEPT ![task[k].who] = @ \cup {"category"}]
  /\ UNCHANGED <<access, fsm, world, asked, cut, typed, updates, failures, patient>>

AddState(k) ==
  /\ At(k, "add_state") /\ Stop(k) /\ SetState(task[k].who, "worker_category")
  /\ UNCHANGED <<access, world, seen, asked, cut, typed, updates, failures, patient>>

(* add_worker_finish up to its commit.                                     *)
AddFinish(k) ==
  LET s == task[k].who IN
  /\ At(k, "add_finish")
  /\ IF Dispatcher(s) /\ fsm[s].tid # None
     THEN workers' = workers \cup {fsm[s].tid} /\ GoTo(k, "add_clear")
     ELSE Stop(k) /\ UNCHANGED workers
  /\ UNCHANGED <<access, fsm, requests, published, heard, told, seen, asked, cut,
                 typed, updates, failures, patient>>

AddClear(k) ==
  LET s == task[k].who IN
  /\ At(k, "add_clear") /\ Stop(k)
  /\ Clear(s) /\ asked' = [asked EXCEPT ![s] = None]
  /\ UNCHANGED <<access, world, seen, cut, typed, updates, failures, patient>>

-----------------------------------------------------------------------------
(* Others, each by an update of their own, and failures.                   *)

Other == updates < Limit /\ updates' = updates + 1

(* revoke_participant, by some other administrator.                        *)
Revoke(s) ==
  /\ Other /\ s \notin AdminIds /\ access[s] # "none"
  /\ access' = [access EXCEPT ![s] = "none"]
  /\ UNCHANGED <<fsm, task, world, seen, asked, cut, typed, failures, patient>>

(* Another chairman approves or rejects a request and tells its resident,  *)
(* here in one step.                                                       *)
ReviewByOther(r, ruling) ==
  /\ Other /\ Pending(r)
  /\ requests' = [requests EXCEPT ![r] = [status |-> ruling, by |-> None, meant |-> r]]
  /\ told' = [told EXCEPT ![r] = Append(@, ruling)]
  /\ UNCHANGED <<access, fsm, task, published, heard, workers, seen, asked, cut,
                 typed, failures, patient>>

(* do_delete_req                                                           *)
Delete(r) ==
  /\ Other /\ requests[r].status # "deleted"
  /\ requests' = [requests EXCEPT ![r].status = "deleted"]
  /\ UNCHANGED <<access, fsm, task, published, heard, told, workers, seen, asked,
                 cut, typed, failures, patient>>

(* do_delete_ann, by some administrator.                                   *)
DeleteAnnouncement(i) ==
  /\ Other /\ published' = RemoveAt(published, i)
  /\ UNCHANGED <<access, fsm, task, requests, heard, told, workers, seen, asked,
                 cut, typed, failures, patient>>

(* What is cut off when the handlers in K end here: a question not put, a  *)
(* card not shown.                                                         *)
CutOff(K) ==
  cut' = cut \cup {task[k].who : k \in {k \in K : task[k].at \in {"reject_data", "reject_ask"}}}
             \cup {task[k].text : k \in {k \in K : At(k, "card")}}

(* An exception ends a handler.  Sending a card is within a try.           *)
Fail(k) ==
  /\ ~At(k, "idle") /\ ~At(k, "card") /\ failures < MaxFailures
  /\ Stop(k) /\ CutOff({k}) /\ failures' = failures + 1
  /\ UNCHANGED <<access, fsm, world, seen, asked, typed, updates, patient>>

(* A restart; the forms survive in Redis, in memory they do not.           *)
Restart ==
  /\ failures < MaxFailures
  /\ task' = [k \in Tasks |-> Free] /\ CutOff(Tasks) /\ failures' = failures + 1
  /\ \/ UNCHANGED <<fsm, asked>>
     \/ fsm' = [s \in Staff |-> Empty] /\ asked' = [s \in Staff |-> None]
  /\ UNCHANGED <<access, world, seen, typed, updates, patient>>

Handler(k) ==
  \/ Cancel(k)
  \/ AnnStart(k) \/ AnnText(k) \/ AnnCard(k) \/ AnnUse(k)
  \/ Publish(k) \/ AnnClear(k) \/ Broadcast(k)
  \/ RejectStart(k) \/ RejectData(k) \/ RejectAsk(k)
  \/ RejectText(k) \/ RejectWrite(k) \/ RejectClear(k) \/ RejectTell(k)
  \/ Approve(k) \/ ApproveWrite(k) \/ ApproveTell(k)
  \/ AddStart(k) \/ AddId(k) \/ AddCard(k) \/ AddState(k)
  \/ AddFinish(k) \/ AddClear(k)

Next ==
  \/ \E k \in Tasks, s \in Staff : Tap(k, s) \/ \E m \in Typeable : Receive(k, s, m)
  \/ \E k \in Tasks : Handler(k) \/ Fail(k)
  \/ \E s \in Staff : Revoke(s)
  \/ \E r \in Requests :
       Delete(r) \/ \E ruling \in {"approved", "rejected"} : ReviewByOther(r, ruling)
  \/ \E i \in DOMAIN published : DeleteAnnouncement(i)
  \/ Restart

Spec == Init /\ [][Next]_vars

-----------------------------------------------------------------------------
(* Properties.  Those that speak of the patient are false of others, as    *)
(* the comments say.                                                       *)

(* The residents hear an announcement at most once, however its author     *)
(* presses old buttons, and whatever is cut off on the way: the form is    *)
(* cleared after the commit and before the broadcast                       *)
(* (dispatcher.py:1174-1178, 1194-1198).  A double tap is heard twice: the *)
(* second handler reads the draft before the first one clears it.          *)
HeardOnce == patient => \A t \in Texts : heard[t] <= 1

(* A suggestion of the LLM is published only when its author was shown it, *)
(* or when showing it failed or was cut off: its draft is in the data by   *)
(* then and an older card publishes it (dispatcher.py:1157, 1188).  So     *)
(* does an older card pressed before the new one is sent.                  *)
SuggestionWasShown ==
  patient =>
    \A i \in DOMAIN published :
      published[i].polished =>
        \/ \E s \in Staff : published[i].text \in seen[s]
        \/ published[i].text \in cut

(* A reason for a rejection is stored with the request its author was last *)
(* asked about, although others review and delete requests meanwhile and   *)
(* forms of other kinds are begun in between; unless a question was cut    *)
(* off before it was put (chairman.py:178-179).  The impatient may be      *)
(* asked about another request after the reason was sent and before        *)
(* get_data (chairman.py:197).                                             *)
CommentForItsRequest ==
  patient =>
    \A r \in Requests :
      requests[r].status = "rejected" => requests[r].meant = r \/ requests[r].by \in cut

(* A resident is told one verdict about a request at most, and the one     *)
(* that is stored, although another chairman reviews it between any two    *)
(* steps and a chairman types several reasons at once (requests.py:226,    *)
(* 261).                                                                   *)
OneVerdict ==
  \A r \in Requests :
    /\ Len(told[r]) <= 1
    /\ requests[r].status # "deleted" => \A i \in DOMAIN told[r] : told[r][i] = requests[r].status

(* Who is asked for the category of a new worker has given his id: the id  *)
(* is stored before the state, and what clears one clears both             *)
(* (dispatcher.py:1424-1428); of the impatient a cancel may clear them in  *)
(* between.                                                                *)
CategoryHasId ==
  patient => \A s \in Staff : fsm[s].state = "worker_category" => fsm[s].tid # None

(* README.md:168 says of the menu button "A dispatcher or administrator    *)
(* opens Worker schedules and adds recurring hours".  False: in an open    *)
(* form for announcements the button is an announcement                    *)
(* (dispatcher.py:1143 comes before 1253).                                 *)
SchedulesButtonOpens == \A i \in DOMAIN published : published[i].text # "worker_schedules"
=============================================================================
