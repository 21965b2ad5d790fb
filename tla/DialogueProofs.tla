---------------------------- MODULE DialogueProofs ----------------------------
(***************************************************************************)
(* Theorems about the two kinds of dialogue that keep what they know in an *)
(* FSM context between messages: the staff's forms, module StaffForms, for *)
(* every staff and every number of requests, texts and updates; and the    *)
(* completion of a request by its worker, module Completion, for every set *)
(* of requests and comments and every number of attempts.  Both with any   *)
(* failures and restarts.                                                  *)
(*                                                                         *)
(* Of the staff's forms there are two invariants: what holds of everybody  *)
(* (Basics), and what holds of people who send an update only after their  *)
(* last one was answered (Inv).                                            *)
(***************************************************************************)
EXTENDS StaffForms, Completion, SequenceTheorems, TLAPS
LOCAL INSTANCE SequencesExt

(* What handlers hold at a step.                                           *)
Handlers == [at : Steps, who : Staff, text : Typeable \cup {None},
             request : Requests \cup {None}, polished : BOOLEAN]

(* Handlers that were given what somebody typed, that carry a draft on its *)
(* way to be published, that have a verdict yet to tell, that are about a  *)
(* request.                                                                *)
Typing  == {"ann_text", "reject_text", "add_id"}
Drafted == {"card", "publish", "ann_clear", "broadcast"}
Telling == {"reject_clear", "reject_tell", "approve_tell"}
About   == Telling \cup {"reject_start", "reject_data", "reject_ask",
                         "reject_write", "approve", "approve_write"}

(* A handler holds what its step needs.                                    *)
TaskInv ==
  /\ task \in [Tasks -> Handlers \cup {Free}]
  /\ \A k \in Tasks :
       /\ task[k].at \in Typing => task[k].text \in Typeable
       /\ task[k].at \in Drafted => task[k].text \in Texts \cup Labels
       /\ task[k].at \in About => task[k].request \in Requests
       /\ task[k].polished => task[k].at \in {"ann_use", "publish", "ann_clear", "broadcast"}

(* Whoever has a verdict to tell is the one whose conditional UPDATE gave  *)
(* it: nobody else has one, and nothing was told yet.                      *)
VerdictInv ==
  /\ \A k \in Tasks : task[k].at \in Telling =>
       /\ told[task[k].request] = <<>>
       /\ requests[task[k].request].status \in
            {IF At(k, "approve_tell") THEN "approved" ELSE "rejected", "deleted"}
       /\ \A j \in Tasks : task[j].at \in Telling /\ task[j].request = task[k].request => j = k
  /\ \A r \in Requests : Pending(r) => told[r] = <<>>
  /\ OneVerdict

(* What every behaviour keeps, whether people wait or not.                 *)
Basics == TypeOK /\ TaskInv /\ VerdictInv

(* The promises to people who wait.                                        *)
HasId == \A s \in Staff : fsm[s].state = "worker_category" => fsm[s].tid # None

Suggested ==
  \A i \in DOMAIN published :
    published[i].polished =>
      \/ \E s \in Staff : published[i].text \in seen[s]
      \/ published[i].text \in cut

Commented ==
  \A r \in Requests :
    requests[r].status = "rejected" => requests[r].meant = r \/ requests[r].by \in cut

(* One handler of a person at a time.                                      *)
SerialInv ==
  \A j, k \in Tasks : task[j].who = task[k].who /\ task[k].who \in Staff => j = k

(* What a form holds while one of its handlers is between two steps.       *)
FormInv ==
  /\ \A k \in Tasks :
       /\ At(k, "reject_data") => fsm[task[k].who].state = "reject"
       /\ At(k, "reject_ask") => fsm[task[k].who].request = task[k].request
       /\ task[k].at \in {"add_card", "add_state"} => fsm[task[k].who].tid # None
  /\ HasId

(* A handler that will have a text heard, if it is not cut off.            *)
Carries(k, t) == task[k].text = t /\ task[k].at \in Drafted \cup {"ann_text"}

(* A text is typed once and belongs to its author: before it is typed it   *)
(* is nowhere; while it is a draft only its author's handlers and form     *)
(* hold it, and the form no longer does when it is broadcast; once heard   *)
(* nobody holds it.                                                        *)
HeardInv ==
  \A t \in Texts :
    /\ heard[t] <= 1
    /\ t \notin typed =>
         /\ heard[t] = 0
         /\ \A s \in Staff : fsm[s].pending # t
         /\ \A k \in Tasks : task[k].text # t
    /\ heard[t] # 0 =>
         /\ \A s \in Staff : fsm[s].pending # t
         /\ \A k \in Tasks : ~Carries(k, t)
    /\ \A k \in Tasks : Carries(k, t) =>
         /\ \A j \in Tasks : Carries(j, t) => task[j].who = task[k].who
         /\ \A s \in Staff : fsm[s].pending = t =>
              s = task[k].who /\ ~At(k, "broadcast")
    /\ \A r, s \in Staff : fsm[r].pending = t /\ fsm[s].pending = t => r = s

(* Everything that was on a card, or was cut off on its way there.         *)
Seen == cut \cup UNION {seen[s] : s \in Staff}

(* A suggestion in a form, or about to be published, has been on a card,   *)
(* or its card is about to be shown, or was cut off.                       *)
ShownInv ==
  /\ \A s \in Staff : fsm[s].pending # None =>
       \/ fsm[s].pending \in Seen
       \/ \E k \in Tasks : At(k, "card") /\ task[k].who = s /\ task[k].text = fsm[s].pending
  /\ \A k \in Tasks : At(k, "publish") /\ task[k].polished => task[k].text \in Seen
  /\ Suggested

(* The request in a form is the one its person was asked about, or is      *)
(* about to be, unless the question was cut off; and so is the one a       *)
(* handler is about to reject.                                             *)
AskedInv ==
  /\ \A s \in Staff : fsm[s].request # None =>
       \/ asked[s] = fsm[s].request \/ s \in cut
       \/ \E k \in Tasks : At(k, "reject_ask") /\ task[k].who = s
  /\ \A k \in Tasks : At(k, "reject_write") =>
       asked[task[k].who] = task[k].request \/ task[k].who \in cut
  /\ Commented

(* The inductive invariant of people who wait.                             *)
Inv == Basics /\ SerialInv /\ FormInv /\ HeardInv /\ ShownInv /\ AskedInv

-----------------------------------------------------------------------------
(* The steps of handlers.                                                  *)

(* The sets of steps above, and None, apart from everything else.          *)
LEMMA Kinds ==
  /\ Typing \subseteq Steps /\ Drafted \subseteq Steps /\ About \subseteq Steps
  /\ "idle" \notin Steps /\ Telling \subseteq About
  /\ None \notin Staff /\ None \notin Requests /\ None \notin Texts \cup Labels \cup Ids
BY StaffFormsAssumption DEF Typing, Drafted, About, Telling, Steps

(* A handler that is at work is somebody's.                                *)
LEMMA Busy ==
  ASSUME TaskInv, NEW k \in Tasks
  PROVE  /\ task[k] \in Handlers \cup {Free}
         /\ task[k].at # "idle" => task[k] \in Handlers /\ task[k].who \in Staff
         /\ task[k].at = "idle" => task[k] = Free
         /\ task[k].who \in Staff => task[k].at # "idle"
<1>1. task[k] \in Handlers \cup {Free}
  BY DEF TaskInv
<1>2. Free.at = "idle" /\ Free.who = None
  BY DEF Free
<1>3. task[k] \in Handlers => task[k].at \in Steps /\ task[k].who \in Staff
  BY DEF Handlers
<1>4. QED BY <1>1, <1>2, <1>3, Kinds

(* What a handler holds is kept when it goes on to its next step.          *)
LEMMA GoToFacts ==
  ASSUME TaskInv, NEW k \in Tasks, ~At(k, "idle"), NEW step \in Steps, GoTo(k, step)
  PROVE  /\ task' \in [Tasks -> Handlers \cup {Free}]
         /\ task'[k].at = step /\ task'[k].who = task[k].who
         /\ task'[k].text = task[k].text /\ task'[k].request = task[k].request
         /\ task'[k].polished = task[k].polished
         /\ \A j \in Tasks \ {k} : task'[j] = task[j]
<1>1. task[k] \in Handlers /\ task \in [Tasks -> Handlers \cup {Free}]
  BY Busy DEF At, TaskInv
<1> DEFINE v == [task[k] EXCEPT !.at = step]
<1>2. v \in Handlers
  BY <1>1 DEF Handlers
<1>3. /\ v.at = step /\ v.who = task[k].who /\ v.text = task[k].text
      /\ v.request = task[k].request /\ v.polished = task[k].polished
  BY <1>1 DEF Handlers
<1>4. task' = [task EXCEPT ![k] = v]
  BY DEF GoTo
<1> HIDE DEF v
<1>5. QED BY <1>1, <1>2, <1>3, <1>4

(* A handler that ends is nobody's and holds nothing.                      *)
LEMMA StopFacts ==
  ASSUME TaskInv, NEW k \in Tasks, Stop(k)
  PROVE  /\ task' \in [Tasks -> Handlers \cup {Free}] /\ task'[k] = Free
         /\ task'[k].at = "idle" /\ task'[k].who = None /\ task'[k].text = None
         /\ ~task'[k].polished
         /\ \A j \in Tasks \ {k} : task'[j] = task[j]
BY DEF TaskInv, Stop, Free

(* A handler takes another text, or another request, as it goes on.        *)
LEMMA PickedFacts ==
  ASSUME TaskInv, NEW k \in Tasks, ~At(k, "idle"), NEW t \in Texts \cup Labels,
         task' = [task EXCEPT ![k].at = "publish", ![k].text = t]
  PROVE  /\ task' \in [Tasks -> Handlers \cup {Free}]
         /\ task'[k].at = "publish" /\ task'[k].who = task[k].who
         /\ task'[k].text = t /\ task'[k].request = task[k].request
         /\ task'[k].polished = task[k].polished
         /\ \A j \in Tasks \ {k} : task'[j] = task[j]
<1>1. task[k] \in Handlers /\ task \in [Tasks -> Handlers \cup {Free}]
  BY Busy DEF At, TaskInv
<1> DEFINE v == [task[k] EXCEPT !.at = "publish", !.text = t]
<1>2. v \in Handlers
  BY <1>1 DEF Handlers, Steps, Typeable
<1>3. /\ v.at = "publish" /\ v.who = task[k].who /\ v.text = t
      /\ v.request = task[k].request /\ v.polished = task[k].polished
  BY <1>1 DEF Handlers
<1>4. task' = [task EXCEPT ![k] = v]
  BY <1>1
<1> HIDE DEF v
<1>5. QED BY <1>1, <1>2, <1>3, <1>4

LEMMA TakeRequestFacts ==
  ASSUME TaskInv, NEW k \in Tasks, ~At(k, "idle"), NEW step \in Steps,
         NEW r \in Requests,
         task' = [task EXCEPT ![k].at = step, ![k].request = r]
  PROVE  /\ task' \in [Tasks -> Handlers \cup {Free}]
         /\ task'[k].at = step /\ task'[k].who = task[k].who
         /\ task'[k].text = task[k].text /\ task'[k].request = r
         /\ task'[k].polished = task[k].polished
         /\ \A j \in Tasks \ {k} : task'[j] = task[j]
<1>1. task[k] \in Handlers /\ task \in [Tasks -> Handlers \cup {Free}]
  BY Busy DEF At, TaskInv
<1> DEFINE v == [task[k] EXCEPT !.at = step, !.request = r]
<1>2. v \in Handlers
  BY <1>1 DEF Handlers
<1>3. /\ v.at = step /\ v.who = task[k].who /\ v.text = task[k].text
      /\ v.request = r /\ v.polished = task[k].polished
  BY <1>1 DEF Handlers
<1>4. task' = [task EXCEPT ![k] = v]
  BY <1>1
<1> HIDE DEF v
<1>5. QED BY <1>1, <1>2, <1>3, <1>4

(* The FSM context of a person.                                            *)
Contexts == [state : Forms, request : Requests \cup {None},
             pending : Texts \cup Labels \cup {None}, tid : Ids \cup {None}]

(* set_state changes the state and leaves the data; clear empties both;    *)
(* set_data replaces the data; update_data changes one field of it.        *)
LEMMA SetStateFacts ==
  ASSUME TypeOK, NEW s \in Staff, NEW state \in Forms, SetState(s, state)
  PROVE  /\ fsm' \in [Staff -> Contexts]
         /\ fsm'[s].state = state /\ fsm'[s].request = fsm[s].request
         /\ fsm'[s].pending = fsm[s].pending /\ fsm'[s].tid = fsm[s].tid
         /\ \A q \in Staff \ {s} : fsm'[q] = fsm[q]
<1>1. fsm \in [Staff -> Contexts]
  BY DEF TypeOK, Contexts
<1> DEFINE c == [fsm[s] EXCEPT !.state = state]
<1>2. /\ c \in Contexts /\ c.state = state /\ c.request = fsm[s].request
      /\ c.pending = fsm[s].pending /\ c.tid = fsm[s].tid
  BY <1>1 DEF Contexts
<1>3. fsm' = [fsm EXCEPT ![s] = c]
  BY DEF SetState
<1> HIDE DEF c
<1>4. QED BY <1>1, <1>2, <1>3

LEMMA ClearFacts ==
  ASSUME TypeOK, NEW s \in Staff, Clear(s)
  PROVE  /\ fsm' \in [Staff -> Contexts] /\ fsm'[s] = Empty
         /\ fsm'[s].state = "none" /\ fsm'[s].request = None
         /\ fsm'[s].pending = None /\ fsm'[s].tid = None
         /\ \A q \in Staff \ {s} : fsm'[q] = fsm[q]
<1>1. fsm \in [Staff -> Contexts] /\ Empty \in Contexts
  BY DEF TypeOK, Contexts, Empty, Forms
<1>2. QED BY <1>1 DEF Clear, Empty

LEMMA SetRequestFacts ==
  ASSUME TypeOK, NEW s \in Staff, NEW r \in Requests, SetRequest(s, r)
  PROVE  /\ fsm' \in [Staff -> Contexts]
         /\ fsm'[s].state = fsm[s].state /\ fsm'[s].request = r
         /\ fsm'[s].pending = None /\ fsm'[s].tid = None
         /\ \A q \in Staff \ {s} : fsm'[q] = fsm[q]
<1>1. fsm \in [Staff -> Contexts]
  BY DEF TypeOK, Contexts
<1> DEFINE c == [Empty EXCEPT !.state = fsm[s].state, !.request = r]
<1>2. /\ c \in Contexts /\ c.state = fsm[s].state /\ c.request = r
      /\ c.pending = None /\ c.tid = None
  BY <1>1 DEF Contexts, Empty, Forms
<1>3. fsm' = [fsm EXCEPT ![s] = c]
  BY DEF SetRequest
<1> HIDE DEF c
<1>4. QED BY <1>1, <1>2, <1>3

LEMMA StorePending ==
  ASSUME TypeOK, NEW s \in Staff, NEW t \in Texts \cup Labels,
         fsm' = [fsm EXCEPT ![s].pending = t]
  PROVE  /\ fsm' \in [Staff -> Contexts]
         /\ fsm'[s].state = fsm[s].state /\ fsm'[s].request = fsm[s].request
         /\ fsm'[s].pending = t /\ fsm'[s].tid = fsm[s].tid
         /\ \A q \in Staff \ {s} : fsm'[q] = fsm[q]
<1>1. fsm \in [Staff -> Contexts]
  BY DEF TypeOK, Contexts
<1> DEFINE c == [fsm[s] EXCEPT !.pending = t]
<1>2. /\ c \in Contexts /\ c.state = fsm[s].state /\ c.request = fsm[s].request
      /\ c.pending = t /\ c.tid = fsm[s].tid
  BY <1>1 DEF Contexts
<1>3. fsm' = [fsm EXCEPT ![s] = c]
  OBVIOUS
<1> HIDE DEF c
<1>4. QED BY <1>1, <1>2, <1>3

LEMMA StoreId ==
  ASSUME TypeOK, NEW s \in Staff, NEW t \in Ids,
         fsm' = [fsm EXCEPT ![s].tid = t]
  PROVE  /\ fsm' \in [Staff -> Contexts]
         /\ fsm'[s].state = fsm[s].state /\ fsm'[s].request = fsm[s].request
         /\ fsm'[s].pending = fsm[s].pending /\ fsm'[s].tid = t
         /\ \A q \in Staff \ {s} : fsm'[q] = fsm[q]
<1>1. fsm \in [Staff -> Contexts]
  BY DEF TypeOK, Contexts
<1> DEFINE c == [fsm[s] EXCEPT !.tid = t]
<1>2. /\ c \in Contexts /\ c.state = fsm[s].state /\ c.request = fsm[s].request
      /\ c.pending = fsm[s].pending /\ c.tid = t
  BY <1>1 DEF Contexts
<1>3. fsm' = [fsm EXCEPT ![s] = c]
  OBVIOUS
<1> HIDE DEF c
<1>4. QED BY <1>1, <1>2, <1>3

-----------------------------------------------------------------------------
(* What a step of one handler keeps of each part of the invariant.         *)
-----------------------------------------------------------------------------
(* What holds although people do not wait: the steps of handlers.          *)

(* Only the handler that takes the step changes.                           *)
Moves(k) ==
  /\ task[k] \in Handlers /\ task' \in [Tasks -> Handlers \cup {Free}]
  /\ \A j \in Tasks \ {k} : task'[j] = task[j]

(* What the step leaves it fits; and it has no verdict to tell that it had *)
(* not before.                                                             *)
TaskFits(k) ==
  /\ task'[k].at \in Typing => task'[k].text \in Typeable
  /\ task'[k].at \in Drafted => task'[k].text \in Texts \cup Labels
  /\ task'[k].at \in About => task'[k].request \in Requests
  /\ task'[k].polished => task'[k].at \in {"ann_use", "publish", "ann_clear", "broadcast"}

VerdictFits(k) ==
  task'[k].at \in Telling =>
    /\ task[k].at \in Telling /\ task'[k].request = task[k].request
    /\ task'[k].at = "approve_tell" <=> task[k].at = "approve_tell"

LEMMA TaskKept ==
  ASSUME TaskInv, NEW k \in Tasks, Moves(k), TaskFits(k)
  PROVE  TaskInv'
<1>1. ASSUME NEW j \in Tasks
      PROVE /\ task'[j].at \in Typing => task'[j].text \in Typeable
            /\ task'[j].at \in Drafted => task'[j].text \in Texts \cup Labels
            /\ task'[j].at \in About => task'[j].request \in Requests
            /\ task'[j].polished => task'[j].at \in {"ann_use", "publish", "ann_clear", "broadcast"}
  <2>1. CASE j = k
    BY <2>1 DEF TaskFits
  <2>2. CASE j # k
    BY <2>2 DEF Moves, TaskInv
  <2>3. QED BY <2>1, <2>2
<1>2. QED BY <1>1 DEF TaskInv, Moves

LEMMA VerdictKept ==
  ASSUME VerdictInv, NEW k \in Tasks, Moves(k),
         requests' = requests, told' = told, VerdictFits(k)
  PROVE  VerdictInv'
<1>1. ASSUME NEW j \in Tasks, task'[j].at \in Telling
      PROVE  /\ task[j].at \in Telling /\ task'[j].request = task[j].request
             /\ At(j, "approve_tell")' <=> At(j, "approve_tell")
  <2>1. CASE j = k
    BY <1>1, <2>1 DEF At, VerdictFits
  <2>2. CASE j # k
    BY <1>1, <2>2 DEF Moves, At
  <2>3. QED BY <2>1, <2>2
<1>2. ASSUME NEW j \in Tasks, task'[j].at \in Telling
      PROVE  /\ told'[task'[j].request] = <<>>
             /\ requests'[task'[j].request].status \in
                  {IF At(j, "approve_tell")' THEN "approved" ELSE "rejected", "deleted"}
             /\ \A i \in Tasks :
                  task'[i].at \in Telling /\ task'[i].request = task'[j].request => i = j
  BY <1>1, <1>2 DEF VerdictInv
<1>3. (\A r \in Requests : Pending(r) => told[r] = <<>>)' /\ OneVerdict'
  BY DEF VerdictInv, Pending, OneVerdict
<1>4. QED BY <1>2, <1>3 DEF VerdictInv

(* A handler at work, its person, and the forms.                           *)
LEMMA AtWork ==
  ASSUME Basics, NEW k \in Tasks, ~At(k, "idle")
  PROVE  /\ task[k] \in Handlers /\ task[k].who \in Staff
         /\ fsm \in [Staff -> Contexts] /\ asked \in [Staff -> Requests \cup {None}]
         /\ task \in [Tasks -> Handlers \cup {Free}]
         /\ fsm[task[k].who] \in Contexts
<1>1. task[k] \in Handlers /\ task[k].who \in Staff
  BY Busy DEF Basics, At
<1>2. fsm \in [Staff -> Contexts] /\ asked \in [Staff -> Requests \cup {None}]
  BY DEF Basics, TypeOK, Contexts
<1>3. QED BY <1>1, <1>2 DEF Basics, TaskInv

(* What is long enough to be published is a text or a label.               *)
LEMMA LongTexts == \A t \in Typeable : Long(t) => t \in Texts \cup Labels
BY DEF Long, Labels

(* A handler that ends, and one that goes on with what it holds.           *)
LEMMA StopMoves ==
  ASSUME TaskInv, NEW k \in Tasks, ~At(k, "idle"), Stop(k)
  PROVE  Moves(k) /\ TaskFits(k) /\ VerdictFits(k)
<1>1. task[k] \in Handlers
  BY Busy DEF At
<1>2. /\ task' \in [Tasks -> Handlers \cup {Free}] /\ task'[k].at = "idle"
      /\ ~task'[k].polished /\ \A j \in Tasks \ {k} : task'[j] = task[j]
  BY StopFacts
<1>3. QED BY <1>1, <1>2, Kinds DEF Moves, TaskFits, VerdictFits

LEMMA GoToMoves ==
  ASSUME TaskInv, NEW k \in Tasks, ~At(k, "idle"), NEW step \in Steps, GoTo(k, step),
         step \notin Typing,
         step \in Drafted => task[k].text \in Texts \cup Labels,
         step \in About => task[k].request \in Requests,
         task[k].polished => step \in {"publish", "ann_clear", "broadcast"}
  PROVE  /\ Moves(k) /\ TaskFits(k)
         /\ (step \in Telling => step = "reject_tell" /\ At(k, "reject_clear")) => VerdictFits(k)
<1>1. task[k] \in Handlers
  BY Busy DEF At
<1>2. /\ task' \in [Tasks -> Handlers \cup {Free}]
      /\ task'[k].at = step /\ task'[k].text = task[k].text
      /\ task'[k].request = task[k].request /\ task'[k].polished = task[k].polished
      /\ \A j \in Tasks \ {k} : task'[j] = task[j]
  BY GoToFacts
<1>3. QED BY <1>1, <1>2 DEF Moves, TaskFits, VerdictFits, Telling, At

(* The steps of announcements; of reviews; of adding a worker.             *)
LEMMA AnnMoves ==
  ASSUME Basics, NEW k \in Tasks,
         \/ Cancel(k) \/ AnnStart(k) \/ AnnText(k) \/ AnnCard(k) \/ AnnUse(k)
         \/ Publish(k) \/ AnnClear(k) \/ Broadcast(k)
  PROVE  Moves(k) /\ TaskFits(k) /\ VerdictFits(k)
<1>1. ~At(k, "idle") /\ TaskInv
  BY DEF Cancel, AnnStart, AnnText, AnnCard, AnnUse, Publish, AnnClear, Broadcast, At, Basics
<1>2. task[k] \in Handlers /\ fsm[task[k].who] \in Contexts
  BY <1>1, AtWork
<1>3. CASE Stop(k)
  BY <1>1, <1>3, StopMoves
<1>4. ASSUME NEW step \in {"card", "publish", "ann_clear", "broadcast"}, GoTo(k, step),
             task[k].text \in Texts \cup Labels, task[k].polished => step # "card"
      PROVE  Moves(k) /\ TaskFits(k) /\ VerdictFits(k)
  <2>1. step \in Steps /\ step \notin Typing \cup About \cup Telling
    BY DEF Steps, Typing, About, Telling
  <2>2. QED BY <1>1, <1>4, <2>1, GoToMoves
<1>5. CASE AnnText(k) /\ ~Stop(k)
  <2>1. task[k].text \in Typeable /\ ~task[k].polished
    BY <1>1, <1>5 DEF AnnText, TaskInv, Typing, At
  <2>2. task[k].text \in Texts \cup Labels /\ (GoTo(k, "publish") \/ GoTo(k, "card"))
    BY <1>5, <2>1, LongTexts DEF AnnText
  <2>3. QED BY <1>4, <2>1, <2>2
<1>6. CASE AnnCard(k) \/ Publish(k) \/ AnnClear(k)
  <2>1. task[k].text \in Texts \cup Labels
    BY <1>1, <1>6 DEF AnnCard, Publish, AnnClear, TaskInv, Drafted, At
  <2>2. QED BY <1>3, <1>4, <1>6, <2>1 DEF AnnCard, Publish, AnnClear
<1>7. CASE AnnUse(k) /\ ~Stop(k)
  <2>1. PICK t : t = fsm[task[k].who].pending
    OBVIOUS
  <2>2. /\ At(k, "ann_use") /\ t # None
        /\ task' = [task EXCEPT ![k].at = "publish", ![k].text = t]
    BY <1>7, <2>1 DEF AnnUse
  <2>3. t \in Texts \cup Labels
    BY <1>2, <2>1, <2>2 DEF Contexts
  <2>4. /\ task' \in [Tasks -> Handlers \cup {Free}]
        /\ task'[k].at = "publish" /\ task'[k].who = task[k].who
        /\ task'[k].text = t /\ task'[k].request = task[k].request
        /\ task'[k].polished = task[k].polished
        /\ \A j \in Tasks \ {k} : task'[j] = task[j]
    <3>1. t \in Texts \cup Labels /\ task' = [task EXCEPT ![k].at = "publish", ![k].text = t]
      BY <2>2, <2>3
    <3>2. QED BY <1>1, <3>1, PickedFacts
  <2>5. QED BY <1>2, <2>3, <2>4
            DEF Moves, TaskFits, VerdictFits, Typing, About, Telling, Drafted
<1>8. QED BY <1>3, <1>5, <1>6, <1>7 DEF Cancel, AnnStart, Broadcast

LEMMA ReviewMoves ==
  ASSUME Basics, NEW k \in Tasks,
         \/ RejectStart(k) \/ RejectData(k) \/ RejectAsk(k)
         \/ RejectText(k) \/ RejectWrite(k) \/ RejectClear(k) \/ RejectTell(k)
         \/ Approve(k) \/ ApproveWrite(k) \/ ApproveTell(k)
  PROVE  /\ Moves(k) /\ TaskFits(k)
         /\ VerdictFits(k) \/ ((RejectWrite(k) \/ ApproveWrite(k)) /\ Pending(task[k].request))
<1>1. ~At(k, "idle") /\ TaskInv
  BY DEF RejectStart, RejectData, RejectAsk, RejectText, RejectWrite, RejectClear, RejectTell,
     Approve, ApproveWrite, ApproveTell, At, Basics
<1>2. task[k] \in Handlers /\ fsm[task[k].who] \in Contexts
  BY <1>1, AtWork
<1>3. CASE Stop(k)
  BY <1>1, <1>3, StopMoves
<1>4. ASSUME NEW step \in {"reject_data", "reject_ask", "reject_clear", "reject_tell",
                           "approve_write", "approve_tell"},
             GoTo(k, step), task[k].at \in About
      PROVE  /\ Moves(k) /\ TaskFits(k)
             /\ (step \in Telling => step = "reject_tell" /\ At(k, "reject_clear"))
                  => VerdictFits(k)
  <2>1. step \in Steps /\ step \notin Typing \cup Drafted
    BY DEF Steps, Typing, Drafted
  <2>2. task[k].request \in Requests /\ ~task[k].polished
    BY <1>1, <1>4 DEF TaskInv, About, Telling
  <2>3. QED BY <1>1, <1>4, <2>1, <2>2, GoToMoves
<1>5. CASE \/ RejectStart(k) /\ GoTo(k, "reject_data")
           \/ RejectData(k) \/ RejectClear(k)
           \/ Approve(k) /\ GoTo(k, "approve_write")
  <2>1. task[k].at \in About
    BY <1>5 DEF RejectStart, RejectData, RejectClear, Approve, About, Telling, At
  <2>2. QED BY <1>4, <1>5, <2>1 DEF RejectData, RejectClear, Telling
<1>6. CASE (RejectWrite(k) \/ ApproveWrite(k)) /\ Pending(task[k].request)
  <2>1. task[k].at \in About
    BY <1>6 DEF RejectWrite, ApproveWrite, About, At
  <2>2. QED BY <1>4, <1>6, <2>1 DEF RejectWrite, ApproveWrite, Review
<1>7. CASE RejectText(k) /\ ~Stop(k)
  <2>1. PICK r : r = fsm[task[k].who].request
    OBVIOUS
  <2>2. /\ At(k, "reject_text") /\ r # None
        /\ task' = [task EXCEPT ![k].at = "reject_write", ![k].request = r]
    BY <1>7, <2>1 DEF RejectText
  <2>3. r \in Requests /\ "reject_write" \in Steps /\ ~task[k].polished
    BY <1>1, <1>2, <2>1, <2>2 DEF Contexts, Steps, TaskInv, At
  <2>4. /\ task' \in [Tasks -> Handlers \cup {Free}]
        /\ task'[k].at = "reject_write" /\ task'[k].who = task[k].who
        /\ task'[k].text = task[k].text /\ task'[k].request = r
        /\ task'[k].polished = task[k].polished
        /\ \A j \in Tasks \ {k} : task'[j] = task[j]
    <3>1. task' = [task EXCEPT ![k].at = "reject_write", ![k].request = r]
      BY <2>2
    <3>2. QED BY <1>1, <2>3, <3>1, TakeRequestFacts
  <2>5. QED BY <1>2, <2>3, <2>4 DEF Moves, TaskFits, VerdictFits, Typing, Telling, Drafted
<1>8. QED BY <1>3, <1>5, <1>6, <1>7
          DEF RejectStart, RejectAsk, RejectWrite, RejectTell, Approve, ApproveWrite,
              ApproveTell, Review, Tell

LEMMA AddMoves ==
  ASSUME Basics, NEW k \in Tasks,
         \/ AddStart(k) \/ AddId(k) \/ AddCard(k) \/ AddState(k)
         \/ AddFinish(k) \/ AddClear(k)
  PROVE  Moves(k) /\ TaskFits(k) /\ VerdictFits(k)
<1>1. ~At(k, "idle") /\ TaskInv
  BY DEF AddStart, AddId, AddCard, AddState, AddFinish, AddClear, At, Basics
<1>2. CASE Stop(k)
  BY <1>1, <1>2, StopMoves
<1>3. ASSUME NEW step \in {"add_card", "add_state", "add_clear"}, GoTo(k, step)
      PROVE  ~task[k].polished => Moves(k) /\ TaskFits(k) /\ VerdictFits(k)
  <2>1. step \in Steps /\ step \notin Typing \cup Drafted \cup About \cup Telling
    BY DEF Steps, Typing, Drafted, About, Telling
  <2>2. QED BY <1>1, <1>3, <2>1, GoToMoves
<1>4. (AddId(k) \/ AddCard(k) \/ AddFinish(k)) => ~task[k].polished
  BY <1>1 DEF AddId, AddCard, AddFinish, TaskInv, At
<1>5. QED BY <1>2, <1>3, <1>4
          DEF AddStart, AddId, AddCard, AddState, AddFinish, AddClear

LEMMA FormsMove ==
  ASSUME Basics, NEW k \in Tasks, Handler(k)
  PROVE  /\ Moves(k) /\ TaskFits(k)
         /\ VerdictFits(k) \/ ((RejectWrite(k) \/ ApproveWrite(k)) /\ Pending(task[k].request))
BY AnnMoves, ReviewMoves, AddMoves DEF Handler

(* A handler keeps the types.                                              *)
RequestRows == [Requests -> [status : {"pending", "approved", "rejected", "deleted"},
                      by : Staff \cup {None}, meant : Requests \cup {None}]]

LEMMA FormTypes ==
  ASSUME Basics, NEW k \in Tasks, Handler(k)
  PROVE  /\ fsm' \in [Staff -> Contexts] /\ asked' \in [Staff -> Requests \cup {None}]
         /\ seen' \in [Staff -> SUBSET (Texts \cup Labels \cup {"category"})]
         /\ cut' \subseteq Staff \cup Texts \cup Labels /\ workers' \subseteq Ids
<1> DEFINE s == task[k].who
<1>1. /\ TypeOK /\ TaskInv /\ ~At(k, "idle")
      /\ fsm \in [Staff -> Contexts] /\ asked \in [Staff -> Requests \cup {None}]
      /\ seen \in [Staff -> SUBSET (Texts \cup Labels \cup {"category"})]
      /\ cut \subseteq Staff \cup Texts \cup Labels /\ workers \subseteq Ids
  BY DEF Basics, TypeOK, Contexts, At, Handler, Cancel, AnnStart, AnnText, AnnCard, AnnUse,
     Publish, AnnClear, Broadcast, RejectStart, RejectData, RejectAsk, RejectText, RejectWrite,
     RejectClear, RejectTell, Approve, ApproveWrite, ApproveTell, AddStart, AddId, AddCard,
     AddState, AddFinish, AddClear
<1>2. s \in Staff /\ fsm[s] \in Contexts
  BY <1>1, AtWork
<1>3. /\ task[k].at \in Drafted => task[k].text \in Texts \cup Labels
      /\ task[k].at \in Typing => task[k].text \in Typeable
      /\ task[k].at \in About => task[k].request \in Requests
  BY <1>1 DEF TaskInv
<1>4. fsm' \in [Staff -> Contexts]
  <2>1. \/ fsm' = fsm \/ Clear(s)
        \/ \E state \in Forms : SetState(s, state)
        \/ \E r \in Requests : SetRequest(s, r)
        \/ \E t \in Texts \cup Labels : fsm' = [fsm EXCEPT ![s].pending = t]
        \/ \E t \in Ids : fsm' = [fsm EXCEPT ![s].tid = t]
    <3>1. {"none", "reject", "announce", "worker_id", "worker_category"} \subseteq Forms
      BY DEF Forms
    <3>2. CASE AnnText(k)
      BY <1>3, <3>2, LongTexts DEF AnnText, At, Typing
    <3>3. CASE RejectData(k)
      BY <1>3, <3>3 DEF RejectData, At, About
    <3>4. CASE \/ Cancel(k) \/ AnnStart(k) \/ AnnCard(k) \/ AnnUse(k)
               \/ Publish(k) \/ AnnClear(k) \/ Broadcast(k)
      BY <3>1, <3>4 DEF Cancel, AnnStart, AnnCard, AnnUse, Publish, AnnClear, Broadcast
    <3>5. CASE \/ RejectStart(k) \/ RejectAsk(k) \/ RejectText(k) \/ RejectWrite(k)
               \/ RejectClear(k) \/ RejectTell(k)
      BY <3>1, <3>5 DEF RejectStart, RejectAsk, RejectText, RejectWrite, Review, RejectClear,
         RejectTell, Tell
    <3>6. CASE Approve(k) \/ ApproveWrite(k) \/ ApproveTell(k)
      BY <3>6 DEF Approve, ApproveWrite, ApproveTell, Review, Tell
    <3>7. CASE \/ AddStart(k) \/ AddId(k) \/ AddCard(k) \/ AddState(k)
               \/ AddFinish(k) \/ AddClear(k)
      BY <3>1, <3>7 DEF AddStart, AddId, AddCard, AddState, AddFinish, AddClear
    <3>8. QED BY <3>2, <3>3, <3>4, <3>5, <3>6, <3>7 DEF Handler
  <2> HIDE DEF s
  <2>2. QED BY <1>1, <1>2, <2>1, SetStateFacts, ClearFacts, SetRequestFacts,
            StorePending, StoreId
<1>5. asked' \in [Staff -> Requests \cup {None}]
  <2>1. \/ asked' = asked \/ asked' = [asked EXCEPT ![s] = None]
        \/ \E r \in Requests : asked' = [asked EXCEPT ![s] = r]
    <3>1. CASE RejectAsk(k)
      BY <1>3, <3>1 DEF RejectAsk, At, About
    <3>2. CASE ~RejectAsk(k)
      BY <3>2 DEF Handler, Cancel, AnnStart, AnnText, AnnCard, AnnUse,
         Publish, AnnClear, Broadcast, RejectStart, RejectData, RejectText, RejectWrite,
         Review, RejectClear, RejectTell, Tell, Approve, ApproveWrite, ApproveTell, AddStart,
         AddId, AddCard, AddState, AddFinish, AddClear
    <3>3. QED BY <3>1, <3>2
  <2>2. QED BY <1>1, <1>2, <2>1
<1>6. seen' \in [Staff -> SUBSET (Texts \cup Labels \cup {"category"})]
  <2>1. \/ seen' = seen
        \/ \E c \in Texts \cup Labels \cup {"category"} : seen' = [seen EXCEPT ![s] = @ \cup {c}]
    <3>1. CASE AnnCard(k)
      BY <1>3, <3>1 DEF AnnCard, At, Drafted
    <3>2. CASE ~AnnCard(k)
      BY <3>2 DEF Handler, Cancel, AnnStart, AnnText, AnnUse,
         Publish, AnnClear, Broadcast, RejectStart, RejectData, RejectAsk, RejectText,
         RejectWrite, Review, RejectClear, RejectTell, Tell, Approve, ApproveWrite,
         ApproveTell, AddStart, AddId, AddCard, AddState, AddFinish, AddClear
    <3>3. QED BY <3>1, <3>2
  <2>2. QED BY <1>1, <1>2, <2>1
<1>7. cut' \subseteq Staff \cup Texts \cup Labels
  <2>1. CASE AnnCard(k)
    BY <1>1, <1>3, <2>1 DEF AnnCard, At, Drafted
  <2>2. CASE ~AnnCard(k)
    BY <1>1, <2>2 DEF Handler, Cancel, AnnStart, AnnText, AnnUse,
       Publish, AnnClear, Broadcast, RejectStart, RejectData, RejectAsk, RejectText,
       RejectWrite, Review, RejectClear, RejectTell, Tell, Approve, ApproveWrite,
       ApproveTell, AddStart, AddId, AddCard, AddState, AddFinish, AddClear
  <2>3. QED BY <2>1, <2>2
<1>8. workers' \subseteq Ids
  <2>1. CASE AddFinish(k)
    BY <1>1, <1>2, <2>1 DEF AddFinish, Contexts
  <2>2. CASE ~AddFinish(k)
    BY <1>1, <2>2 DEF Handler, Cancel, AnnStart, AnnText, AnnCard, AnnUse, world,
       Publish, AnnClear, Broadcast, RejectStart, RejectData, RejectAsk, RejectText,
       RejectWrite, Review, RejectClear, RejectTell, Tell, Approve, ApproveWrite,
       ApproveTell, AddStart, AddId, AddCard, AddState, AddClear
  <2>3. QED BY <2>1, <2>2
<1>9. QED BY <1>4, <1>5, <1>6, <1>7, <1>8

LEMMA TableTypes ==
  ASSUME Basics, NEW k \in Tasks, Handler(k)
  PROVE  /\ published' \in Seq(Drafts) /\ heard' \in [Texts \cup Labels -> Nat]
         /\ requests' \in RequestRows /\ told' \in [Requests -> Seq({"approved", "rejected"})]
         /\ UNCHANGED <<access, typed, updates, failures, patient>>
<1> DEFINE t == task[k].text
           r == task[k].request
<1>1. /\ TypeOK /\ TaskInv /\ published \in Seq(Drafts) /\ heard \in [Texts \cup Labels -> Nat]
      /\ requests \in RequestRows /\ told \in [Requests -> Seq({"approved", "rejected"})]
  BY DEF Basics, TypeOK, RequestRows
<1>2. CASE Publish(k)
  <2>1. t \in Texts \cup Labels /\ task[k].polished \in BOOLEAN
    BY <1>1, <1>2, Busy DEF Publish, At, TaskInv, Drafted, Handlers
  <2>2. PICK draft : draft = [text |-> t, polished |-> task[k].polished]
    OBVIOUS
  <2>3. draft \in Drafts /\ published' = Append(published, draft)
    BY <1>2, <2>1, <2>2 DEF Drafts, Publish
  <2>4. published' \in Seq(Drafts)
    BY <1>1, <2>3, AppendProperties
  <2>5. UNCHANGED <<access, requests, heard, told, typed, updates, failures, patient>>
    BY <1>2 DEF Publish
  <2>6. heard' \in [Texts \cup Labels -> Nat] /\ requests' \in RequestRows
    BY <1>1, <2>5
  <2>7. told' \in [Requests -> Seq({"approved", "rejected"})]
    BY <1>1, <2>5
  <2>8. QED BY <2>4, <2>5, <2>6, <2>7
<1>3. CASE Broadcast(k)
  <2>1. heard' \in [Texts \cup Labels -> Nat]
    <3>1. t \in Texts \cup Labels
      BY <1>1, <1>3 DEF Broadcast, At, TaskInv, Drafted
    <3>2. QED BY <1>1, <1>3, <3>1 DEF Broadcast
  <2>2. UNCHANGED <<access, requests, published, told, typed, updates, failures, patient>>
    BY <1>3 DEF Broadcast
  <2>3. published' \in Seq(Drafts) /\ requests' \in RequestRows
    BY <1>1, <2>2
  <2>4. told' \in [Requests -> Seq({"approved", "rejected"})]
    BY <1>1, <2>2
  <2>5. QED BY <2>1, <2>2, <2>3, <2>4
<1>4. CASE (RejectWrite(k) \/ ApproveWrite(k)) /\ requests' # requests
  <2>1. ~At(k, "idle")
    BY <1>4 DEF RejectWrite, ApproveWrite, At
  <2>2. task[k].who \in Staff /\ asked \in [Staff -> Requests \cup {None}]
    BY <2>1, AtWork
  <2>3. PICK row \in [status : {"pending", "approved", "rejected", "deleted"},
                      by : Staff \cup {None}, meant : Requests \cup {None}] :
          requests' = [requests EXCEPT ![r] = row]
    BY <1>4, <2>2 DEF RejectWrite, ApproveWrite, Review
  <2>4. requests' \in RequestRows
    BY <1>1, <2>3 DEF RequestRows
  <2>5. QED BY <1>1, <1>4, <2>4 DEF RejectWrite, ApproveWrite, Review
<1>5. CASE (RejectTell(k) \/ ApproveTell(k)) /\ told' # told
  <2>1. r \in Requests
    BY <1>1, <1>5 DEF TaskInv, RejectTell, ApproveTell, At, About, Telling
  <2>2. PICK ruling \in {"approved", "rejected"} : told' = [told EXCEPT ![r] = Append(@, ruling)]
    BY <1>5 DEF RejectTell, ApproveTell, Tell, world
  <2>3. Append(told[r], ruling) \in Seq({"approved", "rejected"})
    BY <1>1, <2>1, AppendProperties
  <2>4. told' \in [Requests -> Seq({"approved", "rejected"})]
    BY <1>1, <2>1, <2>2, <2>3
  <2>5. QED BY <1>1, <1>5, <2>4 DEF RejectTell, ApproveTell, Tell, world
<1>6. CASE \/ (RejectWrite(k) \/ ApproveWrite(k)) /\ requests' = requests
           \/ (RejectTell(k) \/ ApproveTell(k)) /\ told' = told
  BY <1>1, <1>6 DEF RejectWrite, ApproveWrite, Review, RejectTell, ApproveTell, Tell, world
<1>7. CASE \/ Cancel(k) \/ AnnStart(k) \/ AnnText(k) \/ AnnCard(k) \/ AnnUse(k) \/ AnnClear(k)
           \/ RejectStart(k) \/ RejectData(k) \/ RejectAsk(k) \/ RejectText(k)
           \/ RejectClear(k) \/ Approve(k) \/ AddStart(k) \/ AddId(k) \/ AddCard(k)
           \/ AddState(k) \/ AddFinish(k) \/ AddClear(k)
  BY <1>1, <1>7 DEF Cancel, AnnStart, AnnText, AnnCard, AnnUse, AnnClear, RejectStart,
     RejectData, RejectAsk, RejectText, RejectClear, Approve, AddStart, AddId, AddCard,
     AddState, AddFinish, AddClear, world
<1>8. QED BY <1>2, <1>3, <1>4, <1>5, <1>6, <1>7 DEF Handler

(* The conditional UPDATE: the first verdict is the only one, and it is    *)
(* the writer's to tell.                                                   *)
LEMMA Rules ==
  ASSUME Basics, NEW k \in Tasks, RejectWrite(k) \/ ApproveWrite(k),
         Pending(task[k].request)
  PROVE  VerdictInv'
<1> DEFINE s == task[k].who
           r == task[k].request
<1>1. PICK ruling \in {"rejected", "approved"}, next \in {"reject_clear", "approve_tell"} :
        /\ Pending(r) /\ GoTo(k, next) /\ (next = "approve_tell" <=> ruling = "approved")
        /\ requests' = [requests EXCEPT ![r] =
                          [status |-> ruling, by |-> s, meant |-> asked[s]]]
  BY DEF RejectWrite, ApproveWrite, Review
<1>2. ~At(k, "idle") /\ task[k].at \in {"reject_write", "approve_write"} /\ told' = told
  BY DEF RejectWrite, ApproveWrite, Review, At
<1>3. TaskInv /\ r \in Requests /\ requests \in RequestRows
  BY <1>2 DEF Basics, TypeOK, RequestRows, TaskInv, About
<1>4. next \in Steps /\ next \in Telling
  BY DEF Steps, Telling
<1>5. /\ task'[k].at = next /\ task'[k].request = r
      /\ \A j \in Tasks \ {k} : task'[j] = task[j]
  BY <1>1, <1>2, <1>3, <1>4, GoToFacts
<1>6. PICK row : row = [status |-> ruling, by |-> s, meant |-> asked[s]]
  OBVIOUS
<1>7. requests'[r].status = ruling /\ \A q \in Requests \ {r} : requests'[q] = requests[q]
  BY <1>1, <1>3, <1>6 DEF RequestRows
<1>8. told[r] = <<>> /\ \A j \in Tasks : task[j].at \in Telling => task[j].request # r
  <2>1. VerdictInv
    BY DEF Basics
  <2>2. QED BY <1>1, <1>3, <2>1 DEF VerdictInv, Pending
<1> HIDE DEF s, r
<1>9. \A j \in Tasks : task'[j].at \in Telling =>
        \/ j = k /\ task'[j].request = r
        \/ task'[j] = task[j] /\ task[j].at \in Telling /\ task[j].request # r
  BY <1>5, <1>8
<1>10. ASSUME NEW j \in Tasks, task'[j].at \in Telling
       PROVE  /\ told'[task'[j].request] = <<>>
              /\ requests'[task'[j].request].status \in
                   {IF At(j, "approve_tell")' THEN "approved" ELSE "rejected", "deleted"}
              /\ \A i \in Tasks :
                   task'[i].at \in Telling /\ task'[i].request = task'[j].request => i = j
  <2>1. CASE j = k /\ task'[j].request = r
    BY <1>1, <1>2, <1>5, <1>7, <1>8, <1>9, <2>1 DEF At
  <2>2. CASE task'[j] = task[j] /\ task[j].at \in Telling /\ task[j].request # r
    <3>1. task[j].request \in Requests
      BY <1>3, <2>2, Kinds DEF TaskInv
    <3>2. requests'[task[j].request] = requests[task[j].request]
      BY <1>7, <2>2, <3>1
    <3>3. QED BY <1>2, <1>9, <2>2, <3>2 DEF Basics, VerdictInv, At
  <2>3. QED BY <1>9, <1>10, <2>1, <2>2
<1>11. \A q \in Requests : Pending(q)' => told'[q] = <<>>
  BY <1>2, <1>3, <1>7, <1>8 DEF Basics, VerdictInv, Pending
<1>12. OneVerdict'
  <2>1. Len(<<>>) <= 1 /\ DOMAIN <<>> = {}
    OBVIOUS
  <2>2. QED BY <1>2, <1>3, <1>7, <1>8, <2>1 DEF Basics, VerdictInv, OneVerdict
<1>13. QED BY <1>10, <1>11, <1>12 DEF VerdictInv

(* A list of one.                                                          *)
LEMMA Alone ==
  ASSUME NEW v, NEW list, list = <<v>>
  PROVE  Len(list) = 1 /\ \A i \in DOMAIN list : list[i] = v
<1>1. Len(<<v>>) = 1 /\ DOMAIN <<v>> = {1} /\ <<v>>[1] = v
  OBVIOUS
<1>2. QED BY <1>1

(* The resident is told by the handler whose verdict is stored.            *)
LEMMA Tells ==
  ASSUME Basics, NEW k \in Tasks, RejectTell(k) \/ ApproveTell(k), told' # told
  PROVE  VerdictInv'
<1> DEFINE r == task[k].request
<1>1. /\ Stop(k) /\ requests' = requests /\ TaskInv
      /\ task[k].at \in {"reject_tell", "approve_tell"}
  BY DEF RejectTell, ApproveTell, Tell, At, world, Basics
<1>2. r \in Requests /\ task[k].at \in Telling
  BY <1>1 DEF TaskInv, About, Telling
<1>3. PICK ruling \in {"rejected", "approved"} :
        /\ ruling = IF At(k, "approve_tell") THEN "approved" ELSE "rejected"
        /\ told' = [told EXCEPT ![r] = Append(@, ruling)]
  BY <1>1 DEF RejectTell, ApproveTell, Tell, At, world
<1>4. task'[k].at = "idle" /\ \A j \in Tasks \ {k} : task'[j] = task[j]
  BY <1>1, StopFacts
<1>5. /\ told \in [Requests -> Seq({"approved", "rejected"})] /\ told[r] = <<>>
      /\ requests[r].status \in {ruling, "deleted"}
      /\ \A j \in Tasks : task[j].at \in Telling /\ task[j].request = r => j = k
  BY <1>2, <1>3 DEF Basics, TypeOK, VerdictInv
<1>6. told'[r] = <<ruling>> /\ \A q \in Requests \ {r} : told'[q] = told[q]
  <2>1. Append(<<>>, ruling) = <<ruling>>
    OBVIOUS
  <2>2. QED BY <1>2, <1>3, <1>5, <2>1
<1> HIDE DEF r
<1>7. \A j \in Tasks : task'[j].at \in Telling =>
        /\ task'[j] = task[j] /\ task[j].at \in Telling
        /\ task[j].request # r /\ task[j].request \in Requests
  BY <1>1, <1>4, <1>5, Kinds DEF TaskInv
<1>8. ASSUME NEW j \in Tasks, task'[j].at \in Telling
      PROVE  /\ told'[task'[j].request] = <<>>
             /\ requests'[task'[j].request].status \in
                  {IF At(j, "approve_tell")' THEN "approved" ELSE "rejected", "deleted"}
             /\ \A i \in Tasks :
                  task'[i].at \in Telling /\ task'[i].request = task'[j].request => i = j
  BY <1>1, <1>6, <1>7, <1>8 DEF Basics, VerdictInv, At
<1>9. \A q \in Requests : Pending(q)' => told'[q] = <<>>
  BY <1>1, <1>5, <1>6 DEF Basics, VerdictInv, Pending
<1>10. OneVerdict'
  <2>1. PICK x \in Requests : x = r
    BY <1>2
  <2>2. /\ requests'[x].status # "deleted" => requests'[x].status = ruling
        /\ \A q \in Requests \ {x} : told'[q] = told[q] /\ requests'[q] = requests[q]
    BY <1>1, <1>5, <1>6, <2>1
  <2>3. ASSUME NEW q \in Requests
        PROVE  /\ Len(told'[q]) <= 1
               /\ requests'[q].status # "deleted" =>
                    \A i \in DOMAIN told'[q] : told'[q][i] = requests'[q].status
    <3>1. CASE q = x
      <4>1. Len(told'[q]) = 1 /\ \A i \in DOMAIN told'[q] : told'[q][i] = ruling
        BY <1>6, <2>1, <3>1, Alone
      <4>2. QED BY <2>2, <3>1, <4>1
    <3>2. CASE q # x
      BY <2>2, <3>2 DEF Basics, VerdictInv, OneVerdict
    <3>3. QED BY <3>1, <3>2
  <2>4. QED BY <2>3 DEF OneVerdict
<1>11. QED BY <1>8, <1>9, <1>10 DEF VerdictInv

LEMMA HandlerBasics ==
  ASSUME Basics, NEW k \in Tasks, Handler(k)
  PROVE  Basics'
<1>1. Moves(k) /\ TaskFits(k) /\ TaskInv /\ VerdictInv /\ TypeOK
  BY FormsMove DEF Basics
<1>2. TaskInv'
  BY <1>1, TaskKept
<1>3. TypeOK'
  <2>1. \A j \in Tasks : task'[j] = Free \/ task'[j] \in Handlers
    BY <1>1 DEF Moves
  <2>2. QED BY <1>1, <2>1, FormTypes, TableTypes DEF TypeOK, Handlers, Contexts, RequestRows
<1>4. VerdictInv'
  <2>1. CASE (RejectWrite(k) \/ ApproveWrite(k)) /\ Pending(task[k].request)
    BY <2>1, Rules
  <2>2. CASE (RejectTell(k) \/ ApproveTell(k)) /\ told' # told
    BY <2>2, Tells
  <2>3. CASE requests' = requests /\ told' = told /\ VerdictFits(k)
    BY <1>1, <2>3, VerdictKept
  <2>4. ~((RejectWrite(k) \/ ApproveWrite(k)) /\ Pending(task[k].request)) => requests' = requests
    BY DEF Handler, Cancel, AnnStart, AnnText, AnnCard, AnnUse, Publish, AnnClear, Broadcast,
       RejectStart, RejectData, RejectAsk, RejectText, RejectWrite, Review, RejectClear,
       RejectTell, Tell, Approve, ApproveWrite, ApproveTell, AddStart, AddId, AddCard,
       AddState, AddFinish, AddClear, world
  <2>5. ~(RejectTell(k) \/ ApproveTell(k)) => told' = told
    BY DEF Handler, Cancel, AnnStart, AnnText, AnnCard, AnnUse, Publish, AnnClear, Broadcast,
       RejectStart, RejectData, RejectAsk, RejectText, RejectWrite, Review, RejectClear,
       RejectTell, Tell, Approve, ApproveWrite, ApproveTell, AddStart, AddId, AddCard,
       AddState, AddFinish, AddClear, world
  <2>6. QED BY <2>1, <2>2, <2>3, <2>4, <2>5, FormsMove
<1>5. QED BY <1>2, <1>3, <1>4 DEF Basics

-----------------------------------------------------------------------------
(* What holds although people do not wait: updates, others and failures.   *)

(* A handler that begins, holding what its step needs.                     *)
Starts(k, s, step, t, r, polished) ==
  /\ Begin(k, s, step, t, r, polished)
  /\ step \in Steps \ (Drafted \cup Telling)
  /\ step \notin {"reject_data", "reject_ask", "reject_write", "add_card", "add_state"}
  /\ step \in Typing => t \in Typeable
  /\ step \in About => r \in Requests
  /\ polished => step = "ann_use"
  /\ t \notin typed /\ typed' = typed \cup ({t} \cap Texts)

(* The first handler that fits takes a message.                            *)
LEMMA Receivers ==
  ASSUME NEW m, NEW state
  PROVE  Receiver(m, state) \in {"cancel", "list", "reject_text", "ann_start", "ann_text",
                                 "add_start", "add_id", "nobody"}
<1> DEFINE fits == {i \in DOMAIN Registered :
                      \/ Registered[i].on = m
                      \/ Registered[i].on = state /\ (state = "reject" \/ m # Photo)}
<1>1. DOMAIN Registered = 1..9
  BY DEF Registered
<1>2. \A i \in 1..9 : Registered[i].step \in
        {"cancel", "list", "reject_text", "ann_start", "ann_text", "add_start", "add_id"}
  BY DEF Registered
<1>3. CASE fits = {}
  BY <1>3 DEF Receiver
<1>4. CASE fits # {}
  <2>1. fits \subseteq 1..9
    BY <1>1
  <2> HIDE DEF fits
  <2>2. \E i \in fits : \A j \in fits : i <= j
    <3>1. PICK n \in fits : TRUE
      BY <1>4
    <3>2. CASE 1 \in fits
      BY <2>1, <3>2
    <3>3. CASE 1 \notin fits /\ 2 \in fits
      BY <2>1, <3>3
    <3>4. CASE 1 \notin fits /\ 2 \notin fits /\ 3 \in fits
      BY <2>1, <3>4
    <3>5. CASE 1 \notin fits /\ 2 \notin fits /\ 3 \notin fits /\ 4 \in fits
      BY <2>1, <3>5
    <3>6. CASE 1 \notin fits /\ 2 \notin fits /\ 3 \notin fits /\ 4 \notin fits /\ 5 \in fits
      BY <2>1, <3>6
    <3>7. CASE /\ 1 \notin fits /\ 2 \notin fits /\ 3 \notin fits /\ 4 \notin fits
               /\ 5 \notin fits /\ 6 \in fits
      BY <2>1, <3>7
    <3>8. CASE /\ 1 \notin fits /\ 2 \notin fits /\ 3 \notin fits /\ 4 \notin fits
               /\ 5 \notin fits /\ 6 \notin fits /\ 7 \in fits
      BY <2>1, <3>8
    <3>9. CASE fits \subseteq {8, 9}
      BY <3>1, <3>9
    <3>10. QED BY <2>1, <3>2, <3>3, <3>4, <3>5, <3>6, <3>7, <3>8, <3>9
  <2>3. PICK i \in fits : i = CHOOSE n \in fits : \A j \in fits : n <= j
    BY <2>2
  <2>4. Receiver(m, state) = Registered[i].step
    BY <1>4, <2>3 DEF Receiver, fits
  <2>5. QED BY <1>2, <2>1, <2>3, <2>4
<1>5. QED BY <1>3, <1>4
(* Every update starts a handler in this way.                              *)
LEMMA Updates ==
  ASSUME TypeOK, NEW k \in Tasks, NEW s \in Staff,
         Tap(k, s) \/ \E m \in Typeable : Receive(k, s, m)
  PROVE  \E step \in Steps, t \in Typeable \cup {None}, r \in Requests \cup {None},
            polished \in BOOLEAN : Starts(k, s, step, t, r, polished)
<1>1. ASSUME NEW m \in Typeable, Receive(k, s, m)
      PROVE  \E step \in Steps : Starts(k, s, step, m, None, FALSE)
  <2>1. PICK step : step = Receiver(m, fsm[s].state)
    OBVIOUS
  <2>2. step \in {"cancel", "reject_text", "ann_start", "ann_text", "add_start", "add_id"}
    BY <1>1, <2>1, Receivers DEF Receive
  <2>3. /\ Begin(k, s, step, m, None, FALSE)
        /\ m \notin typed /\ typed' = typed \cup ({m} \cap Texts)
    BY <1>1, <2>1 DEF Receive
  <2>4. /\ step \in Steps \ (Drafted \cup Telling) /\ step \notin About
        /\ step \notin {"reject_data", "reject_ask", "reject_write", "add_card", "add_state"}
    BY <2>2 DEF Steps, Drafted, Telling, About
  <2>5. QED BY <2>3, <2>4 DEF Starts
<1>2. ASSUME NEW step \in {"approve", "reject_start", "ann_use", "add_finish", "cancel"},
             NEW r \in Requests \cup {None}, NEW polished \in BOOLEAN,
             Begin(k, s, step, None, r, polished), typed' = typed,
             step \in {"approve", "reject_start"} => r \in Requests,
             polished => step = "ann_use"
      PROVE  step \in Steps /\ Starts(k, s, step, None, r, polished)
  <2>1. None \notin typed /\ typed' = typed \cup ({None} \cap Texts)
    BY <1>2, Kinds DEF TypeOK
  <2>2. /\ step \in Steps \ (Drafted \cup Telling) /\ step \notin Typing
        /\ step \in About => r \in Requests
        /\ step \notin {"reject_data", "reject_ask", "reject_write", "add_card", "add_state"}
    BY <1>2 DEF Steps, Drafted, Telling, About, Typing
  <2>3. QED BY <1>2, <2>1, <2>2 DEF Starts
<1>3. CASE Tap(k, s)
  <2>1. \E step \in {"approve", "reject_start", "ann_use", "add_finish", "cancel"},
           r \in Requests \cup {None}, polished \in BOOLEAN :
          /\ Begin(k, s, step, None, r, polished) /\ typed' = typed
          /\ step \in {"approve", "reject_start"} => r \in Requests
          /\ polished => step = "ann_use"
    BY <1>3 DEF Tap
  <2>2. QED BY <1>2, <2>1
<1>4. QED BY <1>1, <1>3

LEMMA Started ==
  ASSUME Basics, NEW k \in Tasks, NEW s \in Staff, NEW step \in Steps,
         NEW t \in Typeable \cup {None}, NEW r \in Requests \cup {None},
         NEW polished \in BOOLEAN, Starts(k, s, step, t, r, polished)
  PROVE  /\ task[k] = Free /\ task' \in [Tasks -> Handlers \cup {Free}]
         /\ task'[k] \in Handlers /\ task'[k].at = step /\ task'[k].who = s
         /\ task'[k].text = t /\ task'[k].request = r /\ task'[k].polished = polished
         /\ \A j \in Tasks \ {k} : task'[j] = task[j]
         /\ UNCHANGED <<access, fsm, requests, published, heard, told, workers, seen,
                        asked, cut, failures, patient>>
         /\ updates < MaxUpdates /\ updates' = updates + 1
<1>1. PICK v : v = [at |-> step, who |-> s, text |-> t, request |-> r, polished |-> polished]
  OBVIOUS
<1>2. /\ v \in Handlers /\ v.at = step /\ v.who = s /\ v.text = t /\ v.request = r
      /\ v.polished = polished
  BY <1>1 DEF Handlers
<1>3. task[k] = Free /\ task' = [task EXCEPT ![k] = v] /\ TaskInv
  BY <1>1, Busy DEF Starts, Begin, Basics, At
<1>4. /\ task' \in [Tasks -> Handlers \cup {Free}] /\ task'[k] = v
      /\ \A j \in Tasks \ {k} : task'[j] = task[j]
  BY <1>2, <1>3 DEF TaskInv
<1>5. updates < MaxUpdates
  BY StaffFormsAssumption DEF Starts, Begin, Limit, Basics, TypeOK
<1>6. QED BY <1>2, <1>3, <1>4, <1>5 DEF Starts, Begin, world

LEMMA StartBasics ==
  ASSUME Basics, NEW k \in Tasks, NEW s \in Staff, NEW step \in Steps,
         NEW t \in Typeable \cup {None}, NEW r \in Requests \cup {None},
         NEW polished \in BOOLEAN, Starts(k, s, step, t, r, polished)
  PROVE  Basics'
<1>1. /\ task' \in [Tasks -> Handlers \cup {Free}]
      /\ task'[k].at = step /\ task'[k].text = t /\ task'[k].request = r
      /\ task'[k].polished = polished
      /\ \A j \in Tasks \ {k} : task'[j] = task[j]
      /\ UNCHANGED <<access, fsm, requests, published, heard, told, workers, seen,
                     asked, cut, failures, patient>>
      /\ updates < MaxUpdates /\ updates' = updates + 1
  BY Started
<1>2. TaskInv'
  BY <1>1 DEF Basics, TaskInv, Starts
<1>3. VerdictInv'
  <2>1. \A j \in Tasks : task'[j].at \in Telling => task'[j] = task[j] /\ task[j].at \in Telling
    BY <1>1 DEF Starts
  <2>2. (\A q \in Requests : Pending(q) => told[q] = <<>>)' /\ OneVerdict'
    BY <1>1 DEF Basics, VerdictInv, Pending, OneVerdict
  <2>3. ASSUME NEW j \in Tasks, task'[j].at \in Telling
        PROVE  /\ told'[task'[j].request] = <<>>
               /\ requests'[task'[j].request].status \in
                    {IF At(j, "approve_tell")' THEN "approved" ELSE "rejected", "deleted"}
               /\ \A i \in Tasks :
                    task'[i].at \in Telling /\ task'[i].request = task'[j].request => i = j
    BY <1>1, <2>1, <2>3 DEF Basics, VerdictInv, At
  <2>4. QED BY <2>2, <2>3 DEF VerdictInv
<1>4. TypeOK'
  <2>1. \A j \in Tasks : task'[j] = Free \/ task'[j] \in Handlers
    BY <1>1
  <2>2. updates' \in 0..MaxUpdates
    BY <1>1, StaffFormsAssumption DEF Basics, TypeOK
  <2>3. typed' \subseteq Texts
    BY DEF Basics, TypeOK, Starts
  <2>4. QED BY <1>1, <2>1, <2>2, <2>3 DEF Basics, TypeOK, Handlers
<1>5. QED BY <1>2, <1>3, <1>4 DEF Basics

(* What others do, each in one step: somebody's access is revoked,         *)
(* requests are reviewed or deleted, announcements deleted.                *)
LEMMA OthersCount ==
  ASSUME TypeOK, Other
  PROVE  updates' \in 0..MaxUpdates
BY StaffFormsAssumption DEF Other, Limit, TypeOK

LEMMA RevokeBasics ==
  ASSUME Basics, NEW s \in Staff, Revoke(s)
  PROVE  Basics'
<1>1. /\ access' = [access EXCEPT ![s] = "none"]
      /\ UNCHANGED <<fsm, task, requests, published, heard, told, workers, seen, asked,
                     cut, typed, failures, patient>>
  BY DEF Revoke, world
<1>2. TypeOK'
  <2>1. updates' \in 0..MaxUpdates
    BY OthersCount DEF Basics, Revoke
  <2>2. access' \in [Staff -> {"administrator", "dispatcher", "none"}]
    BY <1>1 DEF Basics, TypeOK
  <2>3. QED BY <1>1, <2>1, <2>2 DEF Basics, TypeOK
<1>3. QED BY <1>1, <1>2 DEF Basics, TaskInv, VerdictInv, OneVerdict, Pending, At

(* Another chairman tells his verdict only if none was stored.             *)
LEMMA ReviewByOtherBasics ==
  ASSUME Basics, NEW r \in Requests, NEW ruling \in {"approved", "rejected"},
         ReviewByOther(r, ruling)
  PROVE  Basics'
<1>1. /\ Pending(r) /\ told' = [told EXCEPT ![r] = Append(@, ruling)]
      /\ requests' = [requests EXCEPT ![r] = [status |-> ruling, by |-> None, meant |-> r]]
      /\ UNCHANGED <<access, fsm, task, published, heard, workers, seen, asked, cut,
                     typed, failures, patient>>
  BY DEF ReviewByOther
<1>2. PICK row : row = [status |-> ruling, by |-> None, meant |-> r]
  OBVIOUS
<1>3. /\ row \in [status : {"pending", "approved", "rejected", "deleted"},
                  by : Staff \cup {None}, meant : Requests \cup {None}]
      /\ row.status = ruling
  BY <1>2
<1>4. /\ requests' \in RequestRows
      /\ requests'[r] = row /\ \A q \in Requests \ {r} : requests'[q] = requests[q]
  BY <1>1, <1>2, <1>3 DEF Basics, TypeOK, RequestRows
<1>5. /\ told \in [Requests -> Seq({"approved", "rejected"})] /\ told[r] = <<>>
      /\ \A j \in Tasks : task[j].at \in Telling => task[j].request # r
  BY <1>1 DEF Basics, TypeOK, VerdictInv, Pending
<1>6. /\ told' \in [Requests -> Seq({"approved", "rejected"})]
      /\ told'[r] = <<ruling>> /\ \A q \in Requests \ {r} : told'[q] = told[q]
  <2>1. <<ruling>> \in Seq({"approved", "rejected"}) /\ Append(<<>>, ruling) = <<ruling>>
    OBVIOUS
  <2>2. QED BY <1>1, <1>5, <2>1
<1>7. TypeOK'
  <2>1. updates' \in 0..MaxUpdates
    BY OthersCount DEF Basics, ReviewByOther
  <2>2. QED BY <1>1, <1>4, <1>6, <2>1 DEF Basics, TypeOK, RequestRows
<1>8. TaskInv'
  BY <1>1 DEF Basics, TaskInv
<1>9. VerdictInv'
  <2>1. ASSUME NEW j \in Tasks, task'[j].at \in Telling
        PROVE  /\ told'[task'[j].request] = <<>>
               /\ requests'[task'[j].request].status \in
                    {IF At(j, "approve_tell")' THEN "approved" ELSE "rejected", "deleted"}
               /\ \A i \in Tasks :
                    task'[i].at \in Telling /\ task'[i].request = task'[j].request => i = j
    <3>1. task'[j] = task[j] /\ task[j].request \in Requests /\ task[j].request # r
      BY <1>1, <1>5, <2>1, Kinds DEF Basics, TaskInv
    <3>2. QED BY <1>1, <1>4, <1>6, <2>1, <3>1 DEF Basics, VerdictInv, At
  <2>2. \A q \in Requests : Pending(q)' => told'[q] = <<>>
    BY <1>3, <1>4, <1>6 DEF Basics, VerdictInv, Pending
  <2>3. OneVerdict'
    <3>1. Len(told'[r]) = 1 /\ \A i \in DOMAIN told'[r] : told'[r][i] = ruling
      BY <1>6, Alone
    <3>2. ASSUME NEW q \in Requests
          PROVE  /\ Len(told'[q]) <= 1
                 /\ requests'[q].status # "deleted" =>
                      \A i \in DOMAIN told'[q] : told'[q][i] = requests'[q].status
      <4>1. CASE q = r
        <5>1. requests'[r].status = ruling
          BY <1>3, <1>4
        <5>2. Len(told'[r]) <= 1 /\ \A i \in DOMAIN told'[r] : told'[r][i] = requests'[r].status
          BY <3>1, <5>1
        <5>3. QED BY <4>1, <5>2
      <4>2. CASE q # r
        BY <1>4, <1>6, <4>2 DEF Basics, VerdictInv, OneVerdict
      <4>3. QED BY <4>1, <4>2
    <3>3. QED BY <3>2 DEF OneVerdict
  <2>4. QED BY <2>1, <2>2, <2>3 DEF VerdictInv
<1>10. QED BY <1>7, <1>8, <1>9 DEF Basics

LEMMA Deleted ==
  ASSUME requests \in RequestRows, NEW r \in Requests, Delete(r)
  PROVE  /\ requests' \in RequestRows /\ requests'[r].status = "deleted"
         /\ \A q \in Requests \ {r} : requests'[q] = requests[q]
         /\ UNCHANGED <<access, fsm, task, published, heard, told, workers, seen, asked,
                        cut, typed, failures, patient>>
<1>1. PICK row : row = [requests[r] EXCEPT !.status = "deleted"]
  OBVIOUS
<1>2. /\ row \in [status : {"pending", "approved", "rejected", "deleted"},
                  by : Staff \cup {None}, meant : Requests \cup {None}]
      /\ row.status = "deleted"
  BY <1>1 DEF RequestRows
<1>3. requests' = [requests EXCEPT ![r] = row]
  BY <1>1 DEF Delete
<1>4. QED BY <1>2, <1>3 DEF Delete, RequestRows

LEMMA DeleteBasics ==
  ASSUME Basics, NEW r \in Requests, Delete(r)
  PROVE  Basics'
<1>1. /\ requests' \in RequestRows /\ requests'[r].status = "deleted"
      /\ \A q \in Requests \ {r} : requests'[q] = requests[q]
      /\ UNCHANGED <<access, fsm, task, published, heard, told, workers, seen, asked,
                     cut, typed, failures, patient>>
  BY Deleted DEF Basics, TypeOK, RequestRows
<1>2. TypeOK'
  <2>1. updates' \in 0..MaxUpdates
    BY OthersCount DEF Basics, Delete
  <2>2. QED BY <1>1, <2>1 DEF Basics, TypeOK, RequestRows
<1>3. TaskInv'
  BY <1>1 DEF Basics, TaskInv
<1>4. VerdictInv'
  <2>1. ASSUME NEW j \in Tasks, task'[j].at \in Telling
        PROVE  /\ told'[task'[j].request] = <<>>
               /\ requests'[task'[j].request].status \in
                    {IF At(j, "approve_tell")' THEN "approved" ELSE "rejected", "deleted"}
               /\ \A i \in Tasks :
                    task'[i].at \in Telling /\ task'[i].request = task'[j].request => i = j
    <3>1. task'[j] = task[j] /\ task[j].request \in Requests
      BY <1>1, <2>1, Kinds DEF Basics, TaskInv
    <3>2. QED BY <1>1, <2>1, <3>1 DEF Basics, VerdictInv, At
  <2>2. \A q \in Requests : Pending(q)' => told'[q] = <<>>
    BY <1>1 DEF Basics, VerdictInv, Pending
  <2>3. OneVerdict'
    BY <1>1 DEF Basics, VerdictInv, OneVerdict
  <2>4. QED BY <2>1, <2>2, <2>3 DEF VerdictInv
<1>5. QED BY <1>2, <1>3, <1>4 DEF Basics

(* A list without one of its members keeps the others.                     *)
LEMMA RemoveKeeps ==
  ASSUME NEW S, NEW s \in Seq(S), NEW i \in DOMAIN s
  PROVE  /\ RemoveAt(s, i) \in Seq(S)
         /\ \A j \in DOMAIN RemoveAt(s, i) : \E n \in DOMAIN s : RemoveAt(s, i)[j] = s[n]
<1>1. Len(s) \in Nat /\ DOMAIN s = 1..Len(s) /\ i \in 1..Len(s)
  BY LenProperties
<1>2. PICK a : a = SubSeq(s, 1, i - 1)
  OBVIOUS
<1>3. PICK b : b = SubSeq(s, i + 1, Len(s))
  OBVIOUS
<1>4. /\ a \in Seq(S) /\ Len(a) = i - 1 /\ \A n \in 1..(i - 1) : a[n] = s[n]
  BY <1>1, <1>2, SubSeqProperties
<1>5. /\ b \in Seq(S) /\ Len(b) = Len(s) - i
      /\ \A n \in 1..(Len(s) - i) : b[n] = s[i + n]
  BY <1>1, <1>3, SubSeqProperties
<1>6. PICK c : c = a \o b
  OBVIOUS
<1>7. RemoveAt(s, i) = c
  BY <1>2, <1>3, <1>6 DEF RemoveAt
<1>8. /\ c \in Seq(S) /\ Len(c) = Len(a) + Len(b)
      /\ \A n \in 1..(Len(a) + Len(b)) :
           c[n] = IF n <= Len(a) THEN a[n] ELSE b[n - Len(a)]
  BY <1>4, <1>5, <1>6, ConcatProperties
<1>9. ASSUME NEW j \in DOMAIN c
      PROVE  \E n \in DOMAIN s : c[j] = s[n]
  <2>1. j \in 1..(Len(s) - 1) /\ DOMAIN c = 1..(Len(s) - 1)
    BY <1>1, <1>4, <1>5, <1>8, <1>9, LenProperties
  <2>2. CASE j <= i - 1
    BY <1>1, <1>4, <1>5, <1>8, <2>1, <2>2
  <2>3. CASE j > i - 1
    <3>1. PICK m \in 1..(Len(s) - i) : m = j - (i - 1) /\ i + m = j + 1
      BY <1>1, <2>1, <2>3
    <3>2. c[j] = b[m]
      <4>1. c[j] = IF j <= Len(a) THEN a[j] ELSE b[j - Len(a)]
        BY <1>1, <1>4, <1>5, <1>8, <2>1
      <4>2. ~(j <= Len(a)) /\ j - Len(a) = m
        BY <1>1, <1>4, <2>1, <2>3, <3>1
      <4>3. QED BY <4>1, <4>2
    <3>3. j + 1 \in DOMAIN s /\ c[j] = s[j + 1]
      BY <1>1, <1>5, <2>1, <3>1, <3>2
    <3>4. QED BY <3>3
  <2>4. QED BY <1>1, <2>1, <2>2, <2>3
<1>10. QED BY <1>7, <1>8, <1>9

LEMMA DeleteAnnouncementBasics ==
  ASSUME Basics, NEW i \in DOMAIN published, DeleteAnnouncement(i)
  PROVE  Basics'
<1>1. /\ published' = RemoveAt(published, i)
      /\ UNCHANGED <<access, fsm, task, requests, heard, told, workers, seen, asked,
                     cut, typed, failures, patient>>
  BY DEF DeleteAnnouncement
<1>2. published' \in Seq(Drafts)
  BY <1>1, RemoveKeeps DEF Basics, TypeOK
<1>3. updates' \in 0..MaxUpdates
  BY OthersCount DEF Basics, DeleteAnnouncement
<1>4. TypeOK'
  BY <1>1, <1>2, <1>3 DEF Basics, TypeOK
<1>5. QED BY <1>1, <1>4 DEF Basics, TaskInv, VerdictInv, OneVerdict, Pending, At

(* Handlers end at once, cut off where they stand: an exception, a         *)
(* restart.  A question not put and a card not shown are recorded.         *)
Cuts(K) ==
  /\ CutOff(K) /\ failures < MaxFailures /\ failures' = failures + 1
  /\ task' = [k \in Tasks |-> IF k \in K THEN Free ELSE task[k]]
  /\ UNCHANGED <<access, world, seen, typed, updates, patient>>
  /\ \/ UNCHANGED <<fsm, asked>>
     \/ fsm' = [s \in Staff |-> Empty] /\ asked' = [s \in Staff |-> None] /\ K = Tasks

LEMMA Failures ==
  ASSUME TaskInv, (\E k \in Tasks : Fail(k)) \/ Restart
  PROVE  \E K \in SUBSET Tasks : Cuts(K)
<1>1. ASSUME NEW k \in Tasks, Fail(k)
      PROVE  Cuts({k})
  <2>1. task' = [j \in Tasks |-> IF j \in {k} THEN Free ELSE task[j]]
    BY <1>1 DEF Fail, Stop, TaskInv
  <2>2. QED BY <1>1, <2>1 DEF Fail, Cuts
<1>2. CASE Restart
  <2>1. task' = [j \in Tasks |-> IF j \in Tasks THEN Free ELSE task[j]]
    BY <1>2 DEF Restart
  <2>2. QED BY <1>2, <2>1 DEF Restart, Cuts
<1>3. QED BY <1>1, <1>2

LEMMA CutFacts ==
  ASSUME Basics, NEW K \in SUBSET Tasks, Cuts(K)
  PROVE  /\ \A k \in Tasks :
              /\ k \notin K => task'[k] = task[k]
              /\ k \in K => /\ task'[k] = Free /\ task'[k].at = "idle" /\ task'[k].who = None
                            /\ task'[k].text = None /\ ~task'[k].polished
         /\ fsm' \in [Staff -> Contexts] /\ asked' \in [Staff -> Requests \cup {None}]
         /\ \A s \in Staff : \/ fsm'[s] = fsm[s] /\ asked'[s] = asked[s]
                             \/ /\ fsm'[s].pending = None /\ fsm'[s].request = None
                                /\ fsm'[s].state = "none"
         /\ cut \subseteq cut' /\ cut' \subseteq Staff \cup Texts \cup Labels
         /\ \A k \in K : /\ task[k].at \in {"reject_data", "reject_ask"} => task[k].who \in cut'
                         /\ At(k, "card") => task[k].text \in cut'
         /\ UNCHANGED <<access, requests, published, heard, told, workers, seen, typed,
                        updates, patient>>
<1>1. \A k \in Tasks : /\ k \notin K => task'[k] = task[k]
                       /\ k \in K => /\ task'[k] = Free /\ task'[k].at = "idle"
                                     /\ task'[k].who = None
                                     /\ task'[k].text = None /\ ~task'[k].polished
  BY DEF Free, Cuts
<1>2. /\ fsm' \in [Staff -> Contexts] /\ asked' \in [Staff -> Requests \cup {None}]
      /\ \A s \in Staff : \/ fsm'[s] = fsm[s] /\ asked'[s] = asked[s]
                          \/ fsm'[s].pending = None /\ fsm'[s].request = None
                             /\ fsm'[s].state = "none"
  <2>1. CASE UNCHANGED <<fsm, asked>>
    BY <2>1 DEF Basics, TypeOK, Contexts
  <2>2. CASE fsm' = [s \in Staff |-> Empty] /\ asked' = [s \in Staff |-> None]
    BY <2>2 DEF Empty, Contexts, Forms
  <2>3. QED BY <2>1, <2>2 DEF Cuts
<1>3. /\ cut \subseteq cut' /\ cut' \subseteq Staff \cup Texts \cup Labels
      /\ \A k \in K : /\ task[k].at \in {"reject_data", "reject_ask"} => task[k].who \in cut'
                      /\ At(k, "card") => task[k].text \in cut'
  <2>1. \A k \in Tasks : task[k].at \in {"reject_data", "reject_ask"} => task[k].who \in Staff
    BY Busy DEF Basics
  <2>2. \A k \in Tasks : At(k, "card") => task[k].text \in Texts \cup Labels
    BY DEF Basics, TaskInv, Drafted, At
  <2>3. cut \subseteq Staff \cup Texts \cup Labels
    BY DEF Basics, TypeOK
  <2>4. QED BY <2>1, <2>2, <2>3 DEF CutOff, Cuts
<1>4. UNCHANGED <<access, requests, published, heard, told, workers, seen, typed,
                  updates, patient>>
  BY DEF world, Cuts
<1>5. QED BY <1>1, <1>2, <1>3, <1>4

LEMMA CutBasics ==
  ASSUME Basics, NEW K \in SUBSET Tasks, Cuts(K)
  PROVE  Basics'
<1>1. /\ \A k \in Tasks :
           /\ k \notin K => task'[k] = task[k]
           /\ k \in K => task'[k] = Free /\ task'[k].at = "idle" /\ ~task'[k].polished
      /\ fsm' \in [Staff -> Contexts] /\ asked' \in [Staff -> Requests \cup {None}]
      /\ cut' \subseteq Staff \cup Texts \cup Labels
      /\ UNCHANGED <<access, requests, published, heard, told, workers, seen, typed,
                     updates, patient>>
  BY CutFacts
<1>2. TaskInv'
  <2>1. task' \in [Tasks -> Handlers \cup {Free}]
    BY <1>1 DEF Basics, TaskInv, Cuts
  <2>2. QED BY <1>1, <2>1, Kinds DEF Basics, TaskInv
<1>3. VerdictInv'
  <2>1. \A k \in Tasks : task'[k].at \in Telling => task'[k] = task[k]
    BY <1>1, Kinds
  <2>2. (\A q \in Requests : Pending(q) => told[q] = <<>>)' /\ OneVerdict'
    BY <1>1 DEF Basics, VerdictInv, Pending, OneVerdict
  <2>3. ASSUME NEW j \in Tasks, task'[j].at \in Telling
        PROVE  /\ told'[task'[j].request] = <<>>
               /\ requests'[task'[j].request].status \in
                    {IF At(j, "approve_tell")' THEN "approved" ELSE "rejected", "deleted"}
               /\ \A i \in Tasks :
                    task'[i].at \in Telling /\ task'[i].request = task'[j].request => i = j
    BY <1>1, <2>1, <2>3 DEF Basics, VerdictInv, At
  <2>4. QED BY <2>2, <2>3 DEF VerdictInv
<1>4. TypeOK'
  <2>1. \A j \in Tasks : task'[j] = Free \/ task'[j] \in Handlers
    BY <1>2 DEF TaskInv
  <2>2. failures' \in 0..MaxFailures
    BY StaffFormsAssumption DEF Basics, TypeOK, Cuts
  <2>3. QED BY <1>1, <2>1, <2>2 DEF Basics, TypeOK, Handlers, Contexts
<1>5. QED BY <1>2, <1>3, <1>4 DEF Basics

(* All that at first and through every step.                               *)
LEMMA BasicsInit == Init => Basics
<1> SUFFICES ASSUME Init PROVE Basics
  OBVIOUS
<1>1. \A k \in Tasks : task[k] = Free
  BY DEF Init
<1>2. Free.at = "idle" /\ ~Free.polished
  BY DEF Free
<1>3. TypeOK
  <2>1. Empty \in Contexts
    BY DEF Empty, Contexts, Forms
  <2>2. fsm \in [Staff -> Contexts]
    BY <2>1 DEF Init
  <2>3. <<>> \in Seq(Drafts) /\ <<>> \in Seq({"approved", "rejected"})
    OBVIOUS
  <2>4. 0 \in 0..MaxUpdates /\ 0 \in 0..MaxFailures
    BY StaffFormsAssumption
  <2>5. QED BY <2>2, <2>3, <2>4 DEF Init, TypeOK, Contexts
<1>4. TaskInv
  BY <1>1, <1>2, Kinds DEF Init, TaskInv
<1>5. VerdictInv
  <2>1. Len(<<>>) = 0 /\ DOMAIN <<>> = {}
    OBVIOUS
  <2>2. \A r \in Requests : told[r] = <<>> /\ Len(told[r]) <= 1 /\ DOMAIN told[r] = {}
    BY <2>1 DEF Init
  <2>3. QED BY <1>1, <1>2, <2>2, Kinds DEF VerdictInv, OneVerdict
<1>6. QED BY <1>3, <1>4, <1>5 DEF Basics

LEMMA BasicsStep == Basics /\ [Next]_vars => Basics'
<1> SUFFICES ASSUME Basics, [Next]_vars PROVE Basics'
  OBVIOUS
<1>1. CASE UNCHANGED vars
  BY <1>1 DEF vars, Basics, TypeOK, TaskInv, VerdictInv, OneVerdict, Pending, At
<1>2. ASSUME NEW k \in Tasks, NEW s \in Staff,
             Tap(k, s) \/ \E m \in Typeable : Receive(k, s, m)
      PROVE  Basics'
  BY <1>2, Updates, StartBasics DEF Basics
<1>3. CASE (\E k \in Tasks : Fail(k)) \/ Restart
  BY <1>3, Failures, CutBasics DEF Basics
<1>4. QED BY <1>1, <1>2, <1>3, HandlerBasics, RevokeBasics, ReviewByOtherBasics,
          DeleteBasics, DeleteAnnouncementBasics DEF Next

-----------------------------------------------------------------------------
(* What holds of people who wait: the steps of handlers.                   *)

(* Only its own task and the form of its own person change; cards stay     *)
(* where they were shown.                                                  *)
HandlerStep(k) ==
  /\ Moves(k) /\ task'[k].who \in {task[k].who, None}
  /\ fsm' \in [Staff -> Contexts]
  /\ \A q \in Staff \ {task[k].who} : fsm'[q] = fsm[q] /\ asked'[q] = asked[q]
  /\ typed' = typed /\ cut \subseteq cut'
  /\ \A q \in Staff : seen[q] \subseteq seen'[q]

(* What the step leaves behind fits each part of the invariant.            *)
FormFits(k, s) ==
  /\ task'[k].at = "reject_data" => fsm'[s].state = "reject"
  /\ task'[k].at = "reject_ask" => fsm'[s].request = task'[k].request
  /\ task'[k].at \in {"add_card", "add_state"} => fsm'[s].tid # None
  /\ fsm'[s].state = "worker_category" => fsm'[s].tid # None

HeardFits(k, s) ==
  /\ fsm'[s].pending \in {fsm[s].pending, None}
  /\ task'[k].text \in {task[k].text, None}
  /\ task'[k].at \in Drafted \cup {"ann_text"} =>
       /\ task[k].at \in Drafted \cup {"ann_text"}
       /\ task'[k].at = "broadcast" => fsm'[s].pending = None

ShownFits(k, s) ==
  /\ fsm'[s].pending \in {fsm[s].pending, None}
  /\ At(k, "card") => task[k].text \in Seen'
  /\ task'[k].at = "publish" /\ task'[k].polished => task'[k].text \in Seen'

AskedFits(k, s) ==
  /\ fsm'[s].request # None =>
       asked'[s] = fsm'[s].request \/ s \in cut'
         \/ (task'[k].at = "reject_ask" /\ task'[k].who = s)
  /\ task'[k].at = "reject_write" => asked'[s] = task'[k].request \/ s \in cut'

(* One lemma for each part: if what is left behind fits, the part is kept. *)
LEMMA SerialKept ==
  ASSUME SerialInv, NEW k \in Tasks, HandlerStep(k)
  PROVE  SerialInv'
BY Kinds DEF SerialInv, HandlerStep, Moves, Handlers

LEMMA FormKept ==
  ASSUME TaskInv, SerialInv, FormInv, NEW k \in Tasks, HandlerStep(k),
         NEW s, s = task[k].who, FormFits(k, s)
  PROVE  FormInv'
<1> USE DEF FormFits
<1>1. s \in Staff /\ task'[k].who \in {s, None}
  BY DEF HandlerStep, Moves, Handlers
<1>2. ASSUME NEW j \in Tasks, task'[j].at # "idle"
      PROVE  \/ j = k /\ task'[j].who = s
             \/ j # k /\ task'[j] = task[j] /\ fsm'[task[j].who] = fsm[task[j].who]
  <2>1. CASE j = k
    <3>1. task'[k] \in Handlers
      BY <1>2, <2>1, Kinds DEF HandlerStep, Moves, Free
    <3>2. QED BY <1>1, <2>1, <3>1, Kinds DEF Handlers
  <2>2. CASE j # k
    <3>1. task'[j] = task[j]
      BY <2>2 DEF HandlerStep, Moves
    <3>2. task[j].who \in Staff
      BY <1>2, <3>1, Busy
    <3>3. task[j].who # s
      BY <2>2, <3>2 DEF SerialInv
    <3>4. QED BY <2>2, <3>1, <3>2, <3>3 DEF HandlerStep, Moves
  <2>3. QED BY <2>1, <2>2
<1>3. ASSUME NEW j \in Tasks
      PROVE /\ task'[j].at = "reject_data" => fsm'[task'[j].who].state = "reject"
            /\ task'[j].at = "reject_ask" => fsm'[task'[j].who].request = task'[j].request
            /\ task'[j].at \in {"add_card", "add_state"} => fsm'[task'[j].who].tid # None
  BY <1>2, Kinds DEF FormInv, At
<1>4. \A q \in Staff : fsm'[q].state = "worker_category" => fsm'[q].tid # None
  BY DEF FormInv, HasId, HandlerStep, Moves
<1>5. QED BY <1>3, <1>4 DEF FormInv, HasId, At

LEMMA HeardKept ==
  ASSUME TaskInv, HeardInv, NEW k \in Tasks, HandlerStep(k), heard' = heard,
         NEW s, s = task[k].who, HeardFits(k, s)
  PROVE  HeardInv'
<1> USE DEF HeardFits
<1> SUFFICES ASSUME NEW t \in Texts
             PROVE
    /\ heard'[t] <= 1
    /\ t \notin typed' =>
         /\ heard'[t] = 0
         /\ \A q \in Staff : fsm'[q].pending # t
         /\ \A j \in Tasks : task'[j].text # t
    /\ heard'[t] # 0 =>
         /\ \A q \in Staff : fsm'[q].pending # t
         /\ \A j \in Tasks : ~Carries(j, t)'
    /\ \A i \in Tasks : Carries(i, t)' =>
         /\ \A j \in Tasks : Carries(j, t)' => task'[j].who = task'[i].who
         /\ \A q \in Staff : fsm'[q].pending = t =>
              q = task'[i].who /\ ~At(i, "broadcast")'
    /\ \A r, q \in Staff : fsm'[r].pending = t /\ fsm'[q].pending = t => r = q
  BY DEF HeardInv
<1>1. \A q \in Staff : fsm'[q].pending = t => fsm[q].pending = t
  BY Kinds DEF HandlerStep, Moves
<1>2. \A j \in Tasks : task'[j].text = t => task[j].text = t
  BY Kinds DEF HandlerStep, Moves
<1>3. ASSUME NEW j \in Tasks, Carries(j, t)'
      PROVE  /\ Carries(j, t) /\ task'[j].who = task[j].who
             /\ At(j, "broadcast")' /\ ~At(j, "broadcast") =>
                  j = k /\ fsm'[s].pending = None
  <2>1. CASE j # k
    BY <1>3, <2>1 DEF Carries, HandlerStep, Moves, At
  <2>2. CASE j = k
    <3>1. task'[k].text = t /\ task'[k].at \in Drafted \cup {"ann_text"}
      BY <1>3, <2>2 DEF Carries
    <3>2. task'[k].who = task[k].who
      <4>1. task'[k] \in Handlers
        BY <3>1, Kinds DEF HandlerStep, Moves, Free
      <4>2. QED BY <4>1, Kinds DEF HandlerStep, Moves, Handlers
    <3>3. QED BY <1>2, <2>2, <3>1, <3>2 DEF Carries, At
  <2>3. QED BY <2>1, <2>2
<1>4. typed' = typed
  BY DEF HandlerStep, Moves
<1>5. ASSUME NEW i \in Tasks, Carries(i, t)', NEW q \in Staff, fsm'[q].pending = t
      PROVE  q = task'[i].who /\ ~At(i, "broadcast")'
  <2>1. Carries(i, t) /\ task'[i].who = task[i].who /\ fsm[q].pending = t
    BY <1>1, <1>3, <1>5
  <2>2. q = task[i].who /\ ~At(i, "broadcast")
    BY <2>1 DEF HeardInv
  <2>3. At(i, "broadcast")' => i = k /\ fsm'[s].pending = None
    BY <1>3, <1>5, <2>2
  <2>4. QED BY <1>5, <2>1, <2>2, <2>3, Kinds
<1>6. \A i, j \in Tasks : Carries(i, t)' /\ Carries(j, t)' => task'[j].who = task'[i].who
  BY <1>3 DEF HeardInv
<1> HIDE DEF Carries
<1>7. QED BY <1>1, <1>2, <1>3, <1>4, <1>5, <1>6 DEF HeardInv

LEMMA ShownKept ==
  ASSUME TaskInv, ShownInv, NEW k \in Tasks, HandlerStep(k), published' = published,
         NEW s, s = task[k].who, ShownFits(k, s)
  PROVE  ShownInv'
<1> USE DEF ShownFits
<1>1. Seen \subseteq Seen'
  BY DEF Seen, HandlerStep, Moves
<1>2. ASSUME NEW q \in Staff, fsm'[q].pending # None
      PROVE  \/ fsm'[q].pending \in Seen'
             \/ \E j \in Tasks : At(j, "card")' /\ task'[j].who = q
                                 /\ task'[j].text = fsm'[q].pending
  <2>1. fsm'[q].pending = fsm[q].pending
    BY <1>2 DEF HandlerStep, Moves
  <2>2. CASE fsm[q].pending \in Seen
    BY <1>1, <2>1, <2>2
  <2>3. ASSUME NEW j \in Tasks, At(j, "card"), task[j].who = q, task[j].text = fsm[q].pending
        PROVE  \/ fsm'[q].pending \in Seen'
               \/ At(j, "card")' /\ task'[j].who = q /\ task'[j].text = fsm'[q].pending
    <3>1. CASE j = k
      BY <2>1, <2>3, <3>1
    <3>2. CASE j # k
      BY <2>1, <2>3, <3>2 DEF HandlerStep, Moves, At
    <3>3. QED BY <3>1, <3>2
  <2>4. QED BY <1>2, <2>1, <2>2, <2>3 DEF ShownInv
<1>3. ASSUME NEW j \in Tasks, At(j, "publish")', task'[j].polished
      PROVE  task'[j].text \in Seen'
  <2>1. CASE j = k
    BY <1>3, <2>1 DEF At
  <2>2. CASE j # k
    BY <1>1, <1>3, <2>2 DEF HandlerStep, Moves, At, ShownInv
  <2>3. QED BY <2>1, <2>2
<1>4. Suggested'
  <2>1. ASSUME NEW i \in DOMAIN published, published[i].polished
        PROVE  published[i].text \in Seen
    BY <2>1 DEF ShownInv, Suggested, Seen
  <2>2. QED BY <1>1, <2>1 DEF Suggested, Seen
<1>5. QED BY <1>2, <1>3, <1>4 DEF ShownInv

LEMMA AskedKept ==
  ASSUME TaskInv, SerialInv, AskedInv, NEW k \in Tasks, HandlerStep(k), requests' = requests,
         NEW s, s = task[k].who, AskedFits(k, s)
  PROVE  AskedInv'
<1> USE DEF AskedFits
<1>1. s \in Staff /\ cut \subseteq cut'
  BY DEF HandlerStep, Moves, Handlers
<1>2. ASSUME NEW q \in Staff, fsm'[q].request # None
      PROVE  \/ asked'[q] = fsm'[q].request \/ q \in cut'
             \/ \E j \in Tasks : At(j, "reject_ask")' /\ task'[j].who = q
  <2>1. CASE q = s
    BY <1>2, <2>1 DEF At
  <2>2. CASE q # s
    <3>1. fsm'[q] = fsm[q] /\ asked'[q] = asked[q]
      BY <2>2 DEF HandlerStep, Moves
    <3>2. ASSUME NEW j \in Tasks, At(j, "reject_ask"), task[j].who = q
          PROVE  At(j, "reject_ask")' /\ task'[j].who = q
      BY <2>2, <3>2 DEF HandlerStep, Moves, At
    <3>3. QED BY <1>1, <1>2, <3>1, <3>2 DEF AskedInv
  <2>3. QED BY <2>1, <2>2
<1>3. ASSUME NEW j \in Tasks, At(j, "reject_write")'
      PROVE  asked'[task'[j].who] = task'[j].request \/ task'[j].who \in cut'
  <2>1. CASE j = k
    <3>1. task'[k].who = s
      <4>1. task'[k] \in Handlers
        BY <1>3, <2>1 DEF HandlerStep, Moves, Free, At
      <4>2. QED BY <4>1, Kinds DEF HandlerStep, Moves, Handlers
    <3>2. QED BY <1>3, <2>1, <3>1 DEF At
  <2>2. CASE j # k
    <3>1. task'[j] = task[j] /\ At(j, "reject_write")
      BY <1>3, <2>2 DEF HandlerStep, Moves, At
    <3>2. task[j].who \in Staff /\ task[j].who # s
      BY <2>2, <3>1, Busy DEF SerialInv, At
    <3>3. QED BY <1>1, <3>1, <3>2 DEF HandlerStep, Moves, AskedInv
  <2>3. QED BY <2>1, <2>2
<1>4. Commented'
  BY <1>1 DEF AskedInv, Commented
<1>5. QED BY <1>2, <1>3, <1>4 DEF AskedInv

-----------------------------------------------------------------------------
(* Steps that write no table the properties are about.                     *)

(* A step that changes nothing but handlers and forms keeps the invariant, *)
(* if what it leaves behind fits every part.                               *)
LEMMA QuietStep ==
  ASSUME Inv, Basics', NEW k \in Tasks, HandlerStep(k), NEW s, s = task[k].who,
         UNCHANGED <<requests, published, heard>>,
         FormFits(k, s), HeardFits(k, s), ShownFits(k, s), AskedFits(k, s)
  PROVE  Inv'
<1>1. SerialInv'
  BY SerialKept DEF Inv
<1>2. FormInv'
  BY FormKept DEF Inv, Basics
<1>3. HeardInv'
  BY HeardKept DEF Inv, Basics
<1>4. ShownInv'
  BY ShownKept DEF Inv, Basics
<1>5. AskedInv'
  BY AskedKept DEF Inv, Basics
<1>6. QED BY <1>1, <1>2, <1>3, <1>4, <1>5 DEF Inv

(* Unless a question is about to be put, the chairman was asked about the  *)
(* request in his form.                                                    *)
LEMMA WasAsked ==
  ASSUME TaskInv, SerialInv, AskedInv, NEW k \in Tasks, task[k].who \in Staff,
         ~At(k, "reject_ask"), fsm[task[k].who].request # None
  PROVE  asked[task[k].who] = fsm[task[k].who].request \/ task[k].who \in cut
BY DEF AskedInv, SerialInv

(* The person of a handler at work, and what holds of him.                 *)
LEMMA Working ==
  ASSUME Inv, NEW k \in Tasks, ~At(k, "idle")
  PROVE  /\ task[k] \in Handlers /\ task[k].who \in Staff /\ TaskInv
         /\ fsm \in [Staff -> Contexts] /\ asked \in [Staff -> Requests \cup {None}]
         /\ fsm[task[k].who] \in Contexts
         /\ fsm[task[k].who].state = "worker_category" => fsm[task[k].who].tid # None
BY AtWork DEF Inv, Basics, FormInv, HasId

(* A handler that ends and leaves the form of its person, empties it, or   *)
(* opens another.                                                          *)
LEMMA Ends ==
  ASSUME Inv, Basics', NEW k \in Tasks, ~At(k, "idle"), ~At(k, "card"), ~At(k, "reject_ask"),
         Stop(k), NEW s, s = task[k].who,
         UNCHANGED <<requests, published, heard, seen, cut, typed>>,
         \/ UNCHANGED <<fsm, asked>>
         \/ Clear(s) /\ asked' = [asked EXCEPT ![s] = None]
         \/ /\ \E state \in Forms : /\ SetState(s, state)
                                    /\ state = "worker_category" => At(k, "add_state")
            /\ asked' = asked
  PROVE  Inv'
<1>1. /\ task[k] \in Handlers /\ s \in Staff /\ fsm \in [Staff -> Contexts]
      /\ fsm[s].state = "worker_category" => fsm[s].tid # None
      /\ asked \in [Staff -> Requests \cup {None}] /\ None \in Requests \cup {None}
  BY Working
<1>2. /\ task' \in [Tasks -> Handlers \cup {Free}] /\ task'[k] = Free
      /\ task'[k].at = "idle" /\ task'[k].who = None /\ task'[k].text = None
      /\ ~task'[k].polished
      /\ \A j \in Tasks \ {k} : task'[j] = task[j]
  BY StopFacts DEF Inv, Basics
<1>3. fsm[s].request # None => asked[s] = fsm[s].request \/ s \in cut
  BY <1>1, WasAsked DEF Inv, Basics
<1>4. /\ fsm' \in [Staff -> Contexts] /\ asked' \in [Staff -> Requests \cup {None}]
      /\ \A q \in Staff \ {s} : fsm'[q] = fsm[q] /\ asked'[q] = asked[q]
      /\ fsm'[s].pending \in {fsm[s].pending, None}
      /\ fsm'[s].state = "worker_category" => fsm'[s].tid # None
      /\ fsm'[s].request # None => asked'[s] = fsm'[s].request \/ s \in cut
  <2>1. CASE UNCHANGED <<fsm, asked>>
    BY <1>1, <1>3, <2>1
  <2>2. CASE Clear(s) /\ asked' = [asked EXCEPT ![s] = None]
    <3>1. /\ fsm' \in [Staff -> Contexts] /\ fsm'[s].state = "none"
          /\ fsm'[s].request = None /\ fsm'[s].pending = None
          /\ \A q \in Staff \ {s} : fsm'[q] = fsm[q]
      BY <1>1, <2>2, ClearFacts DEF Inv, Basics
    <3>2. QED BY <1>1, <2>2, <3>1
  <2>3. ASSUME NEW state \in Forms, SetState(s, state), asked' = asked,
               state = "worker_category" => At(k, "add_state")
        PROVE  <1>4!1 /\ <1>4!2 /\ <1>4!3 /\ <1>4!4 /\ <1>4!5
    <3>1. /\ fsm' \in [Staff -> Contexts] /\ fsm'[s].state = state
          /\ fsm'[s].request = fsm[s].request /\ fsm'[s].pending = fsm[s].pending
          /\ fsm'[s].tid = fsm[s].tid /\ \A q \in Staff \ {s} : fsm'[q] = fsm[q]
      BY <1>1, <2>3, SetStateFacts DEF Inv, Basics
    <3>2. At(k, "add_state") => fsm[s].tid # None
      BY DEF Inv, Basics, FormInv, At
    <3>3. QED BY <1>1, <1>3, <2>3, <3>1, <3>2
  <2>4. QED BY <2>1, <2>2, <2>3
<1>5. HandlerStep(k)
  BY <1>1, <1>2, <1>4 DEF HandlerStep, Moves
<1>6. FormFits(k, s) /\ AskedFits(k, s)
  BY <1>2, <1>4 DEF FormFits, AskedFits
<1>7. HeardFits(k, s) /\ ShownFits(k, s)
  BY <1>2, <1>4, Kinds DEF HeardFits, ShownFits, At
<1>8. QED BY <1>5, <1>6, <1>7, QuietStep

(* A handler that goes on and leaves the form of its person or empties it. *)
LEMMA GoesOn ==
  ASSUME Inv, Basics', NEW k \in Tasks, ~At(k, "idle"), ~At(k, "reject_ask"),
         NEW step \in Steps, GoTo(k, step), NEW s, s = task[k].who,
         UNCHANGED <<requests, published, heard, typed>>, cut \subseteq cut',
         \A q \in Staff : seen[q] \subseteq seen'[q],
         \/ UNCHANGED <<fsm, asked>> /\ step # "broadcast"
         \/ Clear(s) /\ asked' = [asked EXCEPT ![s] = None] /\ step # "add_state",
         step \notin Typing \cup {"reject_data", "reject_ask", "reject_write", "add_card"},
         step = "add_state" => At(k, "add_card"),
         step \in Drafted => task[k].at \in Drafted \cup {"ann_text"},
         At(k, "card") => task[k].text \in Seen',
         step = "publish" => ~task[k].polished
  PROVE  Inv'
<1>1. /\ task[k] \in Handlers /\ s \in Staff /\ fsm \in [Staff -> Contexts]
      /\ fsm[s].state = "worker_category" => fsm[s].tid # None
      /\ asked \in [Staff -> Requests \cup {None}] /\ None \in Requests \cup {None}
  BY Working
<1>2. /\ task' \in [Tasks -> Handlers \cup {Free}]
      /\ task'[k].at = step /\ task'[k].who = task[k].who
      /\ task'[k].text = task[k].text /\ task'[k].request = task[k].request
      /\ task'[k].polished = task[k].polished
      /\ \A j \in Tasks \ {k} : task'[j] = task[j]
  BY GoToFacts DEF Inv, Basics
<1>3. fsm[s].request # None => asked[s] = fsm[s].request \/ s \in cut
  BY <1>1, WasAsked DEF Inv, Basics
<1>4. At(k, "add_card") => fsm[s].tid # None
  BY DEF Inv, Basics, FormInv, At
<1>5. /\ fsm' \in [Staff -> Contexts] /\ asked' \in [Staff -> Requests \cup {None}]
      /\ \A q \in Staff \ {s} : fsm'[q] = fsm[q] /\ asked'[q] = asked[q]
      /\ fsm'[s].pending \in {fsm[s].pending, None}
      /\ fsm'[s].state = "worker_category" => fsm'[s].tid # None
      /\ fsm'[s].request # None => asked'[s] = fsm'[s].request \/ s \in cut
      /\ step = "broadcast" => fsm'[s].pending = None
      /\ step = "add_state" => fsm'[s].tid # None
  <2>1. CASE UNCHANGED <<fsm, asked>> /\ step # "broadcast"
    BY <1>1, <1>3, <1>4, <2>1
  <2>2. CASE Clear(s) /\ asked' = [asked EXCEPT ![s] = None] /\ step # "add_state"
    <3>1. /\ fsm' \in [Staff -> Contexts] /\ fsm'[s].state = "none"
          /\ fsm'[s].request = None /\ fsm'[s].pending = None
          /\ \A q \in Staff \ {s} : fsm'[q] = fsm[q]
      BY <1>1, <2>2, ClearFacts DEF Inv, Basics
    <3>2. QED BY <1>1, <2>2, <3>1
  <2>3. QED BY <2>1, <2>2
<1>6. HandlerStep(k)
  BY <1>1, <1>2, <1>5 DEF HandlerStep, Moves
<1>7. FormFits(k, s) /\ AskedFits(k, s)
  BY <1>2, <1>5 DEF FormFits, AskedFits
<1>8. HeardFits(k, s) /\ ShownFits(k, s)
  BY <1>2, <1>5 DEF HeardFits, ShownFits, Typing
<1>9. QED BY <1>6, <1>7, <1>8, QuietStep

-----------------------------------------------------------------------------
(* The actions.                                                            *)

(* Cancel, and what opens or ends a form in one step.                      *)
LEMMA ShortSteps ==
  ASSUME Inv, Basics', NEW k \in Tasks,
         Cancel(k) \/ AnnStart(k) \/ AddStart(k) \/ AddState(k) \/ AddClear(k)
  PROVE  Inv'
<1>1. CASE Cancel(k)
  BY <1>1, Ends DEF Cancel, At, world
<1>2. CASE AnnStart(k)
  BY <1>2, Ends DEF AnnStart, At, Forms, world
<1>3. CASE AddStart(k)
  BY <1>3, Ends DEF AddStart, At, Forms, world
<1>4. CASE AddState(k)
  BY <1>4, Ends DEF AddState, At, Forms, world
<1>5. CASE AddClear(k)
  BY <1>5, Ends DEF AddClear, At, world
<1>6. QED BY <1>1, <1>2, <1>3, <1>4, <1>5

(* create_ann_finish: the typed text is the author's alone, so his form    *)
(* may hold it beside the handler.                                         *)
LEMMA AnnTextStep ==
  ASSUME Inv, Basics', NEW k \in Tasks, AnnText(k)
  PROVE  Inv'
<1> DEFINE s == task[k].who
           t == task[k].text
<1>1. /\ task[k] \in Handlers /\ s \in Staff /\ fsm \in [Staff -> Contexts]
      /\ fsm[s].state = "worker_category" => fsm[s].tid # None
      /\ asked \in [Staff -> Requests \cup {None}] /\ ~At(k, "idle")
      /\ ~At(k, "reject_ask") /\ ~At(k, "card") /\ At(k, "ann_text")
  BY Working DEF AnnText, At
<1>2. t \in Typeable /\ ~task[k].polished
  BY <1>1 DEF Inv, Basics, TaskInv, At, Typing
<1>3. UNCHANGED <<requests, published, heard, seen, asked, cut, typed>>
  BY DEF AnnText, world
<1>4. CASE ~Long(t) /\ Stop(k) /\ UNCHANGED fsm
  BY <1>1, <1>3, <1>4, Ends
<1>5. CASE Long(t) /\ GoTo(k, "publish") /\ UNCHANGED fsm
  <2>1. "publish" \in Steps /\ "publish" \in Drafted
        /\ "publish" \notin Typing \cup {"reject_data", "reject_ask", "reject_write", "add_card"}
    BY DEF Drafted, Typing, Steps
  <2>2. QED BY <1>1, <1>2, <1>3, <1>5, <2>1, GoesOn DEF At
<1>6. CASE Long(t) /\ GoTo(k, "card") /\ fsm' = [fsm EXCEPT ![s].pending = t]
  <2>1. t \in Texts \cup Labels
    BY <1>2, <1>6, LongTexts
  <2>2. /\ task' \in [Tasks -> Handlers \cup {Free}]
        /\ task'[k].at = "card" /\ task'[k].who = s /\ task'[k].text = t
        /\ task'[k].polished = task[k].polished
        /\ \A j \in Tasks \ {k} : task'[j] = task[j]
    BY <1>1, <1>6, GoToFacts DEF Inv, Basics, Steps
  <2>3. /\ fsm' \in [Staff -> Contexts]
        /\ fsm'[s].state = fsm[s].state /\ fsm'[s].request = fsm[s].request
        /\ fsm'[s].pending = t /\ fsm'[s].tid = fsm[s].tid
        /\ \A q \in Staff \ {s} : fsm'[q] = fsm[q]
    BY <1>1, <1>6, <2>1, StorePending DEF Inv, Basics
  <2> HIDE DEF s, t
  <2>4. HandlerStep(k)
    BY <1>1, <1>3, <2>2, <2>3 DEF HandlerStep, Moves, s
  <2>5. SerialInv' /\ FormInv'
    <3>1. FormFits(k, s)
      BY <1>1, <2>2, <2>3 DEF FormFits
    <3>2. QED BY <2>4, <3>1, SerialKept, FormKept DEF Inv, Basics, s
  <2>6. AskedInv'
    <3>1. fsm[s].request # None => asked[s] = fsm[s].request \/ s \in cut
      BY <1>1, WasAsked DEF Inv, Basics, s
    <3>2. AskedFits(k, s) /\ requests' = requests
      BY <1>1, <1>3, <2>2, <2>3, <3>1 DEF AskedFits
    <3>3. QED BY <2>4, <3>2, AskedKept DEF Inv, Basics, s
  <2>7. HeardInv'
    <3>1. \A c \in Texts : Carries(k, c) <=> c = t
      BY <1>1 DEF Carries, At, t
    <3>2. \A c \in Texts, j \in Tasks : Carries(j, c)' <=> Carries(j, c)
      BY <1>1, <2>2 DEF Carries, At, HandlerStep, Moves, Drafted, t
    <3>3. \A j \in Tasks : task'[j].who = task[j].who /\ task'[j].text = task[j].text
      BY <2>2 DEF s, t
    <3>4. \A j \in Tasks : At(j, "broadcast")' => At(j, "broadcast")
      BY <2>2 DEF At
    <3>5. heard' = heard /\ typed' = typed
      BY <1>3
    <3>6. \A q \in Staff : fsm'[q].pending = fsm[q].pending \/ (q = s /\ fsm'[q].pending = t)
      BY <2>3
    <3>7. HeardInv
      BY DEF Inv, Basics
    <3>8. k \in Tasks /\ task[k].who = s /\ task[k].text = t /\ ~At(k, "broadcast")
      BY <1>1 DEF At, s, t
    <3> HIDE DEF Carries
    <3> SUFFICES ASSUME NEW c \in Texts
                 PROVE
          /\ heard'[c] <= 1
          /\ c \notin typed' =>
               /\ heard'[c] = 0
               /\ \A q \in Staff : fsm'[q].pending # c
               /\ \A j \in Tasks : task'[j].text # c
          /\ heard'[c] # 0 =>
               /\ \A q \in Staff : fsm'[q].pending # c
               /\ \A j \in Tasks : ~Carries(j, c)'
          /\ \A i \in Tasks : Carries(i, c)' =>
               /\ \A j \in Tasks : Carries(j, c)' => task'[j].who = task'[i].who
               /\ \A q \in Staff : fsm'[q].pending = c =>
                    q = task'[i].who /\ ~At(i, "broadcast")'
          /\ \A r, q \in Staff : fsm'[r].pending = c /\ fsm'[q].pending = c => r = q
      BY DEF HeardInv
    <3>9. CASE c # t
      <4>1. \A q \in Staff : fsm'[q].pending = c => fsm[q].pending = c
        BY <3>6, <3>9
      <4>2. QED BY <3>2, <3>3, <3>4, <3>5, <3>7, <4>1 DEF HeardInv
    <3>10. CASE c = t
      <4>1. /\ Carries(k, c) /\ heard[c] = 0 /\ c \in typed
            /\ \A j \in Tasks : Carries(j, c) => task[j].who = s
            /\ \A q \in Staff : fsm[q].pending = c => q = s
        BY <3>1, <3>7, <3>8, <3>10 DEF HeardInv
      <4>2. \A j \in Tasks : Carries(j, c) => j = k
        BY <1>1, <3>8, <4>1 DEF Inv, Basics, SerialInv
      <4>3. \A q \in Staff : fsm'[q].pending = c => q = s
        BY <3>6, <4>1
      <4>4. QED BY <3>2, <3>3, <3>4, <3>5, <3>8, <4>1, <4>2, <4>3
    <3>11. QED BY <3>9, <3>10
  <2>8. ShownInv'
    <3>1. cut' = cut /\ seen' = seen /\ published' = published
      BY <1>3
    <3>2. Seen' = Seen
      BY <3>1 DEF Seen
    <3>3. Suggested'
      BY <3>1 DEF Inv, Basics, ShownInv, Suggested
    <3>4. \A j \in Tasks : At(j, "publish")' => j # k /\ task'[j] = task[j] /\ At(j, "publish")
      BY <2>2 DEF At
    <3>5. \A j \in Tasks : At(j, "card") => At(j, "card")' /\ task'[j] = task[j]
      BY <1>1, <2>2 DEF At
    <3>6. At(k, "card")'
      BY <2>2 DEF At
    <3>7. QED BY <1>1, <2>2, <2>3, <3>2, <3>3, <3>4, <3>5, <3>6 DEF Inv, Basics, ShownInv
  <2>9. QED BY <2>5, <2>6, <2>7, <2>8 DEF Inv
<1>7. QED BY <1>4, <1>5, <1>6 DEF AnnText

(* A handler that ends, having shown a card.                               *)
LEMMA EndsShown ==
  ASSUME Inv, Basics', NEW k \in Tasks, At(k, "card"), Stop(k),
         task[k].text \in Seen', cut' = cut,
         \A q \in Staff : seen[q] \subseteq seen'[q],
         UNCHANGED <<fsm, requests, published, heard, asked, typed>>
  PROVE  Inv'
<1> DEFINE s == task[k].who
<1>1. /\ task[k] \in Handlers /\ s \in Staff /\ fsm \in [Staff -> Contexts]
      /\ fsm[s].state = "worker_category" => fsm[s].tid # None
      /\ asked \in [Staff -> Requests \cup {None}]
  BY Working DEF At
<1>2. /\ task' \in [Tasks -> Handlers \cup {Free}] /\ task'[k] = Free
      /\ task'[k].at = "idle" /\ task'[k].who = None /\ task'[k].text = None
      /\ ~task'[k].polished
      /\ \A j \in Tasks \ {k} : task'[j] = task[j]
  BY StopFacts DEF Inv, Basics
<1>3. fsm[s].request # None => asked[s] = fsm[s].request \/ s \in cut
  BY <1>1, WasAsked DEF Inv, Basics, At
<1> HIDE DEF s
<1>4. HandlerStep(k)
  BY <1>1, <1>2 DEF HandlerStep, Moves, s
<1>5. FormFits(k, s) /\ AskedFits(k, s)
  BY <1>1, <1>2, <1>3 DEF FormFits, AskedFits
<1>6. HeardFits(k, s) /\ ShownFits(k, s)
  BY <1>2, Kinds DEF HeardFits, ShownFits
<1>7. QED BY <1>1, <1>4, <1>5, <1>6, QuietStep DEF s

(* The card of a suggestion is shown: from now on its text was seen.       *)
LEMMA AnnCardStep ==
  ASSUME Inv, Basics', NEW k \in Tasks, AnnCard(k)
  PROVE  Inv'
<1> DEFINE s == task[k].who
           t == task[k].text
           shown == [seen EXCEPT ![s] = @ \cup {t}]
<1>1. /\ task[k] \in Handlers /\ s \in Staff
      /\ ~At(k, "idle") /\ At(k, "card") /\ task[k].at = "card"
  BY Working DEF AnnCard, At
<1>2. t \in Texts \cup Labels /\ ~task[k].polished
  BY <1>1 DEF Inv, Basics, TaskInv, Drafted
<1>3. /\ shown \in [Staff -> SUBSET (Texts \cup Labels \cup {"category"})]
      /\ \A q \in Staff : seen[q] \subseteq shown[q]
      /\ t \in shown[s]
  BY <1>1, <1>2 DEF Inv, Basics, TypeOK
<1>4. seen' = shown => t \in Seen'
  BY <1>1, <1>3 DEF Seen
<1>5. t \in cut' => t \in Seen'
  BY DEF Seen
<1> HIDE DEF shown
<1>6. /\ UNCHANGED <<fsm, requests, published, heard, asked, typed>>
      /\ \/ Stop(k) /\ seen' = shown /\ UNCHANGED cut
         \/ GoTo(k, "publish") /\ seen' = shown /\ UNCHANGED cut
         \/ GoTo(k, "publish") /\ cut' = cut \cup {t} /\ UNCHANGED seen
  BY DEF AnnCard, shown, world
<1>7. CASE Stop(k) /\ seen' = shown /\ UNCHANGED cut
  BY <1>1, <1>3, <1>4, <1>6, <1>7, EndsShown
<1>8. CASE /\ GoTo(k, "publish")
            /\ \/ seen' = shown /\ UNCHANGED cut
               \/ cut' = cut \cup {t} /\ UNCHANGED seen
  <2>1. /\ "publish" \in Steps /\ "publish" \in Drafted /\ "card" \in Drafted
        /\ "publish" \notin Typing \cup {"reject_data", "reject_ask", "reject_write", "add_card"}
    BY DEF Drafted, Typing, Steps
  <2>2. t \in Seen' /\ cut \subseteq cut' /\ \A q \in Staff : seen[q] \subseteq seen'[q]
    BY <1>3, <1>4, <1>5, <1>8
  <2>3. QED BY <1>1, <1>2, <1>6, <1>8, <2>1, <2>2, GoesOn DEF At
<1>9. QED BY <1>6, <1>7, <1>8

(* The COMMIT of an announcement: what the LLM has worded was shown.       *)
LEMMA PublishStep ==
  ASSUME Inv, Basics', NEW k \in Tasks, Publish(k)
  PROVE  Inv'
<1> DEFINE s == task[k].who
           t == task[k].text
<1>1. /\ task[k] \in Handlers /\ s \in Staff /\ fsm \in [Staff -> Contexts]
      /\ fsm[s].state = "worker_category" => fsm[s].tid # None
      /\ ~At(k, "idle") /\ At(k, "publish") /\ task[k].at = "publish"
  BY Working DEF Publish, At
<1>2. t \in Texts \cup Labels /\ task[k].polished \in BOOLEAN
  BY <1>1 DEF Inv, Basics, TaskInv, Drafted, Handlers
<1>3. /\ published' = Append(published, [text |-> t, polished |-> task[k].polished])
      /\ UNCHANGED <<fsm, requests, heard, seen, asked, cut, typed>>
  BY DEF Publish
<1>4. /\ task' \in [Tasks -> Handlers \cup {Free}]
      /\ task'[k].at = "ann_clear" /\ task'[k].who = s /\ task'[k].text = t
      /\ task'[k].request = task[k].request
      /\ task'[k].polished = task[k].polished
      /\ \A j \in Tasks \ {k} : task'[j] = task[j]
  BY <1>1, GoToFacts DEF Inv, Basics, Steps, Publish
<1>5. fsm[s].request # None => asked[s] = fsm[s].request \/ s \in cut
  BY <1>1, WasAsked DEF Inv, Basics, At
<1> HIDE DEF s, t
<1>6. HandlerStep(k)
  BY <1>1, <1>3, <1>4 DEF HandlerStep, Moves, s
<1>7. SerialInv' /\ FormInv'
  <2>1. FormFits(k, s)
    BY <1>1, <1>3, <1>4 DEF FormFits
  <2>2. QED BY <1>6, <2>1, SerialKept, FormKept DEF Inv, Basics, s
<1>8. AskedInv' /\ HeardInv'
  <2>1. AskedFits(k, s) /\ HeardFits(k, s)
    BY <1>1, <1>3, <1>4, <1>5 DEF AskedFits, HeardFits, Drafted, t
  <2>2. QED BY <1>3, <1>6, <2>1, AskedKept, HeardKept DEF Inv, Basics, s
<1>9. published' \in Seq(Drafts)
      /\ \A i \in DOMAIN published' :
           \/ i \in DOMAIN published /\ published'[i] = published[i]
           \/ published'[i] = [text |-> t, polished |-> task[k].polished]
  <2>1. published \in Seq(Drafts)
    BY DEF Inv, Basics, TypeOK
  <2>2. PICK draft : draft = [text |-> t, polished |-> task[k].polished]
    OBVIOUS
  <2>3. draft \in Drafts
    BY <1>2, <2>2 DEF Drafts, t
  <2>4. published' = Append(published, draft)
    BY <1>3, <2>2
  <2>5. QED BY <2>1, <2>2, <2>3, <2>4, AppendProperties
<1>10. ShownInv'
  <2>1. Seen' = Seen
    BY <1>3 DEF Seen
  <2>2. Suggested'
    <3>1. task[k].polished => t \in Seen
      BY <1>1 DEF Inv, Basics, ShownInv, t
    <3>2. \A i \in DOMAIN published' : published'[i].polished => published'[i].text \in Seen
      BY <1>9, <3>1 DEF Inv, Basics, ShownInv, Suggested, Seen
    <3>3. QED BY <2>1, <3>2 DEF Suggested, Seen
  <2>3. \A j \in Tasks : At(j, "publish")' => task'[j] = task[j] /\ At(j, "publish")
    BY <1>4 DEF At
  <2>4. \A j \in Tasks : At(j, "card") => At(j, "card")' /\ task'[j] = task[j]
    BY <1>1, <1>4 DEF At
  <2>5. QED BY <1>3, <2>1, <2>2, <2>3, <2>4 DEF Inv, Basics, ShownInv
<1>11. QED BY <1>7, <1>8, <1>10 DEF Inv

(* After the COMMIT the form is emptied: the text is nowhere but in the    *)
(* handler that will broadcast it.                                         *)
LEMMA AnnClearStep ==
  ASSUME Inv, Basics', NEW k \in Tasks, AnnClear(k)
  PROVE  Inv'
<1> DEFINE s == task[k].who
<1>1. /\ task[k] \in Handlers /\ s \in Staff /\ task[k].at = "ann_clear"
      /\ ~At(k, "idle") /\ ~At(k, "reject_ask") /\ ~At(k, "card")
      /\ Clear(s) /\ asked' = [asked EXCEPT ![s] = None] /\ GoTo(k, "broadcast")
      /\ UNCHANGED <<requests, published, heard, seen, cut, typed>>
  BY Working DEF AnnClear, At, world
<1>2. /\ "broadcast" \in Steps /\ "broadcast" \in Drafted /\ "ann_clear" \in Drafted
      /\ "broadcast" \notin Typing \cup {"reject_data", "reject_ask", "reject_write", "add_card"}
  BY DEF Drafted, Typing, Steps
<1>3. QED BY <1>1, <1>2, GoesOn

(* broadcast_announcement: nobody else holds the text any more.            *)
LEMMA BroadcastStep ==
  ASSUME Inv, Basics', NEW k \in Tasks, Broadcast(k)
  PROVE  Inv'
<1> DEFINE s == task[k].who
           t == task[k].text
<1>1. /\ task[k] \in Handlers /\ s \in Staff /\ fsm \in [Staff -> Contexts]
      /\ fsm[s].state = "worker_category" => fsm[s].tid # None
      /\ ~At(k, "idle") /\ task[k].at = "broadcast"
      /\ heard' = [heard EXCEPT ![t] = @ + 1] /\ Stop(k)
      /\ UNCHANGED <<fsm, requests, published, seen, asked, cut, typed>>
  BY Working DEF Broadcast, At
<1>2. t \in Texts \cup Labels /\ heard \in [Texts \cup Labels -> Nat]
  BY <1>1 DEF Inv, Basics, TypeOK, TaskInv, Drafted
<1>3. /\ task' \in [Tasks -> Handlers \cup {Free}] /\ task'[k] = Free
      /\ task'[k].at = "idle" /\ task'[k].who = None /\ task'[k].text = None
      /\ ~task'[k].polished
      /\ \A j \in Tasks \ {k} : task'[j] = task[j]
  BY <1>1, StopFacts DEF Inv, Basics
<1>4. fsm[s].request # None => asked[s] = fsm[s].request \/ s \in cut
  BY <1>1, WasAsked DEF Inv, Basics, At
<1> HIDE DEF s, t
<1>5. HandlerStep(k)
  BY <1>1, <1>3 DEF HandlerStep, Moves, s
<1>6. SerialInv' /\ FormInv' /\ AskedInv' /\ ShownInv'
  <2>1. FormFits(k, s) /\ AskedFits(k, s) /\ ShownFits(k, s)
    BY <1>1, <1>3, <1>4 DEF FormFits, AskedFits, ShownFits, At
  <2>2. QED BY <1>1, <1>5, <2>1, SerialKept, FormKept, AskedKept, ShownKept
            DEF Inv, Basics, s
<1>7. HeardInv'
  <2>1. \A c \in Texts, j \in Tasks : Carries(j, c)' =>
          Carries(j, c) /\ j # k /\ task'[j] = task[j]
          /\ (At(j, "broadcast")' => At(j, "broadcast"))
    BY <1>3, Kinds DEF Carries, At
  <2>2. \A j \in Tasks, c \in Texts : task'[j].text = c => task[j].text = c
    BY <1>3, Kinds
  <2>3. fsm' = fsm /\ typed' = typed /\ HeardInv
    BY <1>1 DEF Inv, Basics
  <2>4. \A c \in Texts : Carries(k, c) <=> c = t
    BY <1>1 DEF Carries, Drafted, t
  <2>5. \A c \in Texts : c # t => heard'[c] = heard[c]
    BY <1>1, <1>2
  <2> SUFFICES ASSUME NEW c \in Texts
               PROVE
        /\ heard'[c] <= 1
        /\ c \notin typed' =>
             /\ heard'[c] = 0
             /\ \A q \in Staff : fsm'[q].pending # c
             /\ \A j \in Tasks : task'[j].text # c
        /\ heard'[c] # 0 =>
             /\ \A q \in Staff : fsm'[q].pending # c
             /\ \A j \in Tasks : ~Carries(j, c)'
        /\ \A i \in Tasks : Carries(i, c)' =>
             /\ \A j \in Tasks : Carries(j, c)' => task'[j].who = task'[i].who
             /\ \A q \in Staff : fsm'[q].pending = c =>
                  q = task'[i].who /\ ~At(i, "broadcast")'
        /\ \A r, q \in Staff : fsm'[r].pending = c /\ fsm'[q].pending = c => r = q
    BY DEF HeardInv
  <2> HIDE DEF Carries
  <2>6. CASE c # t
    BY <2>1, <2>2, <2>3, <2>5, <2>6 DEF HeardInv
  <2>7. CASE c = t
    <3>1. /\ Carries(k, c) /\ heard[c] = 0 /\ c \in typed
          /\ \A j \in Tasks : Carries(j, c) => task[j].who = s
          /\ \A q \in Staff : fsm[q].pending # c
      BY <1>1, <2>3, <2>4, <2>7 DEF HeardInv, At, s, t
    <3>2. \A j \in Tasks : ~Carries(j, c)'
      BY <1>1, <2>1, <3>1 DEF Inv, Basics, SerialInv, s
    <3>3. heard'[c] = 1
      BY <1>1, <1>2, <2>7, <3>1
    <3>4. QED BY <2>3, <3>1, <3>2, <3>3
  <2>8. QED BY <2>6, <2>7
<1>8. QED BY <1>6, <1>7 DEF Inv

(* ann_use_pick: the draft is the author's alone and was shown.            *)
LEMMA AnnUseStep ==
  ASSUME Inv, Basics', NEW k \in Tasks, AnnUse(k)
  PROVE  Inv'
<1> DEFINE s == task[k].who
           t == fsm[s].pending
<1>1. /\ task[k] \in Handlers /\ s \in Staff /\ fsm \in [Staff -> Contexts]
      /\ fsm[s].state = "worker_category" => fsm[s].tid # None
      /\ ~At(k, "idle") /\ ~At(k, "card") /\ ~At(k, "reject_ask") /\ task[k].at = "ann_use"
      /\ UNCHANGED <<requests, published, heard, seen, cut, typed>>
      /\ asked \in [Staff -> Requests \cup {None}]
  BY Working DEF AnnUse, At, world
<1>2. CASE t = None
  BY <1>1, <1>2, Ends DEF AnnUse
<1>3. CASE t # None
  <2>1. /\ task' = [task EXCEPT ![k].at = "publish", ![k].text = t]
        /\ UNCHANGED <<fsm, asked>>
    BY <1>3 DEF AnnUse
  <2>2. t \in Texts \cup Labels
    BY <1>1, <1>3 DEF Contexts
  <2>3. /\ task' \in [Tasks -> Handlers \cup {Free}]
        /\ task'[k].at = "publish" /\ task'[k].who = s /\ task'[k].text = t
        /\ task'[k].polished = task[k].polished
        /\ \A j \in Tasks \ {k} : task'[j] = task[j]
    <3>1. t \in Texts \cup Labels /\ task' = [task EXCEPT ![k].at = "publish", ![k].text = t]
      BY <2>1, <2>2
    <3> HIDE DEF t
    <3>2. QED BY <1>1, <3>1, PickedFacts DEF Inv, Basics
  <2>4. fsm[s].request # None => asked[s] = fsm[s].request \/ s \in cut
    BY <1>1, WasAsked DEF Inv, Basics, At
  <2>5. t \in Seen
    <3>1. \A j \in Tasks : task[j].who = s => j = k
      BY <1>1 DEF Inv, Basics, SerialInv
    <3>2. QED BY <1>1, <1>3, <3>1 DEF Inv, Basics, ShownInv, At
  <2> HIDE DEF s, t
  <2>6. HandlerStep(k)
    BY <1>1, <2>1, <2>3 DEF HandlerStep, Moves, s
  <2>7. SerialInv' /\ FormInv' /\ AskedInv' /\ ShownInv'
    <3>1. FormFits(k, s) /\ AskedFits(k, s)
      BY <1>1, <2>1, <2>3, <2>4 DEF FormFits, AskedFits
    <3>2. ShownFits(k, s)
      <4>1. Seen' = Seen
        BY <1>1 DEF Seen
      <4>2. QED BY <1>1, <2>1, <2>3, <2>5, <4>1 DEF ShownFits
    <3>3. QED BY <1>1, <2>6, <3>1, <3>2, SerialKept, FormKept, AskedKept, ShownKept
              DEF Inv, Basics, s
  <2>8. HeardInv'
    <3>1. \A c \in Texts, j \in Tasks : Carries(j, c)' =>
            \/ Carries(j, c) /\ j # k /\ task'[j] = task[j]
            \/ j = k /\ c = t /\ task'[k].who = s /\ ~At(j, "broadcast")'
      BY <2>3 DEF Carries, At
    <3>2. \A j \in Tasks : At(j, "broadcast")' => At(j, "broadcast")
      BY <2>3 DEF At
    <3>3. \A j \in Tasks, c \in Texts : task'[j].text = c => task[j].text = c \/ (j = k /\ c = t)
      BY <2>3
    <3>4. fsm' = fsm /\ typed' = typed /\ heard' = heard /\ HeardInv /\ fsm[s].pending = t
      BY <1>1, <2>1 DEF Inv, Basics, t
    <3> HIDE DEF Carries
    <3> SUFFICES ASSUME NEW c \in Texts
                 PROVE
          /\ heard'[c] <= 1
          /\ c \notin typed' =>
               /\ heard'[c] = 0
               /\ \A q \in Staff : fsm'[q].pending # c
               /\ \A j \in Tasks : task'[j].text # c
          /\ heard'[c] # 0 =>
               /\ \A q \in Staff : fsm'[q].pending # c
               /\ \A j \in Tasks : ~Carries(j, c)'
          /\ \A i \in Tasks : Carries(i, c)' =>
               /\ \A j \in Tasks : Carries(j, c)' => task'[j].who = task'[i].who
               /\ \A q \in Staff : fsm'[q].pending = c =>
                    q = task'[i].who /\ ~At(i, "broadcast")'
          /\ \A r, q \in Staff : fsm'[r].pending = c /\ fsm'[q].pending = c => r = q
      BY DEF HeardInv
    <3>5. CASE c # t
      <4>1. \A j \in Tasks : Carries(j, c)' => Carries(j, c) /\ task'[j] = task[j]
        BY <3>1, <3>5
      <4>2. \A j \in Tasks : task'[j].text = c => task[j].text = c
        BY <3>3, <3>5
      <4>3. QED BY <3>2, <3>4, <4>1, <4>2 DEF HeardInv
    <3>6. CASE c = t
      <4>1. /\ heard[c] = 0 /\ c \in typed
            /\ \A q \in Staff : fsm[q].pending = c => q = s
            /\ \A j \in Tasks : Carries(j, c) => task[j].who = s /\ ~At(j, "broadcast")
        BY <1>1, <3>4, <3>6 DEF HeardInv
      <4>2. \A j \in Tasks : Carries(j, c)' => task'[j].who = s /\ ~At(j, "broadcast")'
        BY <3>1, <3>2, <4>1
      <4>3. QED BY <3>4, <4>1, <4>2
    <3>7. QED BY <3>5, <3>6
  <2>9. QED BY <2>7, <2>8 DEF Inv
<1>4. QED BY <1>2, <1>3

(* start_reject_kazakhdomofon_request.                                     *)
LEMMA RejectStartStep ==
  ASSUME Inv, Basics', NEW k \in Tasks, RejectStart(k)
  PROVE  Inv'
<1> DEFINE s == task[k].who
<1>1. /\ task[k] \in Handlers /\ s \in Staff /\ fsm \in [Staff -> Contexts]
      /\ asked \in [Staff -> Requests \cup {None}]
      /\ ~At(k, "idle") /\ ~At(k, "card") /\ ~At(k, "reject_ask") /\ task[k].at = "reject_start"
      /\ UNCHANGED <<requests, published, heard, seen, asked, cut, typed>>
  BY Working DEF RejectStart, At, world
<1>2. CASE Stop(k) /\ UNCHANGED fsm
  BY <1>1, <1>2, Ends
<1>3. CASE SetState(s, "reject") /\ GoTo(k, "reject_data")
  <2>1. "reject" \in Forms /\ "reject_data" \in Steps
    BY DEF Forms, Steps
  <2>2. /\ task' \in [Tasks -> Handlers \cup {Free}]
        /\ task'[k].at = "reject_data" /\ task'[k].who = s /\ task'[k].text = task[k].text
        /\ task'[k].request = task[k].request /\ task'[k].polished = task[k].polished
        /\ \A j \in Tasks \ {k} : task'[j] = task[j]
    BY <1>1, <1>3, <2>1, GoToFacts DEF Inv, Basics
  <2>3. /\ fsm' \in [Staff -> Contexts]
        /\ fsm'[s].state = "reject" /\ fsm'[s].request = fsm[s].request
        /\ fsm'[s].pending = fsm[s].pending /\ fsm'[s].tid = fsm[s].tid
        /\ \A q \in Staff \ {s} : fsm'[q] = fsm[q]
    BY <1>1, <1>3, <2>1, SetStateFacts DEF Inv, Basics
  <2>4. fsm[s].request # None => asked[s] = fsm[s].request \/ s \in cut
    BY <1>1, WasAsked DEF Inv, Basics, At
  <2> HIDE DEF s
  <2>5. HandlerStep(k)
    BY <1>1, <2>2, <2>3 DEF HandlerStep, Moves, s
  <2>6. FormFits(k, s) /\ AskedFits(k, s)
    BY <1>1, <2>2, <2>3, <2>4 DEF FormFits, AskedFits
  <2>7. HeardFits(k, s) /\ ShownFits(k, s)
    BY <1>1, <2>2, <2>3 DEF HeardFits, ShownFits, Drafted, At
  <2>8. QED BY <1>1, <2>5, <2>6, <2>7, QuietStep DEF s
<1>4. QED BY <1>2, <1>3 DEF RejectStart

(* The request of a rejection replaces the data of the form.               *)
LEMMA RejectDataStep ==
  ASSUME Inv, Basics', NEW k \in Tasks, RejectData(k)
  PROVE  Inv'
<1> DEFINE s == task[k].who
           r == task[k].request
<1>1. /\ task[k] \in Handlers /\ s \in Staff /\ fsm \in [Staff -> Contexts]
      /\ asked \in [Staff -> Requests \cup {None}]
      /\ ~At(k, "idle") /\ task[k].at = "reject_data"
      /\ GoTo(k, "reject_ask") /\ SetRequest(s, r)
      /\ UNCHANGED <<requests, published, heard, seen, asked, cut, typed>>
  BY Working DEF RejectData, At, world
<1>2. r \in Requests /\ fsm[s].state = "reject"
  BY <1>1 DEF Inv, Basics, TaskInv, FormInv, About, At
<1>3. /\ task' \in [Tasks -> Handlers \cup {Free}]
      /\ task'[k].at = "reject_ask" /\ task'[k].who = s /\ task'[k].text = task[k].text
      /\ task'[k].request = r /\ task'[k].polished = task[k].polished
      /\ \A j \in Tasks \ {k} : task'[j] = task[j]
  BY <1>1, GoToFacts DEF Inv, Basics, Steps
<1> HIDE DEF r
<1>4. /\ fsm' \in [Staff -> Contexts]
      /\ fsm'[s].state = "reject" /\ fsm'[s].request = r
      /\ fsm'[s].pending = None /\ fsm'[s].tid = None
      /\ \A q \in Staff \ {s} : fsm'[q] = fsm[q]
  BY <1>1, <1>2, SetRequestFacts DEF Inv, Basics
<1> HIDE DEF s
<1>5. HandlerStep(k)
  BY <1>1, <1>3, <1>4 DEF HandlerStep, Moves, s
<1>6. FormFits(k, s) /\ AskedFits(k, s)
  BY <1>1, <1>3, <1>4 DEF FormFits, AskedFits
<1>7. HeardFits(k, s) /\ ShownFits(k, s)
  BY <1>1, <1>3, <1>4 DEF HeardFits, ShownFits, Drafted, At
<1>8. QED BY <1>1, <1>5, <1>6, <1>7, QuietStep DEF s

(* The question names the request that is in the form.                     *)
LEMMA RejectAskStep ==
  ASSUME Inv, Basics', NEW k \in Tasks, RejectAsk(k)
  PROVE  Inv'
<1> DEFINE s == task[k].who
<1>1. /\ task[k] \in Handlers /\ s \in Staff /\ fsm \in [Staff -> Contexts]
      /\ fsm[s].state = "worker_category" => fsm[s].tid # None
      /\ asked \in [Staff -> Requests \cup {None}]
      /\ ~At(k, "idle") /\ task[k].at = "reject_ask" /\ Stop(k)
      /\ asked' = [asked EXCEPT ![s] = task[k].request]
      /\ UNCHANGED <<fsm, requests, published, heard, seen, cut, typed>>
  BY Working DEF RejectAsk, At, world
<1>2. task[k].request \in Requests /\ fsm[s].request = task[k].request
  BY <1>1 DEF Inv, Basics, TaskInv, FormInv, About, At
<1>3. /\ task' \in [Tasks -> Handlers \cup {Free}] /\ task'[k] = Free
      /\ task'[k].at = "idle" /\ task'[k].who = None /\ task'[k].text = None
      /\ ~task'[k].polished
      /\ \A j \in Tasks \ {k} : task'[j] = task[j]
  BY <1>1, StopFacts DEF Inv, Basics
<1>4. /\ asked'[s] = fsm'[s].request
      /\ \A q \in Staff \ {s} : asked'[q] = asked[q]
  BY <1>1, <1>2
<1> HIDE DEF s
<1>5. HandlerStep(k)
  BY <1>1, <1>3, <1>4 DEF HandlerStep, Moves, s
<1>6. FormFits(k, s) /\ AskedFits(k, s)
  BY <1>1, <1>3, <1>4 DEF FormFits, AskedFits
<1>7. HeardFits(k, s) /\ ShownFits(k, s)
  BY <1>1, <1>3, Kinds DEF HeardFits, ShownFits, At
<1>8. QED BY <1>1, <1>5, <1>6, <1>7, QuietStep DEF s

(* finish_reject_kazakhdomofon_request: the comment goes to the request in *)
(* the form, which its author was asked about.                             *)
LEMMA RejectTextStep ==
  ASSUME Inv, Basics', NEW k \in Tasks, RejectText(k)
  PROVE  Inv'
<1> DEFINE s == task[k].who
           r == fsm[s].request
<1>1. /\ task[k] \in Handlers /\ s \in Staff /\ fsm \in [Staff -> Contexts]
      /\ fsm[s].state = "worker_category" => fsm[s].tid # None
      /\ asked \in [Staff -> Requests \cup {None}]
      /\ ~At(k, "idle") /\ ~At(k, "card") /\ ~At(k, "reject_ask") /\ task[k].at = "reject_text"
      /\ UNCHANGED <<requests, published, heard, seen, cut, typed>>
  BY Working DEF RejectText, At, world
<1>2. CASE Stop(k) /\ UNCHANGED <<fsm, asked>>
  BY <1>1, <1>2, Ends
<1>3. CASE Stop(k) /\ Clear(s) /\ asked' = [asked EXCEPT ![s] = None]
  BY <1>1, <1>3, Ends
<1>4. CASE /\ r # None /\ UNCHANGED <<fsm, asked>>
           /\ task' = [task EXCEPT ![k].at = "reject_write", ![k].request = r]
  <2>1. r \in Requests /\ "reject_write" \in Steps
    BY <1>1, <1>4 DEF Contexts, Steps
  <2>2. asked[s] = r \/ s \in cut
    BY <1>1, <1>4, WasAsked DEF Inv, Basics, At
  <2>3. fsm' = fsm /\ asked' = asked /\ fsm[s].request = r
    BY <1>4
  <2>4. task' = [task EXCEPT ![k].at = "reject_write", ![k].request = r]
    BY <1>4
  <2> HIDE DEF r
  <2>5. /\ task' \in [Tasks -> Handlers \cup {Free}]
        /\ task'[k].at = "reject_write" /\ task'[k].who = s /\ task'[k].text = task[k].text
        /\ task'[k].request = r /\ task'[k].polished = task[k].polished
        /\ \A j \in Tasks \ {k} : task'[j] = task[j]
    BY <1>1, <2>1, <2>4, TakeRequestFacts DEF Inv, Basics
  <2> HIDE DEF s
  <2>6. HandlerStep(k)
    BY <1>1, <2>3, <2>5 DEF HandlerStep, Moves, s
  <2>7. FormFits(k, s) /\ AskedFits(k, s)
    BY <1>1, <2>2, <2>3, <2>5 DEF FormFits, AskedFits
  <2>8. HeardFits(k, s) /\ ShownFits(k, s)
    BY <1>1, <2>3, <2>5 DEF HeardFits, ShownFits, Drafted, At
  <2>9. QED BY <1>1, <2>3, <2>6, <2>7, <2>8, QuietStep DEF s
<1>5. QED BY <1>2, <1>3, <1>4 DEF RejectText

(* Checks that a request is pending, and a form that ends.                 *)
LEMMA ApproveStep ==
  ASSUME Inv, Basics', NEW k \in Tasks, Approve(k) \/ RejectClear(k)
  PROVE  Inv'
<1> DEFINE s == task[k].who
<1>1. /\ task[k] \in Handlers /\ s \in Staff /\ task[k].at \in {"approve", "reject_clear"}
      /\ ~At(k, "idle") /\ ~At(k, "reject_ask") /\ ~At(k, "card")
      /\ UNCHANGED <<requests, published, heard, seen, cut, typed>>
  BY Working DEF Approve, RejectClear, At, world
<1>2. CASE Approve(k)
  <2>1. "approve_write" \in Steps /\ "approve_write" \notin Typing \cup Drafted
    BY DEF Typing, Drafted, Steps
  <2>2. CASE GoTo(k, "approve_write")
    BY <1>1, <1>2, <2>1, <2>2, GoesOn DEF Approve
  <2>3. CASE Stop(k)
    BY <1>1, <1>2, <2>3, Ends DEF Approve
  <2>4. QED BY <1>2, <2>2, <2>3 DEF Approve
<1>3. CASE RejectClear(k)
  <2>1. "reject_tell" \in Steps /\ "reject_tell" \notin Typing \cup Drafted
    BY DEF Typing, Drafted, Steps
  <2>2. QED BY <1>1, <1>3, <2>1, GoesOn DEF RejectClear
<1>4. QED BY <1>2, <1>3

(* add_worker_tid, add_worker_finish.                                      *)
LEMMA AddIdStep ==
  ASSUME Inv, Basics', NEW k \in Tasks, AddId(k)
  PROVE  Inv'
<1> DEFINE s == task[k].who
           t == task[k].text
<1>1. /\ task[k] \in Handlers /\ s \in Staff /\ fsm \in [Staff -> Contexts]
      /\ fsm[s].state = "worker_category" => fsm[s].tid # None
      /\ asked \in [Staff -> Requests \cup {None}]
      /\ ~At(k, "idle") /\ ~At(k, "card") /\ ~At(k, "reject_ask") /\ task[k].at = "add_id"
      /\ UNCHANGED <<requests, published, heard, seen, asked, cut, typed>>
  BY Working DEF AddId, At, world
<1>2. CASE Stop(k) /\ UNCHANGED fsm
  BY <1>1, <1>2, Ends
<1>3. CASE t \in Ids /\ fsm' = [fsm EXCEPT ![s].tid = t] /\ GoTo(k, "add_card")
  <2>1. /\ fsm' \in [Staff -> Contexts]
        /\ fsm'[s].state = fsm[s].state /\ fsm'[s].request = fsm[s].request
        /\ fsm'[s].pending = fsm[s].pending /\ fsm'[s].tid = t
        /\ \A q \in Staff \ {s} : fsm'[q] = fsm[q]
    BY <1>1, <1>3, StoreId DEF Inv, Basics
  <2>2. /\ task' \in [Tasks -> Handlers \cup {Free}]
        /\ task'[k].at = "add_card" /\ task'[k].who = s /\ task'[k].text = task[k].text
        /\ task'[k].request = task[k].request /\ task'[k].polished = task[k].polished
        /\ \A j \in Tasks \ {k} : task'[j] = task[j]
    BY <1>1, <1>3, GoToFacts DEF Inv, Basics, Steps
  <2>3. fsm[s].request # None => asked[s] = fsm[s].request \/ s \in cut
    BY <1>1, WasAsked DEF Inv, Basics, At
  <2>4. t # None
    BY <1>3, Kinds
  <2> HIDE DEF s, t
  <2>5. HandlerStep(k)
    BY <1>1, <2>1, <2>2 DEF HandlerStep, Moves, s
  <2>6. FormFits(k, s) /\ AskedFits(k, s)
    BY <1>1, <2>1, <2>2, <2>3, <2>4 DEF FormFits, AskedFits
  <2>7. HeardFits(k, s) /\ ShownFits(k, s)
    BY <1>1, <2>1, <2>2 DEF HeardFits, ShownFits, Drafted, At
  <2>8. QED BY <1>1, <2>5, <2>6, <2>7, QuietStep DEF s
<1>4. QED BY <1>2, <1>3 DEF AddId

(* The categories are shown, then the state that waits for one is set.     *)
LEMMA AddCardStep ==
  ASSUME Inv, Basics', NEW k \in Tasks, AddCard(k) \/ AddFinish(k)
  PROVE  Inv'
<1> DEFINE s == task[k].who
<1>1. /\ task[k] \in Handlers /\ s \in Staff /\ fsm[s] \in Contexts
      /\ task[k].at \in {"add_card", "add_finish"}
      /\ ~At(k, "idle") /\ ~At(k, "reject_ask") /\ ~At(k, "card")
  BY Working DEF AddCard, AddFinish, At, world
<1>2. seen \in [Staff -> SUBSET (Texts \cup Labels \cup {"category"})]
  BY DEF Inv, Basics, TypeOK
<1>3. CASE AddCard(k)
  <2>1. "add_state" \in Steps /\ "add_state" \notin Typing \cup Drafted
    BY DEF Typing, Drafted, Steps
  <2>2. \A q \in Staff : seen[q] \subseteq seen'[q]
    BY <1>1, <1>2, <1>3 DEF AddCard
  <2>3. QED BY <1>1, <1>3, <2>1, <2>2, GoesOn DEF world, AddCard
<1>4. CASE AddFinish(k)
  <2>1. "add_clear" \in Steps /\ "add_clear" \notin Typing \cup Drafted
    BY DEF Typing, Drafted, Steps
  <2>2. CASE GoTo(k, "add_clear")
    BY <1>1, <1>4, <2>1, <2>2, GoesOn DEF AddFinish
  <2>3. CASE Stop(k)
    BY <1>1, <1>4, <2>3, Ends DEF AddFinish
  <2>4. QED BY <1>4, <2>2, <2>3 DEF AddFinish
<1>5. QED BY <1>3, <1>4

(* The conditional UPDATE: a comment goes to the request it was typed for. *)
LEMMA ReviewStep ==
  ASSUME Inv, Basics', NEW k \in Tasks, RejectWrite(k) \/ ApproveWrite(k)
  PROVE  Inv'
<1> DEFINE s == task[k].who
           r == task[k].request
<1>1. /\ task[k] \in Handlers /\ s \in Staff /\ fsm \in [Staff -> Contexts]
      /\ fsm[s].state = "worker_category" => fsm[s].tid # None
      /\ asked \in [Staff -> Requests \cup {None}] /\ TaskInv
      /\ ~At(k, "idle") /\ ~At(k, "card") /\ ~At(k, "reject_ask")
      /\ task[k].at \in {"reject_write", "approve_write"}
      /\ UNCHANGED <<fsm, published, heard, seen, asked, cut, typed>>
  BY Working DEF RejectWrite, ApproveWrite, Review, At
<1>2. r \in Requests /\ requests \in RequestRows
  BY <1>1 DEF Inv, Basics, TypeOK, RequestRows, TaskInv, About
<1>3. CASE Stop(k) /\ UNCHANGED requests
  BY <1>1, <1>3, Ends
<1>4. ASSUME NEW ruling \in {"rejected", "approved"}, NEW next \in {"reject_clear", "approve_tell"},
             GoTo(k, next), ruling = "rejected" => task[k].at = "reject_write",
             requests' = [requests EXCEPT ![r] =
                            [status |-> ruling, by |-> s, meant |-> asked[s]]]
      PROVE  Inv'
  <2>1. next \in Steps /\ next \notin Typing \cup Drafted
    BY DEF Steps, Typing, Drafted
  <2>2. /\ task' \in [Tasks -> Handlers \cup {Free}]
        /\ task'[k].at = next /\ task'[k].who = s /\ task'[k].text = task[k].text
        /\ \A j \in Tasks \ {k} : task'[j] = task[j]
    BY <1>1, <1>4, <2>1, GoToFacts
  <2>3. PICK row : row = [status |-> ruling, by |-> s, meant |-> asked[s]]
    OBVIOUS
  <2>4. row.status = ruling /\ row.by = s /\ row.meant = asked[s]
    BY <2>3
  <2>5. requests'[r] = row /\ \A q \in Requests \ {r} : requests'[q] = requests[q]
    BY <1>2, <1>4, <2>3 DEF RequestRows
  <2>6. fsm[s].request # None => asked[s] = fsm[s].request \/ s \in cut
    BY <1>1, WasAsked DEF Inv, Basics, At
  <2> HIDE DEF s, r
  <2>7. HandlerStep(k)
    BY <1>1, <2>2 DEF HandlerStep, Moves, s
  <2>8. SerialInv' /\ FormInv' /\ HeardInv' /\ ShownInv'
    <3>1. FormFits(k, s)
      BY <1>1, <1>4, <2>1, <2>2 DEF FormFits
    <3>2. HeardFits(k, s) /\ ShownFits(k, s)
      BY <1>1, <1>4, <2>1, <2>2 DEF HeardFits, ShownFits, Typing, Drafted, At
    <3>3. QED BY <1>1, <2>7, <3>1, <3>2, SerialKept, FormKept, HeardKept, ShownKept
              DEF Inv, Basics, s
  <2>9. AskedInv'
    <3>1. ruling = "rejected" => asked[s] = r \/ s \in cut
      BY <1>1, <1>4 DEF Inv, AskedInv, At, s, r
    <3>2. Commented'
      BY <1>1, <2>4, <2>5, <3>1 DEF Inv, AskedInv, Commented
    <3>3. \A j \in Tasks : At(j, "reject_write")' => At(j, "reject_write") /\ task'[j] = task[j]
      BY <1>4, <2>2 DEF At
    <3>4. \A j \in Tasks : At(j, "reject_ask") => At(j, "reject_ask")' /\ task'[j] = task[j]
      BY <1>1, <2>2 DEF At
    <3>5. QED BY <1>1, <3>2, <3>3, <3>4 DEF Inv, AskedInv
  <2>10. QED BY <2>8, <2>9 DEF Inv
<1>5. CASE RejectWrite(k)
  BY <1>3, <1>4, <1>5 DEF RejectWrite, Review, At
<1>6. CASE ApproveWrite(k)
  BY <1>3, <1>4, <1>6 DEF ApproveWrite, Review, At
<1>7. QED BY <1>5, <1>6

(* The resident is told, and the handler ends.                             *)
LEMMA TellStep ==
  ASSUME Inv, Basics', NEW k \in Tasks, RejectTell(k) \/ ApproveTell(k)
  PROVE  Inv'
<1>1. /\ Stop(k) /\ task[k].at \in {"reject_tell", "approve_tell"}
      /\ UNCHANGED <<fsm, requests, published, heard, seen, asked, cut, typed>>
  BY DEF RejectTell, ApproveTell, Tell, At, world
<1>2. QED BY <1>1, Ends DEF At

-----------------------------------------------------------------------------
(* What holds of people who wait: updates, others and failures.            *)

(* A handler begins: nobody else works for its person, and its text is new *)
(* or the text of no announcement.                                         *)
LEMMA Begins ==
  ASSUME Inv, Basics', patient, NEW k \in Tasks, NEW s \in Staff, NEW step \in Steps,
         NEW t \in Typeable \cup {None}, NEW r \in Requests \cup {None},
         NEW polished \in BOOLEAN, Starts(k, s, step, t, r, polished)
  PROVE  Inv'
<1>1. /\ task[k] = Free /\ task' \in [Tasks -> Handlers \cup {Free}]
      /\ task'[k] \in Handlers /\ task'[k].at = step /\ task'[k].who = s
      /\ task'[k].text = t /\ task'[k].polished = polished
      /\ \A j \in Tasks \ {k} : task'[j] = task[j]
      /\ UNCHANGED <<fsm, requests, published, heard, seen, asked, cut>>
  <2>1. Basics
    BY DEF Inv
  <2>2. /\ task[k] = Free /\ task' \in [Tasks -> Handlers \cup {Free}]
        /\ task'[k] \in Handlers /\ task'[k].at = step /\ task'[k].who = s
        /\ task'[k].text = t /\ task'[k].request = r /\ task'[k].polished = polished
        /\ \A j \in Tasks \ {k} : task'[j] = task[j]
        /\ UNCHANGED <<access, fsm, requests, published, heard, told, workers, seen,
                       asked, cut, failures, patient>>
        /\ updates < MaxUpdates /\ updates' = updates + 1
    BY <2>1, Started, Zenon
  <2>3. QED BY <2>2
<1>2. /\ \A j \in Tasks : task[j].who # s
      /\ step \notin Drafted
      /\ step \notin {"reject_data", "reject_ask", "reject_write", "add_card", "add_state"}
      /\ t \notin typed /\ typed' = typed \cup ({t} \cap Texts)
  BY DEF Starts, Begin
<1>3. SerialInv'
  BY <1>1, <1>2 DEF Inv, SerialInv
<1>4. FormInv'
  BY <1>1, <1>2 DEF Inv, FormInv, HasId, At
<1>5. ShownInv'
  <2>1. Seen' = Seen /\ Suggested'
    BY <1>1 DEF Inv, ShownInv, Suggested, Seen
  <2>2. \A j \in Tasks : At(j, "publish")' => task'[j] = task[j] /\ At(j, "publish")
    BY <1>1, <1>2 DEF At, Drafted
  <2>3. \A j \in Tasks : At(j, "card") => At(j, "card")' /\ task'[j] = task[j]
    BY <1>1 DEF At, Free
  <2>4. QED BY <1>1, <2>1, <2>2, <2>3 DEF Inv, ShownInv
<1>6. AskedInv'
  <2>1. \A j \in Tasks : At(j, "reject_write")' => At(j, "reject_write") /\ task'[j] = task[j]
    BY <1>1, <1>2 DEF At
  <2>2. \A j \in Tasks : At(j, "reject_ask") => At(j, "reject_ask")' /\ task'[j] = task[j]
    BY <1>1 DEF At, Free
  <2>3. Commented'
    BY <1>1 DEF Inv, AskedInv, Commented
  <2>4. QED BY <1>1, <2>1, <2>2, <2>3 DEF Inv, AskedInv
<1>7. HeardInv'
  <2>1. fsm' = fsm /\ heard' = heard /\ typed \subseteq typed' /\ HeardInv
    BY <1>1, <1>2 DEF Inv
  <2>2. \A c \in Texts : c \notin typed' => c \notin typed /\ c # t
    BY <1>2
  <2>3. \A c \in Texts, j \in Tasks : Carries(j, c)' =>
          \/ Carries(j, c) /\ task'[j] = task[j]
          \/ j = k /\ c = t /\ ~At(j, "broadcast")'
    BY <1>1, <1>2 DEF Carries, At, Drafted
  <2>4. \A c \in Texts, j \in Tasks : task'[j].text = c => task[j].text = c \/ c = t
    BY <1>1
  <2>5. \A j \in Tasks : At(j, "broadcast")' => At(j, "broadcast")
    BY <1>1, <1>2 DEF At, Drafted
  <2> SUFFICES ASSUME NEW c \in Texts
               PROVE
        /\ heard'[c] <= 1
        /\ c \notin typed' =>
             /\ heard'[c] = 0
             /\ \A q \in Staff : fsm'[q].pending # c
             /\ \A j \in Tasks : task'[j].text # c
        /\ heard'[c] # 0 =>
             /\ \A q \in Staff : fsm'[q].pending # c
             /\ \A j \in Tasks : ~Carries(j, c)'
        /\ \A i \in Tasks : Carries(i, c)' =>
             /\ \A j \in Tasks : Carries(j, c)' => task'[j].who = task'[i].who
             /\ \A q \in Staff : fsm'[q].pending = c =>
                  q = task'[i].who /\ ~At(i, "broadcast")'
        /\ \A p, q \in Staff : fsm'[p].pending = c /\ fsm'[q].pending = c => p = q
    BY DEF HeardInv
  <2>6. CASE c # t
    <3>1. \A j \in Tasks : Carries(j, c)' => Carries(j, c) /\ task'[j] = task[j]
      BY <2>3, <2>6
    <3> HIDE DEF Carries
    <3>2. QED BY <2>1, <2>2, <2>4, <2>5, <2>6, <3>1 DEF HeardInv
  <2>7. CASE c = t
    <3>1. /\ c \notin typed /\ c \in typed' /\ heard[c] = 0
          /\ \A q \in Staff : fsm[q].pending # c
          /\ \A j \in Tasks : task[j].text # c
      BY <1>2, <2>1, <2>7 DEF HeardInv
    <3>2. \A j \in Tasks : Carries(j, c)' => j = k
      BY <2>3, <3>1 DEF Carries
    <3> HIDE DEF Carries
    <3>3. QED BY <2>1, <3>1, <3>2
  <2>8. QED BY <2>6, <2>7
<1>8. QED BY <1>3, <1>4, <1>5, <1>6, <1>7 DEF Inv

(* What others do: access, reviews and announcements are no part of a      *)
(* form, and a comment that is stored stays.                               *)
LEMMA OthersStep ==
  ASSUME Inv, Basics',
         \/ \E s \in Staff : Revoke(s)
         \/ \E r \in Requests :
              Delete(r) \/ \E ruling \in {"approved", "rejected"} : ReviewByOther(r, ruling)
         \/ \E i \in DOMAIN published : DeleteAnnouncement(i)
  PROVE  Inv'
<1>1. UNCHANGED <<fsm, task, heard, seen, asked, cut, typed>>
  BY DEF Revoke, Delete, ReviewByOther, DeleteAnnouncement, world
<1>2. SerialInv' /\ FormInv' /\ HeardInv'
  BY <1>1 DEF Inv, SerialInv, FormInv, HasId, HeardInv, Carries, At
<1>3. ShownInv'
  <2>1. \A j \in DOMAIN published' : \E n \in DOMAIN published : published'[j] = published[n]
    <3>1. CASE UNCHANGED published
      BY <3>1
    <3>2. ASSUME NEW i \in DOMAIN published, DeleteAnnouncement(i)
          PROVE  \A j \in DOMAIN published' :
                   \E n \in DOMAIN published : published'[j] = published[n]
      BY <3>2, RemoveKeeps DEF DeleteAnnouncement, Inv, Basics, TypeOK
    <3>3. QED BY <3>1, <3>2 DEF Revoke, Delete, ReviewByOther, world
  <2>2. Suggested'
    BY <1>1, <2>1 DEF Inv, ShownInv, Suggested
  <2>3. QED BY <1>1, <2>2 DEF Inv, ShownInv, Seen, At
<1>4. AskedInv'
  <2>1. requests \in RequestRows /\ Commented
    BY DEF Inv, Basics, TypeOK, RequestRows, AskedInv
  <2>2. ASSUME NEW r \in Requests, Delete(r)
        PROVE  Commented'
    BY <1>1, <2>1, <2>2, Deleted DEF Commented
  <2>3. ASSUME NEW r \in Requests, NEW ruling \in {"approved", "rejected"},
               ReviewByOther(r, ruling)
        PROVE  Commented'
    <3>1. PICK row : row = [status |-> ruling, by |-> None, meant |-> r]
      OBVIOUS
    <3>2. row.meant = r
      BY <3>1
    <3>3. requests'[r] = row /\ \A q \in Requests \ {r} : requests'[q] = requests[q]
      BY <2>1, <2>3, <3>1 DEF ReviewByOther, RequestRows
    <3>4. QED BY <1>1, <2>1, <3>2, <3>3 DEF Commented
  <2>4. ASSUME requests' = requests
        PROVE  Commented'
    BY <1>1, <2>1, <2>4 DEF Commented
  <2>5. ASSUME NEW q \in Staff, Revoke(q)
        PROVE  requests' = requests
    BY <2>5 DEF Revoke, world
  <2>6. ASSUME NEW i \in DOMAIN published, DeleteAnnouncement(i)
        PROVE  requests' = requests
    BY <2>6 DEF DeleteAnnouncement
  <2>7. Commented'
    BY <2>2, <2>3, <2>4, <2>5, <2>6
  <2>8. QED BY <1>1, <2>7 DEF Inv, AskedInv, At
<1>5. QED BY <1>2, <1>3, <1>4 DEF Inv

(* What is cut off is remembered: the question not put, the card not       *)
(* shown.                                                                  *)
LEMMA CutStep ==
  ASSUME Inv, Basics', NEW K \in SUBSET Tasks, Cuts(K)
  PROVE  Inv'
<1>1. /\ \A k \in Tasks :
           /\ k \notin K => task'[k] = task[k]
           /\ k \in K => /\ task'[k] = Free /\ task'[k].at = "idle" /\ task'[k].who = None
                         /\ task'[k].text = None /\ ~task'[k].polished
      /\ \A s \in Staff : \/ fsm'[s] = fsm[s] /\ asked'[s] = asked[s]
                          \/ /\ fsm'[s].pending = None /\ fsm'[s].request = None
                             /\ fsm'[s].state = "none"
      /\ cut \subseteq cut'
      /\ \A k \in K : /\ task[k].at \in {"reject_data", "reject_ask"} => task[k].who \in cut'
                      /\ At(k, "card") => task[k].text \in cut'
      /\ UNCHANGED <<requests, published, heard, seen, typed>>
  BY CutFacts DEF Inv
<1>2. SerialInv'
  BY <1>1, Kinds DEF Inv, SerialInv
<1>3. \A k \in Tasks : task'[k].at # "idle" =>
        /\ k \notin K /\ task'[k] = task[k] /\ task[k].who \in Staff
        /\ fsm'[task[k].who] = fsm[task[k].who] /\ asked'[task[k].who] = asked[task[k].who]
  BY <1>1, Busy DEF Inv, Basics, Cuts
<1>4. FormInv'
  <2>1. HasId'
    BY <1>1 DEF Inv, FormInv, HasId
  <2>2. QED BY <1>3, <2>1 DEF Inv, FormInv, At
<1>5. HeardInv'
  <2>1. \A k \in Tasks, t \in Texts : Carries(k, t)' => Carries(k, t) /\ task'[k] = task[k]
    BY <1>1, Kinds DEF Carries
  <2>2. \A k \in Tasks, t \in Texts : task'[k].text = t => task[k].text = t
    BY <1>1, Kinds
  <2>3. \A s \in Staff, t \in Texts : fsm'[s].pending = t => fsm[s].pending = t
    BY <1>1, Kinds
  <2>4. \A k \in Tasks : At(k, "broadcast")' => At(k, "broadcast")
    BY <1>1 DEF At
  <2>5. heard' = heard /\ typed' = typed
    BY <1>1
  <2> HIDE DEF Carries
  <2>6. QED BY <2>1, <2>2, <2>3, <2>4, <2>5 DEF Inv, HeardInv
<1>6. ShownInv'
  <2>1. Seen \subseteq Seen' /\ cut' \subseteq Seen'
    BY <1>1 DEF Seen
  <2>2. Suggested'
    <3>1. \A i \in DOMAIN published' : published'[i].polished => published'[i].text \in Seen'
      BY <1>1, <2>1 DEF Inv, ShownInv, Suggested, Seen
    <3>2. QED BY <3>1 DEF Suggested, Seen
  <2>3. ASSUME NEW s \in Staff, fsm'[s].pending # None
        PROVE  \/ fsm'[s].pending \in Seen'
               \/ \E k \in Tasks : At(k, "card")' /\ task'[k].who = s
                                   /\ task'[k].text = fsm'[s].pending
    <3>1. fsm'[s].pending = fsm[s].pending
      BY <1>1, <2>3
    <3>2. CASE fsm[s].pending \in Seen
      BY <2>1, <3>1, <3>2
    <3>3. ASSUME NEW k \in Tasks, At(k, "card"), task[k].who = s, task[k].text = fsm[s].pending
          PROVE  \/ fsm'[s].pending \in Seen'
                 \/ At(k, "card")' /\ task'[k].who = s /\ task'[k].text = fsm'[s].pending
      BY <1>1, <2>1, <3>1, <3>3 DEF At
    <3>4. QED BY <2>3, <3>1, <3>2, <3>3 DEF Inv, ShownInv
  <2>4. \A k \in Tasks : At(k, "publish")' => At(k, "publish") /\ task'[k] = task[k]
    BY <1>1 DEF At
  <2>5. QED BY <2>1, <2>2, <2>3, <2>4 DEF Inv, ShownInv
<1>7. AskedInv'
  <2>1. ASSUME NEW s \in Staff, fsm'[s].request # None
        PROVE  \/ asked'[s] = fsm'[s].request \/ s \in cut'
               \/ \E k \in Tasks : At(k, "reject_ask")' /\ task'[k].who = s
    <3>1. fsm'[s] = fsm[s] /\ asked'[s] = asked[s]
      BY <1>1, <2>1
    <3>2. ASSUME NEW k \in Tasks, At(k, "reject_ask"), task[k].who = s
          PROVE  s \in cut' \/ (At(k, "reject_ask")' /\ task'[k].who = s)
      BY <1>1, <3>2 DEF At
    <3>3. QED BY <1>1, <2>1, <3>1, <3>2 DEF Inv, AskedInv
  <2>2. ASSUME NEW k \in Tasks, At(k, "reject_write")'
        PROVE  asked'[task'[k].who] = task'[k].request \/ task'[k].who \in cut'
    BY <1>1, <1>3, <2>2 DEF Inv, AskedInv, At
  <2>3. Commented'
    BY <1>1 DEF Inv, AskedInv, Commented
  <2>4. QED BY <2>1, <2>2, <2>3 DEF AskedInv
<1>8. QED BY <1>2, <1>4, <1>5, <1>6, <1>7 DEF Inv

-----------------------------------------------------------------------------
(* The theorems.                                                           *)

(* The invariant of people who wait holds at first and is kept by every    *)
(* step; whether people wait never changes.                                *)
LEMMA InvInit == Init => Inv
<1> SUFFICES ASSUME Init PROVE Inv
  OBVIOUS
<1>1. /\ \A k \in Tasks : task[k] = Free
      /\ Free.at = "idle" /\ Free.who = None /\ Free.text = None /\ ~Free.polished
  BY DEF Init, Free
<1>2. SerialInv
  BY <1>1, Kinds DEF SerialInv
<1>3. \A s \in Staff : fsm[s].pending = None /\ fsm[s].request = None /\ fsm[s].state = "none"
  BY DEF Init, Empty
<1>4. FormInv
  BY <1>1, <1>3 DEF FormInv, HasId, At
<1>5. HeardInv
  BY <1>1, <1>3, Kinds DEF Init, HeardInv, Carries
<1>6. ShownInv
  BY <1>1, <1>3 DEF Init, ShownInv, Suggested, At
<1>7. AskedInv
  BY <1>1, <1>3 DEF Init, AskedInv, Commented, At
<1>8. QED BY <1>2, <1>4, <1>5, <1>6, <1>7, BasicsInit DEF Inv

LEMMA InvStep == patient /\ Inv /\ [Next]_vars => Inv'
<1> SUFFICES ASSUME patient, Inv, [Next]_vars PROVE Inv'
  OBVIOUS
<1>1. Basics'
  BY BasicsStep DEF Inv
<1>2. CASE UNCHANGED vars
  BY <1>1, <1>2 DEF vars, Inv, SerialInv, FormInv, HasId, HeardInv, Carries, ShownInv, Seen,
     Suggested, AskedInv, Commented, At
<1>3. ASSUME NEW k \in Tasks, Handler(k)
      PROVE  Inv'
  BY <1>1, <1>3, ShortSteps, AnnTextStep, AnnCardStep, AnnUseStep, PublishStep, AnnClearStep,
     BroadcastStep, RejectStartStep, RejectDataStep, RejectAskStep, RejectTextStep,
     ApproveStep, ReviewStep, TellStep, AddIdStep, AddCardStep DEF Handler
<1>4. ASSUME NEW k \in Tasks, NEW s \in Staff,
             Tap(k, s) \/ \E m \in Typeable : Receive(k, s, m)
      PROVE  Inv'
  BY <1>1, <1>4, Updates, Begins DEF Inv, Basics
<1>5. CASE (\E k \in Tasks : Fail(k)) \/ Restart
  BY <1>1, <1>5, Failures, CutStep DEF Inv, Basics
<1>6. QED BY <1>1, <1>2, <1>3, <1>4, <1>5, OthersStep DEF Next

LEMMA PatienceStep == [Next]_vars => patient' = patient
<1> SUFFICES ASSUME [Next]_vars PROVE patient' = patient
  OBVIOUS
<1>1. CASE UNCHANGED vars
  BY <1>1 DEF vars
<1>2. ASSUME NEW k \in Tasks, Handler(k)
      PROVE  patient' = patient
  <2>1. CASE \/ Cancel(k) \/ AnnStart(k) \/ AnnText(k) \/ AnnCard(k) \/ AnnUse(k)
             \/ Publish(k) \/ AnnClear(k) \/ Broadcast(k)
    BY <2>1 DEF Cancel, AnnStart, AnnText, AnnCard, AnnUse, Publish, AnnClear, Broadcast
  <2>2. CASE \/ RejectStart(k) \/ RejectData(k) \/ RejectAsk(k) \/ RejectText(k)
             \/ RejectWrite(k) \/ RejectClear(k) \/ RejectTell(k)
    BY <2>2 DEF RejectStart, RejectData, RejectAsk, RejectText, RejectWrite, RejectClear,
       RejectTell, Review, Tell
  <2>3. CASE Approve(k) \/ ApproveWrite(k) \/ ApproveTell(k)
    BY <2>3 DEF Approve, ApproveWrite, ApproveTell, Review, Tell
  <2>4. CASE AddStart(k) \/ AddId(k) \/ AddCard(k) \/ AddState(k) \/ AddFinish(k) \/ AddClear(k)
    BY <2>4 DEF AddStart, AddId, AddCard, AddState, AddFinish, AddClear
  <2>5. QED BY <1>2, <2>1, <2>2, <2>3, <2>4 DEF Handler
<1>3. ASSUME NEW k \in Tasks, NEW s \in Staff,
             Tap(k, s) \/ \E m \in Typeable : Receive(k, s, m)
      PROVE  patient' = patient
  BY <1>3 DEF Tap, Receive, Begin
<1>4. CASE (\E k \in Tasks : Fail(k)) \/ Restart
  BY <1>4 DEF Fail, Restart
<1>5. ASSUME \/ \E s \in Staff : Revoke(s)
             \/ \E r \in Requests :
                  Delete(r) \/ \E ruling \in {"approved", "rejected"} : ReviewByOther(r, ruling)
             \/ \E i \in DOMAIN published : DeleteAnnouncement(i)
      PROVE  patient' = patient
  BY <1>5 DEF Revoke, Delete, ReviewByOther, DeleteAnnouncement
<1>6. QED BY <1>1, <1>2, <1>3, <1>4, <1>5 DEF Next

LEMMA PatienceCorrect == Spec => [](patient => Inv)
<1>1. Init => (patient => Inv)
  BY InvInit
<1>2. (patient => Inv) /\ [Next]_vars => (patient => Inv)'
  BY InvStep, PatienceStep
<1>3. QED BY <1>1, <1>2, PTL DEF Spec

(* Every variable keeps its type.                                          *)
THEOREM TypeCorrect == Spec => []TypeOK
<1>1. Basics => TypeOK
  BY DEF Basics
<1>2. QED BY BasicsInit, BasicsStep, <1>1, PTL DEF Spec

(* A resident is told one verdict, the stored one, whoever taps whatever   *)
(* meanwhile, waiting for answers or not.                                  *)
THEOREM VerdictCorrect == Spec => []OneVerdict
<1>1. Basics => OneVerdict
  BY DEF Basics, VerdictInv
<1>2. QED BY BasicsInit, BasicsStep, <1>1, PTL DEF Spec

(* An announcement is heard once at most where people wait for answers: a  *)
(* text belongs to one author, and to his form only until the form is      *)
(* cleared, before the broadcast.                                          *)
THEOREM OnceCorrect == Spec => []HeardOnce
<1>1. (patient => Inv) => HeardOnce
  BY DEF Inv, HeardInv, HeardOnce
<1>2. QED BY PatienceCorrect, <1>1, PTL

(* Where people wait, no suggestion of the LLM is published unseen.        *)
THEOREM ShownCorrect == Spec => []SuggestionWasShown
<1>1. (patient => Inv) => SuggestionWasShown
  BY DEF Inv, ShownInv, Suggested, SuggestionWasShown
<1>2. QED BY PatienceCorrect, <1>1, PTL

(* Where people wait, a comment is stored with the request its author was  *)
(* asked about.                                                            *)
THEOREM CommentCorrect == Spec => []CommentForItsRequest
<1>1. (patient => Inv) => CommentForItsRequest
  BY DEF Inv, AskedInv, Commented, CommentForItsRequest
<1>2. QED BY PatienceCorrect, <1>1, PTL

(* Where people wait, who is asked for a category has given an id.         *)
THEOREM CategoryCorrect == Spec => []CategoryHasId
<1>1. (patient => Inv) => CategoryHasId
  BY DEF Inv, FormInv, HasId, CategoryHasId
<1>2. QED BY PatienceCorrect, <1>1, PTL

-----------------------------------------------------------------------------
(* The worker's dialogue: the inductive invariant.                         *)

(* A handler that acknowledges, clears or notifies holds what the table    *)
(* holds; one that has not got that far still has its context in the FSM,  *)
(* or somebody else closed its request, as long as no state was lost.      *)
Good(q, rs, f, lost) ==
  /\ q \in HandlerStates
  /\ q.phase # "free" => q.context \in CompletionData
  /\ q.phase \in {"ack", "clear", "notify"} =>
       /\ q.comment \in Comments
       /\ rs[q.context.id].status = "closed"
       /\ rs[q.context.id].result = q.context.result
       /\ rs[q.context.id].comment = q.comment
  /\ q.phase \in {"look", "review", "write"} =>
       lost \/ f = q.context \/ rs[q.context.id].status = "closed"

Notifies(t, i) == handler[t].phase = "notify" /\ handler[t].context.id = i

RowInv == /\ rows \in [Assigned -> Rows]
          /\ \A i \in Assigned : rows[i].status = "closed" =>
               rows[i].result \in Results /\ rows[i].comment \in Comments
ChosenInv == chosen \in CompletionData \cup {Nothing} /\ dropped \in BOOLEAN
HandlerInv == /\ handler \in [Comments -> HandlerStates]
           /\ \A t \in Comments : Good(handler[t], rows, chosen, dropped)
AckInv == acked \in [Assigned -> SUBSET Notices] /\ AckIsStored
NotifiedInv == notified \in [Assigned -> Nat]
CountInv == /\ errors \in 0..MaxErrors /\ moves \in 0..MaxMoves
            /\ sent \in 0..MaxSent

(* A completion not yet told to the resident is about to be, or is still   *)
(* in the FSM: sharper than NotLost, which trusts any handler of it.       *)
LostInv ==
  \A i \in Assigned :
    rows[i].status = "closed" /\ ~dropped =>
      \/ notified[i] > 0
      \/ chosen = [id |-> i, result |-> rows[i].result]
      \/ \E t \in Comments : Notifies(t, i)

CompletionInv == RowInv /\ ChosenInv /\ HandlerInv /\ AckInv /\ NotifiedInv /\ CountInv /\ LostInv

(* A completed request does not change.                                    *)
Final == \A i \in Assigned : rows[i].status = "closed" => rows'[i] = rows[i]
(* The FSM state stays, or there was none, or it was about a request that  *)
(* is completed already; anything else is remembered as a loss.            *)
Calm == /\ dropped => dropped'
        /\ \/ dropped' \/ chosen' = chosen \/ chosen = Nothing
           \/ rows[chosen.id].status = "closed"

-----------------------------------------------------------------------------
(* How a step changes the handlers of the comments.                        *)

LEMMA ChoiceFacts ==
  /\ \A c \in CompletionData : /\ c.id \in Assigned /\ c.result \in Results /\ c # Nothing
                         /\ c = [id |-> c.id, result |-> c.result]
  /\ \A t \in Comments : t # Nothing
BY CompletionAssumption DEF CompletionData

(* A handler that has ended holds nothing that could go stale.             *)
LEMMA IdleGood == \A rs, f, lost : Good(Idle, rs, f, lost)
<1>1. Idle \in HandlerStates
  BY CompletionAssumption DEF Idle, HandlerStates
<1>2. QED BY <1>1 DEF Good, Idle

(* What a handler holds stays good if completed requests do not change and *)
(* the FSM state is not lost.                                              *)
LEMMA GoodKeeps ==
  ASSUME NEW q, Good(q, rows, chosen, dropped), Final, Calm
  PROVE  Good(q, rows', chosen', dropped')
<1>1. CASE q.phase = "free"
  BY <1>1 DEF Good
<1>2. CASE q.phase # "free"
  <2>1. q.context \in CompletionData /\ q.context.id \in Assigned /\ q.context # Nothing
    BY <1>2, ChoiceFacts DEF Good
  <2>2. rows[q.context.id].status = "closed" => rows'[q.context.id] = rows[q.context.id]
    BY <2>1 DEF Final
  <2>3. QED BY <2>1, <2>2 DEF Good, Calm
<1>3. QED BY <1>1, <1>2

(* One handler takes a step.                                               *)
LEMMA HandlerMoves ==
  ASSUME HandlerInv, NEW t \in Comments, NEW q, Good(q, rows', chosen', dropped'),
         handler' = [handler EXCEPT ![t] = q], Final, Calm
  PROVE  HandlerInv'
<1>1. \A u \in Comments : Good(handler[u], rows', chosen', dropped')
  BY GoodKeeps DEF HandlerInv
<1>2. q \in HandlerStates
  BY DEF Good
<1>3. handler' \in [Comments -> HandlerStates]
      /\ \A u \in Comments : handler'[u] = IF u = t THEN q ELSE handler[u]
  BY <1>2 DEF HandlerInv
<1>4. \A u \in Comments : Good(handler'[u], rows', chosen', dropped')
  BY <1>1, <1>3
<1>5. QED BY <1>3, <1>4 DEF HandlerInv

(* No handler takes a step.                                                *)
LEMMA HandlersSame ==
  ASSUME HandlerInv, handler' = handler, Final, Calm
  PROVE  HandlerInv'
<1>1. \A u \in Comments : Good(handler[u], rows', chosen', dropped')
  BY GoodKeeps DEF HandlerInv
<1>2. QED BY <1>1 DEF HandlerInv

(* What was acknowledged stays stored.                                     *)
LEMMA AckSame ==
  ASSUME AckInv, acked' = acked, Final
  PROVE  AckInv'
BY DEF AckInv, AckIsStored, Final

(* A completion stays in the FSM or about to be told, if the FSM state     *)
(* stays and whoever notifies goes on.                                     *)
LEMMA LostSame ==
  ASSUME LostInv, rows' = rows, notified' = notified, dropped => dropped',
         dropped' \/ chosen' = chosen \/ chosen = Nothing,
         dropped' \/ \A u \in Comments : handler[u].phase = "notify" => handler'[u] = handler[u],
         RowInv
  PROVE  LostInv'
<1> SUFFICES ASSUME NEW i \in Assigned, rows[i].status = "closed", ~dropped'
    PROVE  \/ notified[i] > 0
           \/ chosen' = [id |-> i, result |-> rows[i].result]
           \/ \E u \in Comments : Notifies(u, i)'
  BY DEF LostInv
<1>1. CASE \E u \in Comments : Notifies(u, i)
  BY <1>1 DEF Notifies
<1>2. CASE chosen = [id |-> i, result |-> rows[i].result]
  <2>1. chosen \in CompletionData
    BY <1>2 DEF RowInv, CompletionData
  <2>2. QED BY <1>2, <2>1, ChoiceFacts
<1>3. QED BY <1>1, <1>2 DEF LostInv

(* The invariant holds at first.                                           *)
LEMMA CompletionHolds == CompletionInit => CompletionInv
<1> SUFFICES ASSUME CompletionInit PROVE CompletionInv
  OBVIOUS
<1>1. RowInv
  BY CompletionAssumption DEF CompletionInit, RowInv, Rows
<1>2. ChosenInv
  BY DEF CompletionInit, ChosenInv
<1>3. HandlerInv
  <2>1. \A t \in Comments : handler[t] = Idle /\ Good(Idle, rows, chosen, dropped)
    BY IdleGood DEF CompletionInit
  <2>2. Idle \in HandlerStates
    BY IdleGood DEF Good
  <2>3. handler \in [Comments -> HandlerStates]
    BY <2>2 DEF CompletionInit
  <2>4. QED BY <2>1, <2>3 DEF HandlerInv
<1>4. AckInv
  BY DEF CompletionInit, AckInv, AckIsStored
<1>5. NotifiedInv /\ CountInv
  BY CompletionAssumption DEF CompletionInit, NotifiedInv, CountInv
<1>6. LostInv
  BY DEF CompletionInit, LostInv
<1>7. QED BY <1>1, <1>2, <1>3, <1>4, <1>5, <1>6 DEF CompletionInv

-----------------------------------------------------------------------------
(* One lemma for each kind of step.                                        *)

(* Each step keeps the invariant.                                          *)
LEMMA ChooseStep ==
  ASSUME CompletionInv, NEW i \in Assigned, NEW result \in Results, Choose(i, result)
  PROVE  CompletionInv'
<1>1. /\ chosen' = [id |-> i, result |-> result]
      /\ dropped' = (dropped \/ chosen \notin {Nothing, chosen'})
      /\ rows' = rows /\ handler' = handler /\ acked' = acked /\ notified' = notified
      /\ errors' = errors /\ moves' = moves /\ sent' = sent
  BY DEF Choose
<1>2. chosen' \in CompletionData
  BY <1>1 DEF CompletionData
<1>3. dropped' \in BOOLEAN /\ (dropped => dropped')
      /\ (dropped' \/ chosen' = chosen \/ chosen = Nothing)
  BY <1>1 DEF CompletionInv, ChosenInv
<1>4. Final /\ Calm
  BY <1>1, <1>3 DEF Final, Calm
<1>5. HandlerInv'
  BY <1>1, <1>4, HandlersSame DEF CompletionInv
<1>6. AckInv'
  BY <1>1, <1>4, AckSame DEF CompletionInv
<1>7. LostInv'
  BY <1>1, <1>3, LostSame DEF CompletionInv
<1>8. QED BY <1>1, <1>2, <1>3, <1>5, <1>6, <1>7
          DEF CompletionInv, RowInv, ChosenInv, NotifiedInv, CountInv

LEMMA CancelStep ==
  ASSUME CompletionInv, CancelChoice
  PROVE  CompletionInv'
<1>1. /\ chosen' = Nothing /\ dropped' = TRUE
      /\ rows' = rows /\ handler' = handler /\ acked' = acked /\ notified' = notified
      /\ errors' = errors /\ moves' = moves /\ sent' = sent
  BY DEF CancelChoice
<1>2. Final /\ Calm
  BY <1>1 DEF Final, Calm
<1>3. HandlerInv'
  BY <1>1, <1>2, HandlersSame DEF CompletionInv
<1>4. AckInv'
  BY <1>1, <1>2, AckSame DEF CompletionInv
<1>5. LostInv'
  BY <1>1 DEF LostInv
<1>6. QED BY <1>1, <1>3, <1>4, <1>5 DEF CompletionInv, RowInv, ChosenInv, NotifiedInv, CountInv

(* A step of the handler t that touches neither a request nor the FSM, nor *)
(* what anybody was told, while t is not notifying.                        *)
LEMMA SilentStep ==
  ASSUME CompletionInv, NEW t \in Comments, handler[t].phase # "notify",
         NEW q, Good(q, rows, chosen, dropped), handler' = [handler EXCEPT ![t] = q],
         rows' = rows, chosen' = chosen, dropped' = dropped, acked' = acked,
         notified' = notified, CountInv'
  PROVE  CompletionInv'
<1>1. Final /\ Calm
  BY DEF Final, Calm
<1>2. Good(q, rows', chosen', dropped')
  OBVIOUS
<1>3. HandlerInv'
  BY <1>1, <1>2, HandlerMoves DEF CompletionInv
<1>4. AckInv'
  BY <1>1, AckSame DEF CompletionInv
<1>5. \A u \in Comments : handler[u].phase = "notify" => handler'[u] = handler[u]
  BY DEF CompletionInv, HandlerInv
<1>6. LostInv'
  BY <1>5, LostSame DEF CompletionInv
<1>7. QED BY <1>3, <1>4, <1>6 DEF CompletionInv, RowInv, ChosenInv, NotifiedInv

LEMMA ReceiveCommentStep ==
  ASSUME CompletionInv, NEW t \in Comments, ReceiveComment(t)
  PROVE  CompletionInv'
<1> DEFINE q == [Idle EXCEPT !.phase = "look", !.context = chosen]
<1>1. handler[t].phase # "notify" /\ chosen \in CompletionData
  BY DEF ReceiveComment, CompletionInv, ChosenInv
<1>2. q \in HandlerStates
  <2>1. Idle \in HandlerStates
    BY IdleGood DEF Good
  <2>2. chosen \in CompletionData \cup {Nothing}
    BY <1>1
  <2>3. QED BY <2>1, <2>2 DEF HandlerStates
<1>3. Good(q, rows, chosen, dropped)
  <2>1. q.phase = "look" /\ q.context = chosen
    BY DEF Idle
  <2> HIDE DEF q
  <2>2. QED BY <1>1, <1>2, <2>1 DEF Good
<1>4. handler' = [handler EXCEPT ![t] = q]
  BY DEF ReceiveComment
<1>5. CountInv'
  BY CompletionAssumption DEF ReceiveComment, CompletionInv, CountInv
<1> HIDE DEF q
<1>6. QED BY <1>1, <1>3, <1>4, <1>5, SilentStep DEF ReceiveComment

LEMMA LookStep ==
  ASSUME CompletionInv, NEW t \in Comments, Replay(t) \/ Ask(t) \/ Refuse(t) \/ Improve(t)
  PROVE  CompletionInv'
<1>1. handler[t] \in HandlerStates /\ Good(handler[t], rows, chosen, dropped)
  BY DEF CompletionInv, HandlerInv
<1>2. /\ handler[t].phase # "notify" /\ rows' = rows /\ chosen' = chosen /\ dropped' = dropped
      /\ acked' = acked /\ notified' = notified
      /\ errors' = errors /\ moves' = moves /\ sent' = sent
  BY DEF Replay, Ask, Refuse, Improve, Become, Finish
<1>3. CountInv'
  BY <1>2 DEF CompletionInv, CountInv
<1>4. CASE Replay(t)
  <2> DEFINE i == handler[t].context.id
             q == [handler[t] EXCEPT !.phase = "ack", !.comment = rows[i].comment]
  <2>1. handler[t].context \in CompletionData /\ i \in Assigned
    BY <1>1, <1>4, ChoiceFacts DEF Good, Replay
  <2>2. rows[i].status = "closed" /\ rows[i].result = handler[t].context.result
        /\ rows[i].comment \in Comments
    BY <1>4, <2>1 DEF Replay, Completed, CompletionInv, RowInv
  <2>3. /\ q \in HandlerStates /\ q.phase = "ack" /\ q.context = handler[t].context
        /\ q.comment = rows[i].comment
    BY <1>1, <2>2 DEF HandlerStates
  <2>4. handler' = [handler EXCEPT ![t] = q]
    BY <1>4 DEF Replay
  <2> HIDE DEF q
  <2>5. Good(q, rows, chosen, dropped)
    BY <2>1, <2>2, <2>3 DEF Good
  <2>6. QED BY <1>2, <1>3, <2>4, <2>5, SilentStep
<1>5. CASE Refuse(t)
  <2>1. handler' = [handler EXCEPT ![t] = Idle]
    BY <1>5 DEF Refuse, Finish
  <2>2. Good(Idle, rows, chosen, dropped)
    BY IdleGood
  <2>3. QED BY <1>2, <1>3, <2>1, <2>2, SilentStep
<1>6. ASSUME NEW phase \in {"review", "write"},
             handler[t].phase \in {"look", "review"},
             handler' = [handler EXCEPT ![t].phase = phase]
      PROVE  CompletionInv'
  <2> DEFINE q == [handler[t] EXCEPT !.phase = phase]
  <2>1. q \in HandlerStates /\ q.phase = phase /\ q.context = handler[t].context
    BY <1>1 DEF HandlerStates
  <2>2. handler' = [handler EXCEPT ![t] = q]
    BY <1>6
  <2> HIDE DEF q
  <2>3. Good(q, rows, chosen, dropped)
    BY <1>1, <1>6, <2>1 DEF Good
  <2>4. QED BY <1>2, <1>3, <2>2, <2>3, SilentStep
<1>7. CASE Ask(t)
  BY <1>6, <1>7 DEF Ask, Become
<1>8. CASE Improve(t)
  BY <1>6, <1>8 DEF Improve, Become
<1>9. QED BY <1>4, <1>5, <1>7, <1>8

LEMMA AckFailsStep ==
  ASSUME CompletionInv, NEW t \in Comments, AckFails(t)
  PROVE  CompletionInv'
<1>1. handler[t] \in HandlerStates /\ Good(handler[t], rows, chosen, dropped)
      /\ handler[t].phase = "ack"
  BY DEF CompletionInv, HandlerInv, AckFails
<1>2. /\ rows' = rows /\ chosen' = chosen /\ dropped' = dropped /\ acked' = acked
      /\ notified' = notified
  BY DEF AckFails
<1>3. CountInv'
  BY CompletionAssumption DEF AckFails, CompletionInv, CountInv
<1>4. CASE handler[t].tries + 1 < Attempts
  <2> DEFINE q == [handler[t] EXCEPT !.tries = @ + 1]
  <2>1. handler[t].tries + 1 \in 0..(Attempts - 1)
    BY <1>1, <1>4, CompletionAssumption DEF HandlerStates
  <2>2. /\ q \in HandlerStates /\ q.phase = "ack" /\ q.context = handler[t].context
        /\ q.comment = handler[t].comment
    BY <1>1, <2>1 DEF HandlerStates
  <2>3. handler' = [handler EXCEPT ![t] = q]
    BY <1>4 DEF AckFails
  <2> HIDE DEF q
  <2>4. Good(q, rows, chosen, dropped)
    BY <1>1, <2>2 DEF Good
  <2>5. QED BY <1>1, <1>2, <1>3, <2>3, <2>4, SilentStep
<1>5. CASE ~(handler[t].tries + 1 < Attempts)
  <2>1. handler' = [handler EXCEPT ![t] = Idle]
    BY <1>5 DEF AckFails, Finish
  <2>2. Good(Idle, rows, chosen, dropped)
    BY IdleGood
  <2>3. QED BY <1>1, <1>2, <1>3, <2>1, <2>2, SilentStep
<1>6. QED BY <1>4, <1>5

LEMMA UnavailableStep ==
  ASSUME CompletionInv, NEW t \in Comments, Unavailable(t)
  PROVE  CompletionInv'
<1>1. /\ chosen' = Nothing /\ dropped' = (dropped \/ chosen # Nothing)
      /\ handler' = [handler EXCEPT ![t] = Idle] /\ handler[t].phase = "look"
      /\ rows' = rows /\ acked' = acked /\ notified' = notified
      /\ errors' = errors /\ moves' = moves /\ sent' = sent
  BY DEF Unavailable, Finish
<1>2. dropped' \in BOOLEAN /\ (dropped => dropped') /\ (dropped' \/ chosen = Nothing)
  BY <1>1 DEF CompletionInv, ChosenInv
<1>3. Final /\ Calm
  BY <1>1, <1>2 DEF Final, Calm
<1>4. HandlerInv'
  BY <1>1, <1>3, IdleGood, HandlerMoves DEF CompletionInv
<1>5. AckInv'
  BY <1>1, <1>3, AckSame DEF CompletionInv
<1>6. \A u \in Comments : handler[u].phase = "notify" => handler'[u] = handler[u]
  BY <1>1 DEF CompletionInv, HandlerInv
<1>7. LostInv'
  BY <1>1, <1>2, <1>6, LostSame DEF CompletionInv
<1>8. QED BY <1>1, <1>2, <1>4, <1>5, <1>7
          DEF CompletionInv, RowInv, ChosenInv, NotifiedInv, CountInv

(* close_request: the handler completes its request, whose context is then *)
(* still in the FSM, or nothing happens.                                   *)
LEMMA CloseStep ==
  ASSUME CompletionInv, NEW t \in Comments, Close(t)
  PROVE  CompletionInv'
<1> DEFINE c == handler[t].context
           i == c.id
<1>1. /\ handler[t] \in HandlerStates /\ Good(handler[t], rows, chosen, dropped)
      /\ handler[t].phase = "write" /\ c \in CompletionData
  BY DEF CompletionInv, HandlerInv, Close, Good
<1>2. i \in Assigned /\ c.result \in Results /\ c = [id |-> i, result |-> c.result]
  BY <1>1, ChoiceFacts
<1>3. /\ chosen' = chosen /\ dropped' = dropped /\ acked' = acked /\ notified' = notified
      /\ errors' = errors /\ moves' = moves /\ sent' = sent
  BY DEF Close
<1>4. CountInv'
  BY <1>3 DEF CompletionInv, CountInv
<1>5. CASE ~Open(t)
  <2>1. rows' = rows /\ handler' = [handler EXCEPT ![t] = Idle]
    BY <1>5 DEF Close, Finish
  <2>2. Good(Idle, rows, chosen, dropped)
    BY IdleGood
  <2>3. QED BY <1>1, <1>3, <1>4, <2>1, <2>2, SilentStep
<1>6. CASE Open(t)
  <2> DEFINE row == [rows[i] EXCEPT !.status = "closed", !.result = c.result,
                                    !.comment = t]
             q == [handler[t] EXCEPT !.phase = "ack", !.comment = t]
  <2>1. rows[i] \in Rows /\ rows[i].status = "accepted"
    BY <1>2, <1>6 DEF Open, CompletionInv, RowInv
  <2>2. /\ row \in Rows /\ row.status = "closed" /\ row.result = c.result
        /\ row.comment = t
    BY <1>2, <2>1 DEF Rows
  <2>3. /\ q \in HandlerStates /\ q.phase = "ack" /\ q.context = c /\ q.comment = t
    BY <1>1 DEF HandlerStates
  <2>4. rows' = [rows EXCEPT ![i] = row]
    BY <1>6 DEF Close
  <2>5. handler' = [handler EXCEPT ![t] = q]
    BY <1>6 DEF Close
  <2> HIDE DEF row, q
  <2>6. /\ rows' \in [Assigned -> Rows] /\ rows'[i] = row
        /\ \A j \in Assigned : j # i => rows'[j] = rows[j]
    BY <1>2, <2>2, <2>4 DEF CompletionInv, RowInv
  <2>7. RowInv'
    BY <1>2, <2>2, <2>6 DEF CompletionInv, RowInv
  <2>8. Final /\ Calm
    BY <1>3, <2>1, <2>6 DEF Final, Calm
  <2>9. HandlerInv'
    <3>1. Good(q, rows', chosen', dropped')
      BY <1>1, <2>2, <2>3, <2>6 DEF Good
    <3>2. QED BY <2>5, <2>8, <3>1, HandlerMoves DEF CompletionInv
  <2>10. AckInv'
    BY <1>3, <2>8, AckSame DEF CompletionInv
  <2>11. LostInv'
    <3> SUFFICES ASSUME NEW j \in Assigned, rows'[j].status = "closed", ~dropped'
        PROVE  \/ notified'[j] > 0
               \/ chosen' = [id |-> j, result |-> rows'[j].result]
               \/ \E u \in Comments : Notifies(u, j)'
      BY DEF LostInv
    <3>1. CASE j = i
      <4>1. chosen = c
        BY <1>1, <1>3, <2>1 DEF Good
      <4>2. QED BY <1>2, <1>3, <2>2, <2>6, <3>1, <4>1
    <3>2. CASE j # i
      <4>1. \/ notified[j] > 0
            \/ chosen = [id |-> j, result |-> rows[j].result]
            \/ \E u \in Comments : Notifies(u, j)
        BY <1>3, <2>6, <3>2 DEF CompletionInv, LostInv
      <4>2. \A u \in Comments : Notifies(u, j) => Notifies(u, j)'
        BY <1>1, <2>5 DEF Notifies, CompletionInv, HandlerInv
      <4>3. QED BY <1>3, <2>6, <3>2, <4>1, <4>2
    <3>3. QED BY <3>1, <3>2
  <2>12. QED BY <1>3, <1>4, <2>7, <2>9, <2>10, <2>11 DEF CompletionInv, ChosenInv, NotifiedInv
<1>7. QED BY <1>5, <1>6

(* The acknowledgement says what the table holds.                          *)
LEMMA AcknowledgeStep ==
  ASSUME CompletionInv, NEW t \in Comments, Acknowledge(t)
  PROVE  CompletionInv'
<1> DEFINE c == handler[t].context
           i == c.id
           x == [result |-> c.result, comment |-> handler[t].comment]
           q == [handler[t] EXCEPT !.phase = "clear"]
<1>1. /\ handler[t] \in HandlerStates /\ Good(handler[t], rows, chosen, dropped)
      /\ handler[t].phase = "ack"
  BY DEF CompletionInv, HandlerInv, Acknowledge
<1>2. /\ c \in CompletionData /\ i \in Assigned /\ c.result \in Results
      /\ handler[t].comment \in Comments /\ rows[i].status = "closed"
      /\ rows[i].result = c.result /\ rows[i].comment = handler[t].comment
  BY <1>1, ChoiceFacts DEF Good
<1>3. /\ q \in HandlerStates /\ q.phase = "clear" /\ q.context = c
      /\ q.comment = handler[t].comment
  BY <1>1 DEF HandlerStates
<1>4. /\ acked' = [acked EXCEPT ![i] = @ \cup {x}]
      /\ chosen' = chosen /\ dropped' = dropped
      /\ handler' = [handler EXCEPT ![t] = q]
      /\ rows' = rows /\ notified' = notified
      /\ errors' = errors /\ moves' = moves /\ sent' = sent
  BY DEF Acknowledge, Become
<1>5. x \in Notices /\ x.result = c.result /\ x.comment = handler[t].comment
  BY <1>2 DEF Notices
<1> HIDE DEF q, x
<1>6. Final /\ Calm
  BY <1>4 DEF Final, Calm
<1>7. HandlerInv'
  <2>1. Good(q, rows', chosen', dropped')
    BY <1>1, <1>2, <1>3, <1>4 DEF Good
  <2>2. QED BY <1>4, <1>6, <2>1, HandlerMoves DEF CompletionInv
<1>8. AckInv'
  <2>1. acked' \in [Assigned -> SUBSET Notices]
    <3>1. acked[i] \cup {x} \in SUBSET Notices
      BY <1>2, <1>5 DEF CompletionInv, AckInv
    <3>2. QED BY <1>4, <3>1 DEF CompletionInv, AckInv
  <2>2. ASSUME NEW j \in Assigned, NEW y \in acked'[j]
        PROVE  rows[j].status = "closed" /\ rows[j].result = y.result
               /\ rows[j].comment = y.comment
    <3>1. y \in acked[j] \/ (j = i /\ y = x)
      BY <1>2, <1>4 DEF CompletionInv, AckInv
    <3>2. QED BY <1>2, <1>5, <3>1 DEF CompletionInv, AckInv, AckIsStored
  <2>3. QED BY <1>4, <2>1, <2>2 DEF AckInv, AckIsStored
<1>9. LostInv'
  <2>1. \A u \in Comments : handler[u].phase = "notify" => handler'[u] = handler[u]
    BY <1>1, <1>4 DEF CompletionInv, HandlerInv
  <2>2. QED BY <1>4, <2>1, LostSame DEF CompletionInv
<1>10. QED BY <1>4, <1>7, <1>8, <1>9
           DEF CompletionInv, RowInv, ChosenInv, NotifiedInv, CountInv

(* A handler clears the FSM state, and goes on to notify about its own     *)
(* request.                                                                *)
LEMMA ClearChosenStep ==
  ASSUME CompletionInv, NEW t \in Comments, ClearChosen(t)
  PROVE  CompletionInv'
<1> DEFINE c == handler[t].context
           i == c.id
           q == [handler[t] EXCEPT !.phase = "notify"]
<1>1. /\ handler[t] \in HandlerStates /\ Good(handler[t], rows, chosen, dropped)
      /\ handler[t].phase = "clear"
  BY DEF CompletionInv, HandlerInv, ClearChosen
<1>2. /\ c \in CompletionData /\ i \in Assigned
      /\ handler[t].comment \in Comments /\ rows[i].status = "closed"
      /\ rows[i].result = c.result /\ rows[i].comment = handler[t].comment
  BY <1>1, ChoiceFacts DEF Good
<1>3. /\ q \in HandlerStates /\ q.phase = "notify" /\ q.context = c
      /\ q.comment = handler[t].comment
  BY <1>1 DEF HandlerStates
<1>4. /\ chosen' = Nothing /\ dropped' = (dropped \/ (chosen # Nothing /\ chosen.id # i))
      /\ handler' = [handler EXCEPT ![t] = q]
      /\ rows' = rows /\ notified' = notified /\ acked' = acked
      /\ errors' = errors /\ moves' = moves /\ sent' = sent
  BY DEF ClearChosen, Become
<1> HIDE DEF q
<1>6. dropped' \in BOOLEAN /\ (dropped => dropped')
      /\ (dropped' \/ chosen = Nothing \/ chosen.id = i)
  BY <1>4 DEF CompletionInv, ChosenInv
<1>7. Final /\ Calm
  BY <1>2, <1>4, <1>6 DEF Final, Calm
<1>8. HandlerInv'
  <2>1. Good(q, rows', chosen', dropped')
    BY <1>1, <1>2, <1>3, <1>4 DEF Good
  <2>2. QED BY <1>4, <1>7, <2>1, HandlerMoves DEF CompletionInv
<1>9. AckInv'
  BY <1>4, <1>7, AckSame DEF CompletionInv
<1>10. LostInv'
  <2> SUFFICES ASSUME NEW j \in Assigned, rows[j].status = "closed", ~dropped'
      PROVE  notified[j] > 0 \/ \E u \in Comments : Notifies(u, j)'
    BY <1>4 DEF LostInv
  <2>1. \A u \in Comments : handler'[u] = IF u = t THEN q ELSE handler[u]
    BY <1>4 DEF CompletionInv, HandlerInv
  <2>2. \A u \in Comments : Notifies(u, j) => Notifies(u, j)'
    BY <1>1, <1>3, <2>1 DEF Notifies
  <2>3. CASE j = i
    BY <1>3, <2>1, <2>3 DEF Notifies
  <2>4. CASE j # i
    <3>1. chosen # [id |-> j, result |-> rows[j].result]
      <4>1. ASSUME chosen = [id |-> j, result |-> rows[j].result] PROVE FALSE
        <5>1. chosen \in CompletionData
          BY <4>1 DEF CompletionInv, RowInv, CompletionData
        <5>2. chosen # Nothing /\ chosen.id = j
          BY <4>1, <5>1, ChoiceFacts
        <5>3. QED BY <1>6, <2>4, <5>2
      <4>2. QED BY <4>1
    <3>2. QED BY <1>6, <2>2, <3>1 DEF CompletionInv, LostInv
  <2>5. QED BY <2>3, <2>4
<1>11. QED BY <1>4, <1>6, <1>8, <1>9, <1>10
           DEF CompletionInv, RowInv, ChosenInv, NotifiedInv, CountInv

LEMMA NotifyStep ==
  ASSUME CompletionInv, NEW t \in Comments, Notify(t)
  PROVE  CompletionInv'
<1> DEFINE i == handler[t].context.id
<1>1. handler[t].phase = "notify" /\ i \in Assigned /\ notified[i] \in Nat
  BY ChoiceFacts DEF Notify, CompletionInv, HandlerInv, Good, NotifiedInv
<1>2. /\ notified' = [notified EXCEPT ![i] = notified[i] + 1]
      /\ handler' = [handler EXCEPT ![t] = Idle]
      /\ rows' = rows /\ chosen' = chosen /\ dropped' = dropped /\ acked' = acked
      /\ errors' = errors /\ moves' = moves /\ sent' = sent
  BY DEF Notify, Finish
<1>3. Final /\ Calm
  BY <1>2 DEF Final, Calm
<1>4. HandlerInv'
  BY <1>2, <1>3, IdleGood, HandlerMoves DEF CompletionInv
<1>5. AckInv'
  BY <1>2, <1>3, AckSame DEF CompletionInv
<1>6. NotifiedInv'
  BY <1>1, <1>2 DEF CompletionInv, NotifiedInv
<1>7. notified'[i] > 0 /\ \A j \in Assigned : j # i => notified'[j] = notified[j]
  BY <1>1, <1>2 DEF CompletionInv, NotifiedInv
<1>8. LostInv'
  <2> SUFFICES ASSUME NEW j \in Assigned, rows[j].status = "closed", ~dropped
      PROVE  \/ notified'[j] > 0
             \/ chosen = [id |-> j, result |-> rows[j].result]
             \/ \E u \in Comments : Notifies(u, j)'
    BY <1>2 DEF LostInv
  <2>1. \A u \in Comments : u # t => handler'[u] = handler[u]
    BY <1>2 DEF CompletionInv, HandlerInv
  <2>2. \A u \in Comments : u # t /\ Notifies(u, j) => Notifies(u, j)'
    BY <2>1 DEF Notifies
  <2>3. Notifies(t, j) => j = i
    BY DEF Notifies
  <2>4. QED BY <1>7, <2>2, <2>3 DEF CompletionInv, LostInv
<1>9. QED BY <1>2, <1>4, <1>5, <1>6, <1>8 DEF CompletionInv, RowInv, ChosenInv, CountInv

LEMMA RaiseStep ==
  ASSUME CompletionInv, NEW t \in Comments, Raise(t)
  PROVE  CompletionInv'
<1>1. /\ handler' = [handler EXCEPT ![t] = Idle]
      /\ dropped' = (dropped \/ handler[t].phase = "notify")
      /\ rows' = rows /\ chosen' = chosen /\ acked' = acked /\ notified' = notified
      /\ errors < MaxErrors /\ errors' = errors + 1
      /\ moves' = moves /\ sent' = sent
  BY DEF Raise, Finish
<1>2. dropped' \in BOOLEAN /\ (dropped => dropped')
      /\ (dropped' \/ handler[t].phase # "notify")
  BY <1>1 DEF CompletionInv, ChosenInv
<1>3. Final /\ Calm
  BY <1>1, <1>2 DEF Final, Calm
<1>4. HandlerInv'
  BY <1>1, <1>3, IdleGood, HandlerMoves DEF CompletionInv
<1>5. AckInv'
  BY <1>1, <1>3, AckSame DEF CompletionInv
<1>6. dropped' \/ \A u \in Comments : handler[u].phase = "notify" => handler'[u] = handler[u]
  BY <1>1, <1>2 DEF CompletionInv, HandlerInv
<1>7. LostInv'
  BY <1>1, <1>2, <1>6, LostSame DEF CompletionInv
<1>8. CountInv'
  BY <1>1, CompletionAssumption DEF CompletionInv, CountInv
<1>9. QED BY <1>1, <1>2, <1>4, <1>5, <1>7, <1>8 DEF CompletionInv, RowInv, ChosenInv, NotifiedInv

LEMMA RestartStep ==
  ASSUME CompletionInv, RestartBot
  PROVE  CompletionInv'
<1>1. /\ handler' = [t \in Comments |-> Idle]
      /\ chosen' \in {Nothing, chosen}
      /\ dropped' = (dropped \/ chosen' # chosen \/ \E t \in Comments : handler[t].phase = "notify")
      /\ rows' = rows /\ acked' = acked /\ notified' = notified
      /\ errors < MaxErrors /\ errors' = errors + 1
      /\ moves' = moves /\ sent' = sent
  BY DEF RestartBot
<1>2. dropped' \in BOOLEAN /\ (dropped => dropped')
      /\ (dropped' \/ chosen' = chosen)
      /\ (dropped' \/ \A u \in Comments : handler[u].phase # "notify")
  BY <1>1 DEF CompletionInv, ChosenInv
<1>3. Final /\ Calm
  BY <1>1, <1>2 DEF Final, Calm
<1>4. HandlerInv'
  <2>1. Good(Idle, rows', chosen', dropped') /\ Idle \in HandlerStates
    BY IdleGood DEF Good
  <2>2. handler' \in [Comments -> HandlerStates] /\ \A u \in Comments : handler'[u] = Idle
    BY <1>1, <2>1
  <2>3. QED BY <2>1, <2>2 DEF HandlerInv
<1>5. AckInv'
  BY <1>1, <1>3, AckSame DEF CompletionInv
<1>6. LostInv'
  <2>1. dropped' \/ \A u \in Comments : handler[u].phase = "notify" => handler'[u] = handler[u]
    BY <1>2
  <2>2. dropped' \/ chosen' = chosen \/ chosen = Nothing
    BY <1>2
  <2>3. QED BY <1>1, <1>2, <2>1, <2>2, LostSame DEF CompletionInv
<1>7. CountInv'
  BY <1>1, CompletionAssumption DEF CompletionInv, CountInv
<1>8. ChosenInv'
  BY <1>1, <1>2 DEF CompletionInv, ChosenInv
<1>9. QED BY <1>1, <1>4, <1>5, <1>6, <1>7, <1>8 DEF CompletionInv, RowInv, NotifiedInv

LEMMA ReassignStep ==
  ASSUME CompletionInv, NEW i \in Assigned, Reassign(i)
  PROVE  CompletionInv'
<1> DEFINE row == [rows[i] EXCEPT !.mine = ~rows[i].mine]
<1>1. /\ rows[i].status = "accepted" /\ rows' = [rows EXCEPT ![i] = row]
      /\ moves < MaxMoves /\ moves' = moves + 1
      /\ chosen' = chosen /\ handler' = handler /\ acked' = acked /\ notified' = notified
      /\ dropped' = dropped /\ errors' = errors /\ sent' = sent
  BY DEF Reassign
<1>2. row \in Rows /\ row.status = "accepted"
  BY <1>1 DEF CompletionInv, RowInv, Rows
<1> HIDE DEF row
<1>3. /\ rows' \in [Assigned -> Rows] /\ rows'[i].status = "accepted"
      /\ \A j \in Assigned : j # i => rows'[j] = rows[j]
  BY <1>1, <1>2 DEF CompletionInv, RowInv
<1>4. RowInv'
  BY <1>3 DEF CompletionInv, RowInv
<1>5. Final /\ Calm
  BY <1>1, <1>3 DEF Final, Calm
<1>6. HandlerInv'
  BY <1>1, <1>5, HandlersSame DEF CompletionInv
<1>7. AckInv'
  BY <1>1, <1>5, AckSame DEF CompletionInv
<1>8. LostInv'
  <2>1. \A j \in Assigned : rows'[j].status = "closed" => rows'[j] = rows[j]
    BY <1>3
  <2>2. QED BY <1>1, <2>1 DEF CompletionInv, LostInv, Notifies
<1>9. CountInv'
  BY <1>1, CompletionAssumption DEF CompletionInv, CountInv
<1>10. QED BY <1>1, <1>4, <1>6, <1>7, <1>8, <1>9 DEF CompletionInv, ChosenInv, NotifiedInv

(* Every step keeps the invariant.                                         *)
LEMMA CompletionStep == CompletionInv /\ [CompletionNext]_completionVars => CompletionInv'
<1> SUFFICES ASSUME CompletionInv, [CompletionNext]_completionVars PROVE CompletionInv'
  OBVIOUS
<1>1. CASE UNCHANGED completionVars
  <2>1. Final /\ Calm
    BY <1>1 DEF Final, Calm, completionVars
  <2>2. HandlerInv'
    BY <1>1, <2>1, HandlersSame DEF CompletionInv, completionVars
  <2>3. QED BY <1>1, <2>2 DEF CompletionInv, RowInv, ChosenInv, AckInv, AckIsStored, NotifiedInv,
               CountInv, LostInv, Notifies, completionVars
<1>2. CASE \E i \in Assigned : Reassign(i) \/ \E r \in Results : Choose(i, r)
  BY <1>2, ReassignStep, ChooseStep
<1>3. ASSUME NEW t \in Comments, ReceiveComment(t) \/ Handle(t) \/ AckFails(t) \/ Raise(t)
      PROVE  CompletionInv'
  BY <1>3, ReceiveCommentStep, LookStep, UnavailableStep, CloseStep, AcknowledgeStep,
     ClearChosenStep, NotifyStep, AckFailsStep, RaiseStep DEF Handle
<1>4. CASE CancelChoice \/ RestartBot
  BY <1>4, CancelStep, RestartStep
<1>5. QED BY <1>1, <1>2, <1>3, <1>4 DEF CompletionNext

-----------------------------------------------------------------------------
(* The theorems.                                                           *)

(* Every variable stays in its type, and no acknowledgement is tried more  *)
(* than COMPLETION_ACK_ATTEMPTS times.                                     *)
THEOREM CompletionTypeCorrect == CompletionSpec => []CompletionTypeOK
<1>1. CompletionInv => CompletionTypeOK
  BY DEF CompletionInv, RowInv, ChosenInv, HandlerInv, AckInv, NotifiedInv, CountInv,
     CompletionTypeOK
<1>2. QED BY CompletionHolds, CompletionStep, <1>1, PTL DEF CompletionSpec

(* What the worker is told about a request is what the table holds,        *)
(* however many of his comments race and replay.                           *)
THEOREM AckCorrect == CompletionSpec => []AckIsStored
<1>1. CompletionInv => AckIsStored
  BY DEF CompletionInv, AckInv
<1>2. QED BY CompletionHolds, CompletionStep, <1>1, PTL DEF CompletionSpec

(* A completed request nobody works on was told to the resident, or the    *)
(* worker's next comment replays it, unless the FSM state was lost.        *)
THEOREM NotLostCorrect == CompletionSpec => []NotLost
<1>1. CompletionInv => NotLost
  BY DEF CompletionInv, LostInv, NotLost, Notifies, WorksOn
<1>2. QED BY CompletionHolds, CompletionStep, <1>1, PTL DEF CompletionSpec

(* No step changes the result, the comment or the worker of a completed    *)
(* request.                                                                *)
THEOREM FinalCorrect == CompletionSpec => CompletionFinal
<1>1. CompletionInv /\ [CompletionNext]_completionVars => [Final]_completionVars
  <2> SUFFICES ASSUME CompletionInv, CompletionNext PROVE Final
    OBVIOUS
  <2>1. ASSUME NEW i \in Assigned, Reassign(i) PROVE Final
    BY <2>1 DEF Reassign, Final, CompletionInv, RowInv
  <2>2. ASSUME NEW t \in Comments, Close(t) PROVE Final
    <3>1. CASE ~Open(t)
      BY <2>2, <3>1 DEF Close, Final
    <3>2. CASE Open(t)
      BY <2>2, <3>2 DEF Close, Open, Final, CompletionInv, RowInv
    <3>3. QED BY <3>1, <3>2
  <2>3. CASE rows' = rows
    BY <2>3 DEF Final
  <2>4. QED
    BY <2>1, <2>2, <2>3 DEF CompletionNext, Handle, Choose, CancelChoice, ReceiveComment, Replay,
       Unavailable, Ask, Refuse, Improve, Acknowledge, ClearChosen, AckFails, Notify, Raise,
       RestartBot
<1>2. QED BY CompletionHolds, CompletionStep, <1>1, PTL DEF CompletionSpec, CompletionFinal, Final
===============================================================================
