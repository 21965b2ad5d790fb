------------------------------ MODULE Completion ------------------------------
(***************************************************************************)
(* How one worker completes his requests, bot/handlers/worker.py.          *)
(*                                                                         *)
(* He picks a result under an accepted request, which stores the request   *)
(* and the result in his FSM state, and sends a comment.  The handler of   *)
(* the comment has the LLM review it, closes the request in one UPDATE and *)
(* commits, acknowledges with up to three attempts, clears the FSM state   *)
(* and only then tells the resident and the dispatchers.  If the           *)
(* acknowledgement fails, or the handler is cut off before it has cleared  *)
(* the FSM state, that state stays, and the next comment finds the request *)
(* closed and replays what is missing.                                     *)
(*                                                                         *)
(* aiogram handles every message in a task of its own and the dispatcher   *)
(* is created without events_isolation: comments sent in quick succession  *)
(* are handled concurrently, and share the FSM state.                      *)
(*                                                                         *)
(* No name of this module is one of module StaffForms, so that             *)
(* DialogueProofs can extend both.                                         *)
(***************************************************************************)
EXTENDS Naturals, FiniteSets

CONSTANTS
  Assigned,     \* requests assigned to the worker
  Comments,     \* comments that can be in flight; also stands for their text
  Attempts,     \* COMPLETION_ACK_ATTEMPTS
  MaxErrors,    \* bound: network errors, exceptions, restarts
  MaxMoves,     \* bound: reassignments
  MaxSent,      \* bound: comments handled to the end
  Nothing       \* no FSM state; SQL NULL

Results == {"done", "not_done"}
CompletionData == [id : Assigned, result : Results]   \* data of waiting_comment

Rows == [status  : {"accepted", "closed"},
         mine    : BOOLEAN,                \* worker_id is this worker
         result  : Results \cup {Nothing},
         comment : Comments \cup {Nothing}]

(* Where the handler of a comment stands, and what it holds.               *)
HandlerStates ==
  [phase   : {"free", "look", "review", "write", "ack", "clear", "notify"},
   context : CompletionData \cup {Nothing},
   comment : Comments \cup {Nothing},     \* what it will acknowledge
   tries   : 0..(Attempts - 1)]

ASSUME CompletionAssumption ==
  /\ Attempts \in Nat \ {0}
  /\ MaxErrors \in Nat /\ MaxMoves \in Nat /\ MaxSent \in Nat
  /\ Nothing \notin CompletionData \cup Comments

VARIABLES
  rows,      \* the requests
  chosen,    \* the worker's FSM state: the request and result he chose
  handler,   \* the handlers of his comments
  acked,     \* acked[i]: what he was told about request i
  notified,  \* notified[i]: how often the resident was told
  dropped,   \* an FSM state, or a handler past state.clear(), was lost
  errors, moves, sent   \* counters for the bounds

completionVars ==
  <<rows, chosen, handler, acked, notified, dropped, errors, moves, sent>>

Idle == [phase |-> "free", context |-> Nothing, comment |-> Nothing, tries |-> 0]

(* A message about a completed request: its number of copies.              *)
Notices == [result : Results, comment : Comments]

CompletionInit ==
  /\ rows = [i \in Assigned |-> [status |-> "accepted", mine |-> TRUE,
                                 result |-> Nothing, comment |-> Nothing]]
  /\ chosen = Nothing
  /\ handler = [t \in Comments |-> Idle]
  /\ acked = [i \in Assigned |-> {}]
  /\ notified = [i \in Assigned |-> 0]
  /\ dropped = FALSE
  /\ errors = 0 /\ moves = 0 /\ sent = 0

-----------------------------------------------------------------------------
(* choose_completion_result.  A second choice replaces the first.          *)
Choose(i, result) ==
  /\ rows[i].status = "accepted" /\ rows[i].mine
  /\ sent < MaxSent
  /\ chosen' = [id |-> i, result |-> result]
  /\ dropped' = (dropped \/ chosen \notin {Nothing, chosen'})
  /\ UNCHANGED <<rows, handler, acked, notified, errors, moves, sent>>

(* The worker presses cancel: cancel_fsm_cb, cancel_fsm_text.              *)
CancelChoice ==
  /\ chosen # Nothing
  /\ chosen' = Nothing
  /\ dropped' = TRUE
  /\ UNCHANGED <<rows, handler, acked, notified, errors, moves, sent>>

(* handle_completion_comment starts: the state filter matched, get_data.   *)
ReceiveComment(t) ==
  /\ handler[t].phase = "free"
  /\ chosen # Nothing
  /\ sent < MaxSent
  /\ sent' = sent + 1
  /\ handler' = [handler EXCEPT
                   ![t] = [Idle EXCEPT !.phase = "look", !.context = chosen]]
  /\ UNCHANGED <<rows, chosen, acked, notified, dropped, errors, moves>>

Become(t, phase) == handler' = [handler EXCEPT ![t].phase = phase]
Finish(t) == handler' = [handler EXCEPT ![t] = Idle]

(* The request as the handler reads it: completed before with this result, *)
(* unavailable, or ready for the review of the comment.                    *)
Completed(t) ==
  LET c == handler[t].context  r == rows[c.id] IN
  r.status = "closed" /\ r.mine /\ r.result = c.result

Open(t) ==
  LET r == rows[handler[t].context.id] IN r.status = "accepted" /\ r.mine

(* A faulty replay that acknowledges the new comment, not the stored one.  *)
ReplayNewComment(t) ==
  /\ handler[t].phase = "look" /\ Completed(t)
  /\ handler' = [handler EXCEPT ![t].phase = "ack", ![t].comment = t]
  /\ UNCHANGED <<rows, chosen, acked, notified, dropped, errors, moves, sent>>

Replay(t) ==
  /\ handler[t].phase = "look" /\ Completed(t)
  /\ handler' = [handler EXCEPT ![t].phase = "ack",
                                ![t].comment = rows[handler[t].context.id].comment]
  /\ UNCHANGED <<rows, chosen, acked, notified, dropped, errors, moves, sent>>

(* state.clear(), whatever request the state is about by now.              *)
Unavailable(t) ==
  /\ handler[t].phase = "look" /\ ~Completed(t) /\ ~Open(t)
  /\ chosen' = Nothing
  /\ dropped' = (dropped \/ chosen # Nothing)
  /\ Finish(t)
  /\ UNCHANGED <<rows, acked, notified, errors, moves, sent>>

Ask(t) ==
  /\ handler[t].phase = "look" /\ Open(t)
  /\ Become(t, "review")
  /\ UNCHANGED <<rows, chosen, acked, notified, dropped, errors, moves, sent>>

(* The LLM is off, fails or wants a better comment: nothing changes.       *)
Refuse(t) ==
  /\ handler[t].phase = "review"
  /\ Finish(t)
  /\ UNCHANGED <<rows, chosen, acked, notified, dropped, errors, moves, sent>>

Improve(t) ==
  /\ handler[t].phase = "review"
  /\ Become(t, "write")
  /\ UNCHANGED <<rows, chosen, acked, notified, dropped, errors, moves, sent>>

(* Faulty completions: one whose WHERE clause is the id alone, and one that*)
(* clears the FSM state before the acknowledgement.                        *)
CloseById(t) ==
  LET i == handler[t].context.id IN
  /\ handler[t].phase = "write"
  /\ rows' = [rows EXCEPT ![i].status = "closed",
                          ![i].result = handler[t].context.result,
                          ![i].comment = t]
  /\ handler' = [handler EXCEPT ![t].phase = "ack", ![t].comment = t]
  /\ UNCHANGED <<chosen, acked, notified, dropped, errors, moves, sent>>

CloseAndClear(t) ==
  LET i == handler[t].context.id IN
  /\ handler[t].phase = "write"
  /\ IF Open(t)
     THEN /\ rows' = [rows EXCEPT ![i].status = "closed",
                                  ![i].result = handler[t].context.result,
                                  ![i].comment = t]
          /\ handler' = [handler EXCEPT ![t].phase = "ack", ![t].comment = t]
          /\ chosen' = Nothing
     ELSE Finish(t) /\ UNCHANGED <<rows, chosen>>
  /\ UNCHANGED <<acked, notified, dropped, errors, moves, sent>>

(* close_request: the session still shows the request as it was read, the  *)
(* WHERE clause of the UPDATE sees it as it is; then the commit.           *)
Close(t) ==
  LET i == handler[t].context.id IN
  /\ handler[t].phase = "write"
  /\ IF Open(t)
     THEN /\ rows' = [rows EXCEPT ![i].status = "closed",
                                  ![i].result = handler[t].context.result,
                                  ![i].comment = t]
          /\ handler' = [handler EXCEPT ![t].phase = "ack", ![t].comment = t]
     ELSE Finish(t) /\ UNCHANGED rows
  /\ UNCHANGED <<chosen, acked, notified, dropped, errors, moves, sent>>

(* _acknowledge_completion: message.answer is delivered, ...               *)
Acknowledge(t) ==
  LET c == handler[t].context IN
  /\ handler[t].phase = "ack"
  /\ acked' = [acked EXCEPT ![c.id] =
                 @ \cup {[result |-> c.result, comment |-> handler[t].comment]}]
  /\ Become(t, "clear")
  /\ UNCHANGED <<rows, chosen, notified, dropped, errors, moves, sent>>

(* A faulty handler that ends here.                                        *)
ClearAndEnd(t) ==
  /\ handler[t].phase = "clear"
  /\ chosen' = Nothing
  /\ Finish(t)
  /\ UNCHANGED <<rows, acked, notified, dropped, errors, moves, sent>>

(* ... then state.clear() clears whatever the state is about by now.       *)
ClearChosen(t) ==
  /\ handler[t].phase = "clear"
  /\ chosen' = Nothing
  /\ dropped' = (dropped \/ (chosen # Nothing /\ chosen.id # handler[t].context.id))
  /\ Become(t, "notify")
  /\ UNCHANGED <<rows, acked, notified, errors, moves, sent>>

(* _answer_with_network_retry: an attempt fails; the last one raises.      *)
AckFails(t) ==
  /\ handler[t].phase = "ack"
  /\ errors < MaxErrors
  /\ errors' = errors + 1
  /\ IF handler[t].tries + 1 < Attempts
     THEN handler' = [handler EXCEPT ![t].tries = @ + 1]
     ELSE Finish(t)
  /\ UNCHANGED <<rows, chosen, acked, notified, dropped, moves, sent>>

(* _notify_completion: the resident and the dispatchers.                   *)
Notify(t) ==
  /\ handler[t].phase = "notify"
  /\ notified' = [notified EXCEPT ![handler[t].context.id] = @ + 1]
  /\ Finish(t)
  /\ UNCHANGED <<rows, chosen, acked, dropped, errors, moves, sent>>

(* The handler raises.  Past state.clear() nothing is left to replay.      *)
Raise(t) ==
  /\ handler[t].phase # "free"
  /\ errors < MaxErrors
  /\ errors' = errors + 1
  /\ dropped' = (dropped \/ handler[t].phase = "notify")
  /\ Finish(t)
  /\ UNCHANGED <<rows, chosen, acked, notified, moves, sent>>

(* The process restarts; with MemoryStorage the FSM state goes too.        *)
RestartBot ==
  /\ errors < MaxErrors
  /\ errors' = errors + 1
  /\ handler' = [t \in Comments |-> Idle]
  /\ chosen' \in {Nothing, chosen}
  /\ dropped' = (\/ dropped \/ chosen' # chosen
                 \/ \E t \in Comments : handler[t].phase = "notify")
  /\ UNCHANGED <<rows, acked, notified, moves, sent>>

(* assign_request: the request goes to another worker, or comes back.      *)
Reassign(i) ==
  /\ rows[i].status = "accepted"
  /\ moves < MaxMoves
  /\ moves' = moves + 1
  /\ rows' = [rows EXCEPT ![i].mine = ~@]
  /\ UNCHANGED <<chosen, handler, acked, notified, dropped, errors, sent>>

-----------------------------------------------------------------------------
Handle(t) ==
  \/ Replay(t) \/ Unavailable(t) \/ Ask(t) \/ Refuse(t) \/ Improve(t)
  \/ Close(t) \/ Acknowledge(t) \/ ClearChosen(t) \/ Notify(t)

CompletionNext ==
  \/ \E i \in Assigned : Reassign(i) \/ \E r \in Results : Choose(i, r)
  \/ \E t \in Comments : ReceiveComment(t) \/ Handle(t) \/ AckFails(t) \/ Raise(t)
  \/ CancelChoice
  \/ RestartBot

(* A handler that started goes on: the event loop runs it, the LLM call    *)
(* has a timeout.  The worker need not do anything.                        *)
Fairness == \A t \in Comments : WF_completionVars(Handle(t))

CompletionSpec == CompletionInit /\ [][CompletionNext]_completionVars
FairSpec == CompletionSpec /\ Fairness

-----------------------------------------------------------------------------
(* Every variable stays in its type, and no acknowledgement is             *)
(* tried more than COMPLETION_ACK_ATTEMPTS times.                          *)
CompletionTypeOK ==
  /\ rows \in [Assigned -> Rows]
  /\ chosen \in CompletionData \cup {Nothing}
  /\ handler \in [Comments -> HandlerStates]
  /\ acked \in [Assigned -> SUBSET Notices]
  /\ notified \in [Assigned -> Nat]
  /\ dropped \in BOOLEAN
  /\ errors \in 0..MaxErrors /\ moves \in 0..MaxMoves /\ sent \in 0..MaxSent

(* AckIsStored: what the worker is told about a request is what the table  *)
(* holds, however many of his comments raced.                              *)
AckIsStored ==
  \A i \in Assigned : \A x \in acked[i] :
    rows[i].status = "closed" /\ rows[i].result = x.result /\ rows[i].comment = x.comment

(* CompletionFinal: no step changes the result, the comment or the worker  *)
(* of a completed request.                                                 *)
CompletionFinal ==
  [][\A i \in Assigned :
       rows[i].status = "closed" => rows'[i] = rows[i]]_completionVars

WorksOn(t, i) == handler[t].phase # "free" /\ handler[t].context.id = i

(* NotLost: a completed request that nobody is working on was told to the  *)
(* resident, or the worker's next comment will replay it.  Lost only if    *)
(* the worker cancelled or chose anew, the process restarted without its   *)
(* FSM state or died after state.clear(), or a handler cleared the state of*)
(* another request, or of one that was reassigned and came back.           *)
NotLost ==
  \A i \in Assigned :
    rows[i].status = "closed" /\ ~dropped /\ (\A t \in Comments : ~WorksOn(t, i))
      => notified[i] > 0 \/ chosen = [id |-> i, result |-> rows[i].result]

(* The completion of i is stored, nobody works on it, and the worker's next*)
(* comment will replay it.                                                 *)
AwaitsReplay(i) ==
  /\ rows[i].status = "closed" /\ chosen = [id |-> i, result |-> rows[i].result]
  /\ \A t \in Comments : ~WorksOn(t, i)

(* AnswerEnds: every comment is handled to its end, however often a send   *)
(* fails; and a completion the worker was told of reaches the resident, or *)
(* awaits the worker's next comment because its handler was cut off before *)
(* state.clear(), or its FSM state was lost (dropped, see NotLost).        *)
AnswerEnds ==
  /\ \A t \in Comments : handler[t].phase # "free" ~> handler[t].phase = "free"
  /\ \A i \in Assigned :
       acked[i] # {} ~> (notified[i] > 0 \/ AwaitsReplay(i) \/ dropped)

(* ToldOnce: a replay never notifies twice ("without invoking the LLM or   *)
(* closing/notifying twice").  It does not hold: a second comment replays  *)
(* while the first one's handler still has to notify.                      *)
ToldOnce == \A i \in Assigned : notified[i] <= 1

=============================================================================
