----------------------------- MODULE RequestSpec -----------------------------
(***************************************************************************)
(* What the request table promises, whatever handlers race: a request is a *)
(* ticket that moves along a fixed path, one committed step at a time.     *)
(*                                                                         *)
(*     review --> queued --> held --> done                                 *)
(*        |         ^         |^                                           *)
(*        v         |         +/   (handed to another worker)              *)
(*     refused   waiting                                                   *)
(*                                                                         *)
(* It reaches a worker from the queue only, so never before its review and *)
(* never before its release; nothing leaves done or refused; it may be     *)
(* withdrawn at any time, and a withdrawn ticket never comes back.  A held *)
(* or completed ticket may lose its holder, and a held one be handed on or *)
(* completed after that.                                                   *)
(***************************************************************************)
CONSTANTS
  Ids,      \* tickets
  Holders,  \* who may hold one
  Nobody    \* not a holder

VARIABLE tickets

Init == tickets = [i \in Ids |-> [stage |-> "unused", holder |-> Nobody]]

Move(i, from, to) ==
  /\ tickets[i].stage = from
  /\ tickets' = [tickets EXCEPT ![i].stage = to]

Open(i) == \E s \in {"review", "waiting", "queued"} : Move(i, "unused", s)

Approve(i) == Move(i, "review", "queued")

Refuse(i) == Move(i, "review", "refused")

Release(i) == Move(i, "waiting", "queued")

(* Somebody takes a queued ticket, or a held one changes hands.            *)
Hand(i, h) ==
  /\ tickets[i].stage \in {"queued", "held"}
  /\ tickets' = [tickets EXCEPT ![i] = [stage |-> "held", holder |-> h]]

(* The holder stays on record.                                             *)
Complete(i) == Move(i, "held", "done")

Withdraw(i) ==
  /\ tickets[i].stage # "unused"
  /\ tickets' = [tickets EXCEPT ![i] = [stage |-> "withdrawn", holder |-> Nobody]]

(* A holder ceases to exist.                                               *)
Forget(S) ==
  /\ \A i \in S : tickets[i].stage \in {"held", "done"}
  /\ tickets' = [i \in Ids |-> IF i \in S THEN [tickets[i] EXCEPT !.holder = Nobody]
                                         ELSE tickets[i]]

Next ==
  \/ \E i \in Ids :
       \/ Open(i) \/ Approve(i) \/ Refuse(i) \/ Release(i)
       \/ Complete(i) \/ Withdraw(i)
       \/ \E h \in Holders : Hand(i, h)
  \/ \E S \in SUBSET Ids : Forget(S)

Spec == Init /\ [][Next]_tickets

=============================================================================
