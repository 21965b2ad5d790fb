----------------------------- MODULE Participants -----------------------------
(***************************************************************************)
(* Who may use the bot: the table users, the registration form             *)
(* (bot/handlers/common.py), the approvals and rejections of the           *)
(* dispatchers (dispatcher.py), the revocations of the chairman            *)
(* (chairman.py) and the tenants of the owners (resident.py).              *)
(*                                                                         *)
(* Every handler reads a row, decides, assigns attributes to its copy and  *)
(* commits: the ORM then writes the attributes that differ from those it   *)
(* read, and only those, without asking again what it decided upon.        *)
(* Accounts name rows; ids are not used again here.                        *)
(***************************************************************************)
EXTENDS Naturals, FiniteSets

CONSTANTS
  Tasks,         \* handlers that may run at the same time
  Accounts,      \* Telegram accounts
  Owner,         \* one that is an approved owner already
  Applicant,     \* one that waits for him to be approved as his tenant
  Flats,
  MaxDecisions,  \* bound: decisions about accounts
  None

Roles == {"resident", "worker"}
Subroles == {"owner", "tenant"}

Users == [role      : Roles,
          subrole   : Subroles \cup {None},     \* resident_subrole
          apartment : Flats \cup {None},
          name      : BOOLEAN,                  \* full_name is known
          category  : BOOLEAN,                  \* worker_category is known
          approved  : BOOLEAN,
          by        : Accounts \cup {None},     \* approved_by_owner_id
          shift     : BOOLEAN]
NoRow == [role |-> None]

States == {"none", "role", "subrole", "name", "apartment", "category"}

FormKinds == {"role", "subrole", "apartment", "category"}
Approvals == {"approve", "add", "tenant"}
Kinds == FormKinds \cup Approvals \cup {"reject", "revoke", "shift"}

Seen == [who : {"dispatcher", "owner", "stale"}, flat : Flats \cup {None}]
Stale == [who |-> "stale", flat |-> None]

Handlers == [kind : Kinds,
             user : Accounts,                   \* whose row it is about
             copy : Users \cup {NoRow},         \* as it was read
             want : Users,                      \* as it shall be
             seen : Seen,                       \* who decides, for which flat
             lost : BOOLEAN]                    \* that row, or the owner, is deleted
Free == [kind |-> None]

ASSUME ParticipantsAssumption ==
  /\ {Owner, Applicant} \subseteq Accounts /\ MaxDecisions \in Nat
  /\ None \notin Accounts \cup Flats \cup Roles \cup Subroles \cup Kinds

VARIABLES
  users,  \* the table
  fsm,    \* the registration form of an account
  task,   \* handlers between their SELECT and their COMMIT
  seen,   \* who last approved an account, for which flat; Stale if a COMMIT
          \* that left it approved was based on a row that had changed
  made    \* decisions so far

vars == <<users, fsm, task, seen, made>>

NewRow == [role |-> "resident", subrole |-> None, apartment |-> None, name |-> FALSE,
           category |-> FALSE, approved |-> FALSE, by |-> None, shift |-> FALSE]
NoForm == [state |-> "none", role |-> None]

Init ==
  \E f \in Flats :
    /\ users = [a \in Accounts |->
         IF a \in {Owner, Applicant}
         THEN [NewRow EXCEPT !.subrole = IF a = Owner THEN "owner" ELSE "tenant",
                             !.apartment = f, !.name = TRUE, !.approved = a = Owner]
         ELSE NoRow]
    /\ fsm = [a \in Accounts |-> NoForm]
    /\ task = [t \in Tasks |-> Free]
    /\ seen = [a \in Accounts |-> [who |-> "dispatcher", flat |-> f]]
    /\ made = 0

-----------------------------------------------------------------------------
(* Helpers.                                                                *)

Exists(a) == users[a] # NoRow
IsTenant(u) == u.role = "resident" /\ u.subrole = "tenant"
IsApprovedOwner(u) == u.role = "resident" /\ u.subrole = "owner" /\ u.approved

(* Approved tenants of a flat, as the handlers count them; SQLAlchemy      *)
(* turns "apartment == None" into IS NULL.                                 *)
TenantsOf(flat) ==
  {a \in Accounts : Exists(a) /\ IsTenant(users[a]) /\ users[a].approved
                    /\ users[a].apartment = flat}

(* A handler has read the row of a and will commit it as want.             *)
Begin(t, kind, a, want, by) ==
  /\ task[t] = Free
  /\ task' = [task EXCEPT ![t] = [kind |-> kind, user |-> a, copy |-> users[a],
                                  want |-> want, seen |-> by, lost |-> FALSE]]

Dispatcher(a) == [who |-> "dispatcher",
                  flat |-> IF Exists(a) THEN users[a].apartment ELSE None]

-----------------------------------------------------------------------------
(* Registration.  One handler of an account is at work at a time.          *)

Quiet(a) == \A t \in Tasks : task[t] # Free => task[t].kind \notin FormKinds
                                               \/ task[t].user # a
Form(a, state, role) == fsm' = [fsm EXCEPT ![a] = [state |-> state, role |-> role]]
Leave(a) == fsm' = [fsm EXCEPT ![a] = NoForm]

Blank(u) == ~u.approved /\ ~u.name /\ u.apartment = None /\ ~u.category

(* cmd_start, with the choice of a language that may come first.           *)
Start(a) ==
  LET u == IF Exists(a) THEN users[a] ELSE NewRow IN
  /\ Quiet(a)
  /\ users' = [users EXCEPT ![a] = u]
  /\ CASE u.approved -> Leave(a)
       [] Blank(u) -> Form(a, "role", None)
       [] ~u.approved /\ ~Blank(u) /\ u.role = "resident" /\ u.subrole = None ->
            Form(a, "subrole", "resident")
       [] OTHER -> IF u.name THEN Leave(a) ELSE Form(a, "name", u.role)
  /\ UNCHANGED <<task, seen, made>>

(* set_language by somebody who is not in the table (any more) inserts him *)
(* under the name he has in Telegram.                                      *)
SetLanguage(a) ==
  /\ Quiet(a) /\ ~Exists(a)
  /\ users' = [users EXCEPT ![a] = [NewRow EXCEPT !.name = TRUE]]
  /\ Form(a, "subrole", "resident")
  /\ UNCHANGED <<task, seen, made>>

(* cancel_fsm, /language.                                                  *)
Cancel(a) ==
  /\ Quiet(a) /\ Leave(a)
  /\ UNCHANGED <<users, task, seen, made>>

(* What reg_role_choice and the later steps do without a row.              *)
WithoutRow(a) ==
  /\ Quiet(a) /\ ~Exists(a)
  /\ \/ /\ fsm[a].state = "role"
        /\ Form(a, "name", "worker") \/ Form(a, "subrole", "resident")
     \/ fsm[a].state \in {"subrole", "category", "apartment"} /\ Leave(a)
  /\ UNCHANGED <<users, task, seen, made>>

(* reg_role_choice.                                                        *)
RegRole(t, a, role) ==
  /\ Quiet(a) /\ Exists(a) /\ fsm[a].state = "role"
  /\ Begin(t, "role", a, [users[a] EXCEPT !.role = role, !.subrole = None, !.by = None],
           Dispatcher(a))
  /\ UNCHANGED <<users, fsm, seen, made>>

RegSubrole(t, a, subrole) ==
  /\ Quiet(a) /\ Exists(a) /\ fsm[a].state = "subrole"
  /\ Begin(t, "subrole", a,
           [users[a] EXCEPT !.role = "resident", !.subrole = subrole, !.by = None],
           Dispatcher(a))
  /\ UNCHANGED <<users, fsm, seen, made>>

(* reg_name only stores the name in the form.                              *)
RegName(a) ==
  /\ Quiet(a) /\ fsm[a].state = "name"
  /\ Form(a, IF fsm[a].role = "worker" THEN "category" ELSE "apartment", fsm[a].role)
  /\ UNCHANGED <<users, task, seen, made>>

RegCategory(t, a) ==
  /\ Quiet(a) /\ Exists(a) /\ fsm[a].state = "category"
  /\ Begin(t, "category", a,
           [users[a] EXCEPT !.name = TRUE, !.category = TRUE, !.role = "worker",
                            !.approved = FALSE],
           Dispatcher(a))
  /\ UNCHANGED <<users, fsm, seen, made>>

(* A faulty last step that keeps an approval given before.                 *)
RegApartmentKeeping(t, a, flat) ==
  /\ Quiet(a) /\ Exists(a) /\ fsm[a].state = "apartment"
  /\ Begin(t, "apartment", a, [users[a] EXCEPT !.name = TRUE, !.apartment = flat],
           Dispatcher(a))
  /\ UNCHANGED <<users, fsm, seen, made>>

RegApartment(t, a, flat) ==
  /\ Quiet(a) /\ Exists(a) /\ fsm[a].state = "apartment"
  /\ Begin(t, "apartment", a,
           [users[a] EXCEPT !.name = TRUE, !.apartment = flat, !.approved = FALSE],
           Dispatcher(a))
  /\ UNCHANGED <<users, fsm, seen, made>>

(* Where a step of the form leads once it is committed.                    *)
NextForm(h) ==
  CASE h.kind = "role" -> IF h.want.role = "worker"
                          THEN [state |-> "name", role |-> "worker"]
                          ELSE [state |-> "subrole", role |-> "resident"]
    [] h.kind = "subrole" -> [state |-> "name", role |-> "resident"]
    [] OTHER -> NoForm

-----------------------------------------------------------------------------
(* Decisions.                                                              *)

Decide == made < MaxDecisions /\ made' = made + 1 /\ UNCHANGED <<users, fsm, seen>>

(* approve_user: of anyone but a tenant, whether or not his form is done.  *)
Approve(t, a) ==
  LET u == users[a] IN
  /\ Exists(a) /\ ~IsTenant(u) /\ ~u.approved
  /\ Begin(t, "approve", a,
           [u EXCEPT !.approved = TRUE,
                     !.subrole = IF u.role = "resident" /\ @ = None THEN "owner" ELSE @],
           Dispatcher(a))
  /\ Decide

(* reject_user: approved or not.                                           *)
Reject(t, a) ==
  /\ Exists(a) /\ ~IsTenant(users[a])
  /\ Begin(t, "reject", a, users[a], Dispatcher(a))
  /\ Decide

(* add_worker_finish.                                                      *)
AddWorker(t, a) ==
  LET u == IF Exists(a) THEN users[a] ELSE NewRow IN
  /\ Begin(t, "add", a, [u EXCEPT !.role = "worker", !.category = TRUE,
                                  !.approved = TRUE, !.shift = FALSE], Dispatcher(a))
  /\ Decide

(* revoke_participant.                                                     *)
Revoke(t, a) ==
  /\ Exists(a)
  /\ Begin(t, "revoke", a, [users[a] EXCEPT !.approved = FALSE, !.shift = FALSE,
                                            !.by = None], Dispatcher(a))
  /\ Decide

(* approve_tenant: owner o, tenant a.                                      *)
ApproveTenant(t, o, a) ==
  /\ Exists(o) /\ IsApprovedOwner(users[o])
  /\ Exists(a) /\ IsTenant(users[a]) /\ ~users[a].approved
  /\ users[a].apartment = users[o].apartment
  /\ TenantsOf(users[o].apartment) = {}
  /\ Begin(t, "tenant", a, [users[a] EXCEPT !.approved = TRUE, !.by = o],
           [who |-> "owner", flat |-> users[o].apartment])
  /\ Decide

(* revoke_tenant does not ask for the role.                                *)
RevokeTenant(t, o, a) ==
  /\ Exists(o) /\ IsApprovedOwner(users[o])
  /\ Exists(a) /\ users[a].subrole = "tenant" /\ users[a].approved
  /\ users[a].apartment = users[o].apartment
  /\ Begin(t, "revoke", a, [users[a] EXCEPT !.approved = FALSE, !.by = None],
           Dispatcher(a))
  /\ Decide

(* toggle_shift.                                                           *)
ToggleShift(t, a) ==
  /\ Exists(a) /\ users[a].role = "worker" /\ users[a].approved
  /\ Begin(t, "shift", a, [users[a] EXCEPT !.shift = ~@], Dispatcher(a))
  /\ UNCHANGED <<users, fsm, seen, made>>

-----------------------------------------------------------------------------
(* COMMIT.                                                                 *)

(* A faulty UPDATE of the whole row.                                       *)
WrittenWhole(h) == h.want

(* The UPDATE of the attributes that changed since the row was read.       *)
Written(h) ==
  IF h.copy = NoRow THEN h.want
  ELSE [f \in DOMAIN h.want |-> IF h.want[f] # h.copy[f] THEN h.want[f]
                                                         ELSE users[h.user][f]]

(* A faulty schema without the index.                                      *)
NoIndex(a, row) == TRUE

(* uq_users_one_approved_tenant_per_apartment; it does not ask the role.   *)
Seats(u) == u.subrole = "tenant" /\ u.approved /\ u.apartment # None
SeatFree(a, row) ==
  Seats(row) => \A b \in Accounts \ {a} :
                  Exists(b) /\ Seats(users[b]) => users[b].apartment # row.apartment

(* An INSERT meets no row; an UPDATE meets the one that was read, and the  *)
(* owner it names.                                                         *)
Writable(h) ==
  /\ IF h.copy = NoRow THEN ~Exists(h.user) ELSE Exists(h.user) /\ ~h.lost
  /\ SeatFree(h.user, Written(h))

Changed(h) == h.want # h.copy
Done(t) == task' = [task EXCEPT ![t] = Free]

Commit(t) ==
  LET h == task[t] IN
  /\ h # Free /\ h.kind # "reject"
  /\ Changed(h) => Writable(h)
  /\ IF Changed(h)
     THEN /\ users' = [users EXCEPT ![h.user] = Written(h)]
          /\ seen' = [seen EXCEPT ![h.user] =
                        IF h.copy # users[h.user] THEN Stale
                        ELSE IF h.kind \in Approvals THEN h.seen ELSE @]
     ELSE UNCHANGED <<users, seen>>
  /\ fsm' = IF h.kind \in FormKinds THEN [fsm EXCEPT ![h.user] = NextForm(h)] ELSE fsm
  /\ Done(t)
  /\ UNCHANGED made

(* Handlers that work on the row of a, or name a as the owner.             *)
Concerns(h, a) == h # Free /\ (h.user = a \/ (h.kind = "tenant" /\ h.want.by = a))

(* A faulty DELETE that leaves approved_by_owner_id dangling.              *)
DeleteDangling(t) ==
  LET h == task[t] IN
  /\ h # Free /\ h.kind = "reject"
  /\ Exists(h.user) /\ ~h.lost
  /\ users' = [users EXCEPT ![h.user] = NoRow]
  /\ Done(t)
  /\ UNCHANGED <<fsm, seen, made>>

(* The DELETE of reject_user, ON DELETE SET NULL.                          *)
Delete(t) ==
  LET h == task[t] IN
  /\ h # Free /\ h.kind = "reject"
  /\ Exists(h.user) /\ ~h.lost
  /\ users' = [a \in Accounts |->
       IF a = h.user \/ ~Exists(a) THEN NoRow
       ELSE IF users[a].by = h.user THEN [users[a] EXCEPT !.by = None] ELSE users[a]]
  /\ task' = [s \in Tasks |->
       IF s = t THEN Free
       ELSE IF Concerns(task[s], h.user) THEN [task[s] EXCEPT !.lost = TRUE] ELSE task[s]]
  /\ UNCHANGED <<fsm, seen, made>>

(* The row is gone, a constraint is violated, the user has requests, or    *)
(* the connection is lost; the form stays where it was.                    *)
Raise(t) ==
  /\ task[t] # Free
  /\ Done(t)
  /\ UNCHANGED <<users, fsm, seen, made>>

-----------------------------------------------------------------------------
Register(a) ==
  \/ Start(a) \/ SetLanguage(a) \/ Cancel(a) \/ WithoutRow(a) \/ RegName(a)
  \/ \E t \in Tasks :
       \/ \E r \in Roles : RegRole(t, a, r)
       \/ \E s \in Subroles : RegSubrole(t, a, s)
       \/ RegCategory(t, a)
       \/ \E f \in Flats : RegApartment(t, a, f)

Judge(t, a) ==
  \/ Approve(t, a) \/ Reject(t, a) \/ AddWorker(t, a) \/ Revoke(t, a)
  \/ \E o \in Accounts : ApproveTenant(t, o, a) \/ RevokeTenant(t, o, a)

Next ==
  \/ \E a \in Accounts : Register(a) \/ \E t \in Tasks : Judge(t, a) \/ ToggleShift(t, a)
  \/ \E t \in Tasks : Commit(t) \/ Delete(t) \/ Raise(t)

Spec == Init /\ [][Next]_vars

-----------------------------------------------------------------------------
(* TypeOK: types; approved_by_owner_id names somebody in the table.        *)
TypeOK ==
  /\ users \in [Accounts -> Users \cup {NoRow}]
  /\ fsm \in [Accounts -> [state : States, role : Roles \cup {None}]]
  /\ task \in [Tasks -> Handlers \cup {Free}]
  /\ seen \in [Accounts -> Seen]
  /\ made \in 0..MaxDecisions
  /\ \A a \in Accounts : Exists(a) /\ users[a].by # None => Exists(users[a].by)

(* OneTenant: a flat has one approved tenant at most.  approve_tenant      *)
(* counts them before it commits, two owners or two taps may count at      *)
(* once, and a dispatcher may approve a row that became a tenant's after   *)
(* he read it.                                                             *)
OneTenant == \A f \in Flats : Cardinality(TenantsOf(f)) <= 1

(* RightPerson: an approved resident who has a flat was approved for that  *)
(* flat, a tenant by an owner of it and anybody else by a dispatcher,      *)
(* however often he began the form again and whoever had approved him half *)
(* way; unless a COMMIT was based on a row that had changed.               *)
RightPerson ==
  \A a \in Accounts :
    LET u == users[a] IN
    Exists(a) /\ u.role = "resident" /\ u.approved /\ u.apartment # None
      => \/ seen[a] = Stale
         \/ seen[a] = [who |-> IF u.subrole = "tenant" THEN "owner" ELSE "dispatcher",
                       flat |-> u.apartment]

Approved(a) == Exists(a) /\ users[a].approved

(* OnlyApprovalsApprove: nobody gains access by a COMMIT of another kind,  *)
(* above all not one that read him while he had access and writes after it *)
(* was revoked.                                                            *)
OnlyApprovalsApprove ==
  [][\A a \in Accounts :
       Approved(a)' /\ ~Approved(a)
         => \E t \in Tasks : /\ task[t] # Free /\ task'[t] = Free
                             /\ task[t].kind \in Approvals /\ task[t].user = a]_vars

=============================================================================
