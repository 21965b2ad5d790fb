-------------------------- MODULE ParticipantsProofs --------------------------
(***************************************************************************)
(* Theorems about Participants for any accounts, flats, handlers at once   *)
(* and decisions.                                                          *)
(***************************************************************************)
EXTENDS Participants, FiniteSetTheorems, TLAPS

(* A row and the form of its account: whoever fills in the form has no     *)
(* flat yet, and whoever has one has a name and, as a resident, a subrole. *)
GoodRow(u, form) ==
  u # NoRow =>
    /\ form.state # "none" => u.apartment = None
    /\ u.apartment # None => u.name
    /\ u.role = "resident" /\ u.apartment # None => u.subrole # None
    /\ form.state \in {"name", "apartment"} /\ form.role # "worker" /\ u.role = "resident"
         => u.subrole # None

GoodForm(form) == form.state = "apartment" => form.role # "worker"

(* What a handler of each kind may want to change of the row it read.      *)
GoodWant(h) ==
  /\ h.copy = NoRow => h.kind = "add" /\ h.want.by = None /\ h.want.apartment = None
  /\ h.copy # NoRow =>
       /\ h.want.apartment # h.copy.apartment => h.kind = "apartment"
       /\ h.want.role # h.copy.role => h.kind \in {"role", "subrole"} \/ h.want.role = "worker"
       /\ h.copy.name => h.want.name
       /\ h.kind # "role" /\ h.copy.subrole # None => h.want.subrole # None
       /\ h.kind \notin Approvals /\ h.want.approved => h.copy.approved
       /\ h.kind # "tenant" => h.want.by \in {None, h.copy.by}
  /\ h.kind \in {"apartment", "category", "revoke"} => ~h.want.approved
  /\ h.kind = "apartment" => h.want.name
  /\ h.kind = "subrole" => h.want.subrole # None
  /\ h.kind \in {"add", "shift"} => h.want.role = "worker"
  /\ h.kind = "approve" => ~IsTenant(h.want)
                           /\ h.seen = [who |-> "dispatcher", flat |-> h.want.apartment]
  /\ h.kind = "tenant" => IsTenant(h.want)
                          /\ h.seen = [who |-> "owner", flat |-> h.want.apartment]

(* What is still true of the row a handler read, if it was not deleted.    *)
StillTrue(h) ==
  /\ h.copy # NoRow /\ ~h.lost =>
       /\ Exists(h.user)
       /\ h.copy.name => users[h.user].name
       /\ h.kind \in FormKinds /\ h.copy.subrole # None => users[h.user].subrole # None
  /\ h.kind \in FormKinds =>
       /\ fsm[h.user].state = h.kind
       /\ h.lost /\ Exists(h.user) => users[h.user].role = "worker"
  /\ h.kind = "tenant" /\ ~h.lost => h.want.by \in Accounts /\ Exists(h.want.by)

(* The index of migration 06.                                              *)
SeatInv ==
  \A a, b \in Accounts :
    Exists(a) /\ Exists(b) /\ Seats(users[a]) /\ Seats(users[b])
      /\ users[a].apartment = users[b].apartment => a = b

TaskInv ==
  /\ \A t \in Tasks : task[t] # Free => GoodWant(task[t]) /\ StillTrue(task[t])
  /\ \A s, t \in Tasks :
       /\ task[s] # Free /\ task[s].kind \in FormKinds
       /\ task[t] # Free /\ task[t].kind \in FormKinds
       /\ task[s].user = task[t].user
       => s = t

FormInv == \A a \in Accounts : GoodRow(users[a], fsm[a]) /\ GoodForm(fsm[a])

Inv == TypeOK /\ FormInv /\ TaskInv /\ SeatInv /\ RightPerson

-----------------------------------------------------------------------------
(* A row is not the absence of one, a handler not that of one.             *)
LEMMA NotEmpty ==
  /\ NoRow \notin Users /\ Free \notin Handlers
  /\ NewRow \in Users /\ None \notin Accounts /\ None \notin Flats
<1>1. NoRow.role = None /\ Free.kind = None
  BY DEF NoRow, Free
<1>2. \A u \in Users : u.role \in Roles
  BY DEF Users
<1>3. \A h \in Handlers : h.kind \in Kinds
  BY DEF Handlers
<1>4. None \notin Roles /\ None \notin Kinds /\ None \notin Accounts /\ None \notin Flats
  BY ParticipantsAssumption
<1>5. NewRow \in Users
  BY DEF NewRow, Users, Roles
<1>6. QED BY <1>1, <1>2, <1>3, <1>4, <1>5

(* What an UPDATE of the changed attributes leaves in the row u.           *)
LEMMA WrittenFields ==
  ASSUME NEW h, NEW want \in Users, NEW copy \in Users, NEW u \in Users, NEW row,
         want = h.want, copy = h.copy, u = users[h.user], row = Written(h)
  PROVE  /\ row \in Users
         /\ row.role = IF want.role # copy.role THEN want.role ELSE u.role
         /\ row.subrole = IF want.subrole # copy.subrole THEN want.subrole ELSE u.subrole
         /\ row.apartment = IF want.apartment # copy.apartment THEN want.apartment
                                                               ELSE u.apartment
         /\ row.name = IF want.name # copy.name THEN want.name ELSE u.name
         /\ row.approved = IF want.approved # copy.approved THEN want.approved
                                                            ELSE u.approved
         /\ row.by = IF want.by # copy.by THEN want.by ELSE u.by
         /\ copy = u => row = want
<1>0. row = [f \in DOMAIN want |-> IF want[f] # copy[f] THEN want[f] ELSE u[f]]
  BY NotEmpty DEF Written
<1>1. DOMAIN want = {"role", "subrole", "apartment", "name", "category", "approved", "by",
                     "shift"}
  BY DEF Users
<1>2. row = [role |-> row.role, subrole |-> row.subrole, apartment |-> row.apartment,
             name |-> row.name, category |-> row.category, approved |-> row.approved,
             by |-> row.by, shift |-> row.shift]
  BY <1>0, <1>1
<1>3. /\ row.role = IF want.role # copy.role THEN want.role ELSE u.role
      /\ row.subrole = IF want.subrole # copy.subrole THEN want.subrole ELSE u.subrole
      /\ row.apartment = IF want.apartment # copy.apartment THEN want.apartment
                                                            ELSE u.apartment
      /\ row.by = IF want.by # copy.by THEN want.by ELSE u.by
  BY <1>0, <1>1
<1>4. /\ row.name = IF want.name # copy.name THEN want.name ELSE u.name
      /\ row.category = IF want.category # copy.category THEN want.category ELSE u.category
      /\ row.approved = IF want.approved # copy.approved THEN want.approved ELSE u.approved
      /\ row.shift = IF want.shift # copy.shift THEN want.shift ELSE u.shift
  BY <1>0, <1>1
<1>5. /\ row.role \in Roles /\ row.subrole \in Subroles \cup {None}
      /\ row.apartment \in Flats \cup {None} /\ row.by \in Accounts \cup {None}
  BY <1>3 DEF Users
<1>6. row.name \in BOOLEAN /\ row.category \in BOOLEAN /\ row.approved \in BOOLEAN
      /\ row.shift \in BOOLEAN
  BY <1>4 DEF Users
<1>7. row \in Users
  BY <1>2, <1>5, <1>6 DEF Users
<1>8. copy = u => row = want
  <2>1. want = [role |-> want.role, subrole |-> want.subrole, apartment |-> want.apartment,
                name |-> want.name, category |-> want.category, approved |-> want.approved,
                by |-> want.by, shift |-> want.shift]
    BY DEF Users
  <2>2. QED BY <1>2, <1>3, <1>4, <2>1
<1>9. QED BY <1>3, <1>4, <1>7, <1>8

(* What holds before the first update.                                     *)
LEMMA InvInit == Init => Inv
<1>0. Init => made \in 0..MaxDecisions
  <2>1. Init => made = 0
    BY DEF Init
  <2>2. MaxDecisions \in Nat
    BY ParticipantsAssumption
  <2>3. QED BY <2>1, <2>2
<1> SUFFICES ASSUME Init, NEW f \in Flats,
                    users = [a \in Accounts |->
                      IF a \in {Owner, Applicant}
                      THEN [NewRow EXCEPT !.subrole = IF a = Owner THEN "owner" ELSE "tenant",
                                          !.apartment = f, !.name = TRUE,
                                          !.approved = a = Owner]
                      ELSE NoRow],
                    fsm = [a \in Accounts |-> NoForm],
                    task = [t \in Tasks |-> Free],
                    seen = [a \in Accounts |-> [who |-> "dispatcher", flat |-> f]],
                    made = 0
             PROVE  Inv
  BY DEF Init
<1>1. ASSUME NEW a \in Accounts
      PROVE  \/ users[a] = NoRow
             \/ /\ users[a] \in Users /\ users[a].by = None /\ users[a].name
                /\ users[a].subrole # None /\ users[a].apartment = f
                /\ users[a].approved <=> users[a].subrole = "owner"
                /\ users[a].approved <=> a = Owner
  <2>1. CASE a = Owner
    <3>1. users[a] = [NewRow EXCEPT !.subrole = "owner", !.apartment = f, !.name = TRUE,
                                    !.approved = TRUE]
      BY <2>1
    <3>2. QED BY <2>1, <3>1, NotEmpty, ParticipantsAssumption DEF NewRow, Users, Subroles, Roles
  <2>2. CASE a = Applicant /\ a # Owner
    <3>1. users[a] = [NewRow EXCEPT !.subrole = "tenant", !.apartment = f, !.name = TRUE,
                                    !.approved = FALSE]
      BY <2>2
    <3>2. QED BY <2>2, <3>1, NotEmpty, ParticipantsAssumption DEF NewRow, Users, Subroles, Roles
  <2>3. CASE a \notin {Owner, Applicant}
    BY <2>3
  <2>4. QED BY <2>1, <2>2, <2>3
<1>2. \A a \in Accounts : fsm[a] = NoForm /\ seen[a] = [who |-> "dispatcher", flat |-> f]
  OBVIOUS
<1>3. \A t \in Tasks : task[t] = Free
  OBVIOUS
<1>4. TypeOK
  <2>1. users \in [Accounts -> Users \cup {NoRow}]
    BY <1>1
  <2>2. fsm \in [Accounts -> [state : States, role : Roles \cup {None}]]
    BY DEF NoForm, States
  <2>3. seen \in [Accounts -> Seen]
    BY DEF Seen
  <2>4. \A a \in Accounts : Exists(a) => users[a].by = None
    BY <1>1 DEF Exists
  <2>6. task \in [Tasks -> Handlers \cup {Free}]
    OBVIOUS
  <2>7. QED BY <1>0, <2>1, <2>2, <2>3, <2>4, <2>6 DEF TypeOK
<1>5. FormInv
  BY <1>1, <1>2 DEF FormInv, GoodRow, GoodForm, NoForm
<1>6. TaskInv
  BY <1>3 DEF TaskInv
<1>7. SeatInv
  BY <1>1 DEF SeatInv, Exists, Seats
<1>8. RightPerson
  BY <1>1, <1>2 DEF RightPerson, Exists
<1>9. QED BY <1>4, <1>5, <1>6, <1>7, <1>8 DEF Inv

(* Rows and handlers have their types.                                     *)
LEMMA Types ==
  ASSUME TypeOK
  PROVE  /\ \A a \in Accounts : Exists(a) <=> users[a] \in Users
         /\ \A t \in Tasks : task[t] # Free <=> task[t] \in Handlers
BY NotEmpty DEF TypeOK, Exists

(* A step of the form of a, or the INSERT of his row, while no handler of  *)
(* his form is at work.                                                    *)
LEMMA FormStep ==
  ASSUME Inv, NEW a \in Accounts, NEW u, NEW g \in [state : States, role : Roles \cup {None}],
         Quiet(a),
         u = users[a] \/ (~Exists(a) /\ u \in Users /\ ~u.approved /\ u.by = None),
         GoodRow(u, g), GoodForm(g),
         users' = [users EXCEPT ![a] = u], fsm' = [fsm EXCEPT ![a] = g],
         UNCHANGED <<task, seen, made>>
  PROVE  Inv'
<1>1. /\ users'[a] = u /\ \A b \in Accounts \ {a} : users'[b] = users[b]
      /\ fsm'[a] = g /\ \A b \in Accounts \ {a} : fsm'[b] = fsm[b]
  BY DEF Inv, TypeOK
<1>2. \A b \in Accounts : Exists(b) => Exists(b)' /\ users'[b] = users[b]
  BY <1>1 DEF Exists
<1>3. Exists(a)' => Exists(a) \/ (u \in Users /\ ~u.approved /\ u.by = None)
  BY <1>1 DEF Exists
<1>4. TypeOK'
  <2>1. users' \in [Accounts -> Users \cup {NoRow}]
    BY DEF Inv, TypeOK
  <2>2. fsm' \in [Accounts -> [state : States, role : Roles \cup {None}]]
    BY DEF Inv, TypeOK
  <2>3. \A b \in Accounts : Exists(b)' /\ users'[b].by # None => Exists(users[b].by)'
    <3>1. \A b \in Accounts : Exists(b) /\ users[b].by # None
                                => users[b].by \in Accounts /\ Exists(users[b].by)
      BY Types DEF Inv, TypeOK, Users
    <3>2. \A b \in Accounts : Exists(b)' /\ users'[b].by # None
                                => Exists(b) /\ users'[b] = users[b]
      BY <1>1, <1>2, <1>3 DEF Exists
    <3>3. QED BY <1>2, <3>1, <3>2
  <2>4. QED BY <2>1, <2>2, <2>3 DEF Inv, TypeOK
<1>5. FormInv'
  BY <1>1 DEF Inv, FormInv
<1>6. TaskInv'
  <2> SUFFICES ASSUME NEW t \in Tasks, task[t] # Free
               PROVE  StillTrue(task[t])'
    BY DEF Inv, TaskInv, GoodWant, IsTenant
  <2> DEFINE h == task[t]
  <2>1. h \in Handlers /\ h.user \in Accounts /\ StillTrue(h)
    BY Types DEF Inv, TaskInv, Handlers
  <2>2. h.kind \in FormKinds => h.user # a
    BY DEF Quiet
  <2>3. h.copy # NoRow /\ ~h.lost =>
          /\ Exists(h.user)' /\ users'[h.user] = users[h.user]
          /\ h.copy.name => users[h.user].name
          /\ h.kind \in FormKinds /\ h.copy.subrole # None => users[h.user].subrole # None
    BY <1>2, <2>1 DEF StillTrue
  <2>4. h.kind \in FormKinds =>
          /\ fsm'[h.user].state = h.kind
          /\ h.lost /\ Exists(h.user)' => users'[h.user].role = "worker"
    BY <1>1, <2>1, <2>2 DEF StillTrue, Exists
  <2>5. h.kind = "tenant" /\ ~h.lost => h.want.by \in Accounts /\ Exists(h.want.by)'
    BY <1>2, <2>1 DEF StillTrue
  <2>6. QED BY <2>3, <2>4, <2>5 DEF StillTrue
<1>7. SeatInv'
  BY <1>1, <1>2, <1>3 DEF Inv, SeatInv, Seats, Exists
<1>8. RightPerson'
  BY <1>1, <1>2, <1>3 DEF Inv, RightPerson, Exists
<1>9. QED BY <1>4, <1>5, <1>6, <1>7, <1>8 DEF Inv

(* A handler that has read a row.                                          *)
LEMMA BeginStep ==
  ASSUME Inv, NEW t \in Tasks, NEW h \in Handlers, task[t] = Free,
         task' = [task EXCEPT ![t] = h], GoodWant(h), StillTrue(h),
         h.kind \in FormKinds => Quiet(h.user),
         made' \in 0..MaxDecisions, UNCHANGED <<users, fsm, seen>>
  PROVE  Inv'
<1>1. task'[t] = h /\ \A s \in Tasks \ {t} : task'[s] = task[s]
  BY DEF Inv, TypeOK
<1>2. \A a : (Exists(a)' <=> Exists(a)) /\ users'[a] = users[a] /\ fsm'[a] = fsm[a]
  BY DEF Exists
<1>3. \A k : StillTrue(k) => StillTrue(k)'
  BY <1>2 DEF StillTrue
<1>4. TypeOK'
  <2>1. task' \in [Tasks -> Handlers \cup {Free}]
    BY DEF Inv, TypeOK
  <2>2. QED BY <1>2, <2>1 DEF Inv, TypeOK
<1>5. FormInv'
  BY <1>2 DEF Inv, FormInv
<1>6. \A s \in Tasks : task'[s] # Free => GoodWant(task'[s]) /\ StillTrue(task'[s])
  BY <1>1 DEF Inv, TaskInv
<1>7. \A s \in Tasks : task'[s] # Free => GoodWant(task[s])' /\ StillTrue(task[s])'
  BY <1>3, <1>6 DEF GoodWant, IsTenant, StillTrue, Exists
<1>8. TaskInv'
  BY <1>1, <1>7, NotEmpty DEF Inv, TaskInv, Quiet
<1>9. SeatInv' /\ RightPerson'
  BY <1>2 DEF Inv, SeatInv, Seats, RightPerson, Exists
<1>10. QED BY <1>4, <1>5, <1>8, <1>9 DEF Inv

(* What a COMMIT does to the row of its account: before is the row and     *)
(* after what it becomes.  Names and subroles are kept but by the first    *)
(* step of the form, and only the form makes a resident of a worker.       *)
Careful(h, before, after) ==
  /\ before # NoRow => after # NoRow
  /\ before = NoRow /\ after # NoRow => after.role = "worker" /\ after.by = None
  /\ before # NoRow /\ before.name => after.name
  /\ before # NoRow /\ before.subrole # None => after.subrole # None \/ h.kind = "role"
  /\ before # NoRow /\ before.role = "worker"
       => after.role = "worker" \/ h.kind \in {"role", "subrole"}

(* An INSERT of a worker.                                                  *)
LEMMA InsertRow ==
  ASSUME Inv, NEW t \in Tasks, Commit(t), task[t].copy = NoRow
  PROVE  /\ users' = [users EXCEPT ![task[t].user] = task[t].want]
         /\ Changed(task[t]) /\ ~Exists(task[t].user) /\ SeatFree(task[t].user, task[t].want)
         /\ task[t].want \in Users /\ UNCHANGED fsm
         /\ Careful(task[t], NoRow, task[t].want)
         /\ \A g : GoodRow(task[t].want, g)
<1> DEFINE h == task[t]
<1>1. h \in Handlers /\ h.want \in Users /\ GoodWant(h)
  BY Types DEF Inv, TaskInv, Commit, Handlers
<1>2. h.kind = "add" /\ h.want.role = "worker" /\ h.want.by = None /\ h.want.apartment = None
  BY <1>1 DEF GoodWant
<1>3. Changed(h) /\ Written(h) = h.want
  BY <1>1, NotEmpty DEF Changed, Written
<1>4. users' = [users EXCEPT ![h.user] = h.want] /\ UNCHANGED fsm
      /\ ~Exists(h.user) /\ SeatFree(h.user, h.want)
  BY <1>2, <1>3 DEF Commit, Writable, FormKinds
<1>5. Careful(h, NoRow, h.want)
  BY <1>1, <1>2, NotEmpty DEF Careful
<1>6. \A g : GoodRow(h.want, g)
  BY <1>2 DEF GoodRow
<1>7. QED BY <1>1, <1>3, <1>4, <1>5, <1>6

(* An UPDATE keeps the row and the form of its account in order.           *)
LEMMA UpdateRow ==
  ASSUME Inv, NEW t \in Tasks, Commit(t), task[t].copy # NoRow, Changed(task[t])
  PROVE  /\ users' = [users EXCEPT ![task[t].user] = Written(task[t])]
         /\ Exists(task[t].user) /\ ~task[t].lost
         /\ SeatFree(task[t].user, Written(task[t]))
         /\ Written(task[t]) \in Users
         /\ Careful(task[t], users[task[t].user], Written(task[t]))
         /\ GoodRow(Written(task[t]),
                    IF task[t].kind \in FormKinds THEN NextForm(task[t])
                                                  ELSE fsm[task[t].user])
         /\ Written(task[t]).by # None => Written(task[t]).by \in Accounts
                                          /\ Exists(Written(task[t]).by)
         /\ task[t].copy = users[task[t].user] => Written(task[t]) = task[t].want
         /\ task[t].kind \notin Approvals /\ Written(task[t]).approved
              => users[task[t].user].approved
<1>1. PICK h : h = task[t]
  OBVIOUS
<1>2. /\ h \in Handlers /\ h.want \in Users /\ h.copy \in Users /\ h.user \in Accounts
      /\ h.kind \in Kinds /\ GoodWant(h) /\ StillTrue(h)
  BY <1>1, Types DEF Inv, TaskInv, Commit, Handlers
<1>3. /\ users' = [users EXCEPT ![h.user] = Written(h)]
      /\ Exists(h.user) /\ ~h.lost /\ SeatFree(h.user, Written(h))
  BY <1>1 DEF Commit, Writable
<1>4. PICK u \in Users : u = users[h.user]
  BY <1>2, <1>3, Types DEF Inv
<1>5. PICK row : row = Written(h)
  OBVIOUS
<1>6. /\ row \in Users
      /\ row.role = IF h.want.role # h.copy.role THEN h.want.role ELSE u.role
      /\ row.subrole = IF h.want.subrole # h.copy.subrole THEN h.want.subrole ELSE u.subrole
      /\ row.apartment = IF h.want.apartment # h.copy.apartment THEN h.want.apartment
                                                                ELSE u.apartment
      /\ row.name = IF h.want.name # h.copy.name THEN h.want.name ELSE u.name
      /\ row.approved = IF h.want.approved # h.copy.approved THEN h.want.approved
                                                             ELSE u.approved
      /\ row.by = IF h.want.by # h.copy.by THEN h.want.by ELSE u.by
      /\ h.copy = u => row = h.want
  BY <1>1, <1>2, <1>4, <1>5, WrittenFields
<1>7. /\ h.want.apartment # h.copy.apartment => h.kind = "apartment"
      /\ h.want.role # h.copy.role => h.kind \in {"role", "subrole"} \/ h.want.role = "worker"
      /\ h.copy.name => h.want.name
      /\ h.kind # "role" /\ h.copy.subrole # None => h.want.subrole # None
      /\ h.kind \notin Approvals /\ h.want.approved => h.copy.approved
      /\ h.kind # "tenant" => h.want.by \in {None, h.copy.by}
      /\ h.kind = "apartment" => h.want.name
      /\ h.kind = "subrole" => h.want.subrole # None
  BY <1>1, <1>2 DEF GoodWant
<1>8. /\ h.copy.name => u.name
      /\ h.kind \in FormKinds /\ h.copy.subrole # None => u.subrole # None
      /\ h.kind \in FormKinds => fsm[h.user].state = h.kind
      /\ h.kind = "tenant" => h.want.by \in Accounts /\ Exists(h.want.by)
  BY <1>1, <1>2, <1>3, <1>4 DEF StillTrue
<1>9. GoodRow(u, fsm[h.user]) /\ GoodForm(fsm[h.user]) /\ u # NoRow
  BY <1>2, <1>4, NotEmpty DEF Inv, FormInv
<1>10. /\ u.name \in BOOLEAN /\ h.want.name \in BOOLEAN /\ h.copy.name \in BOOLEAN
       /\ u.role \in Roles /\ h.want.role \in Roles
  BY <1>2, <1>4 DEF Users
<1>11. Careful(h, u, row)
  BY <1>6, <1>7, <1>9, <1>10, NotEmpty DEF Careful
<1>12. GoodRow(row, IF h.kind \in FormKinds THEN NextForm(h) ELSE fsm[h.user])
  <2>1. row.apartment # None => row.name
    BY <1>6, <1>7, <1>8, <1>9, <1>10 DEF GoodRow
  <2>2. CASE h.kind \notin FormKinds
    <3>1. row.apartment = u.apartment /\ (u.subrole # None => row.subrole # None)
          /\ (row.role = "resident" => u.role = "resident")
      BY <1>6, <1>7, <2>2 DEF FormKinds
    <3>2. QED BY <1>9, <2>1, <2>2, <3>1 DEF GoodRow
  <2>3. CASE h.kind \in {"role", "category", "subrole"}
    <3>1. row.apartment = None
      BY <1>6, <1>7, <1>8, <1>9, <2>3 DEF GoodRow, FormKinds
    <3>2. h.kind = "subrole" => row.subrole # None
      BY <1>6, <1>7, <1>8 DEF FormKinds
    <3>3. NextForm(h).state \in {"name", "apartment"} /\ NextForm(h).role # "worker"
            => h.kind = "subrole"
      BY <2>3 DEF NextForm, NoForm
    <3>4. QED BY <2>1, <2>3, <3>1, <3>2, <3>3 DEF GoodRow, FormKinds
  <2>4. CASE h.kind = "apartment"
    <3>1. row.role = "resident" => row.subrole # None
      BY <1>6, <1>7, <1>8, <1>9, <2>4 DEF GoodRow, GoodForm, FormKinds
    <3>2. NextForm(h).state = "none"
      BY <2>4 DEF NextForm, NoForm
    <3>3. QED BY <2>1, <2>4, <3>1, <3>2 DEF GoodRow, FormKinds
  <2>5. QED BY <2>2, <2>3, <2>4 DEF FormKinds
<1>13. row.by # None => row.by \in Accounts /\ Exists(row.by)
  <2>1. u.by # None => u.by \in Accounts /\ Exists(u.by)
    BY <1>2, <1>3, <1>4 DEF Inv, TypeOK, Users
  <2>2. CASE h.want.by = h.copy.by
    BY <1>6, <2>1, <2>2
  <2>3. CASE h.want.by # h.copy.by
    BY <1>6, <1>7, <1>8, <2>3
  <2>4. QED BY <2>2, <2>3
<1>14. h.kind \notin Approvals /\ row.approved => u.approved
  <2>1. u.approved \in BOOLEAN /\ h.want.approved \in BOOLEAN /\ h.copy.approved \in BOOLEAN
    BY <1>2, <1>4 DEF Users
  <2>2. QED BY <1>6, <1>7, <2>1
<1>15. QED
  BY <1>1, <1>3, <1>4, <1>5, <1>6, <1>11, <1>12, <1>13, <1>14

(* A COMMIT without an UPDATE only moves the form.                         *)
LEMMA NoUpdate ==
  ASSUME Inv, NEW t \in Tasks, Commit(t), ~Changed(task[t])
  PROVE  /\ UNCHANGED <<users, seen>>
         /\ GoodRow(users[task[t].user],
                    IF task[t].kind \in FormKinds THEN NextForm(task[t])
                                                  ELSE fsm[task[t].user])
<1>1. PICK h : h = task[t]
  OBVIOUS
<1>2. /\ h \in Handlers /\ h.user \in Accounts /\ GoodWant(h) /\ StillTrue(h)
      /\ h.want = h.copy /\ h.copy # NoRow
  BY <1>1, Types, NotEmpty DEF Inv, TaskInv, Commit, Handlers, Changed
<1>3. PICK u : u = users[h.user]
  OBVIOUS
<1>4. GoodRow(u, fsm[h.user]) /\ GoodForm(fsm[h.user])
  BY <1>2, <1>3 DEF Inv, FormInv
<1>5. CASE h.kind \in FormKinds /\ u # NoRow
  <2>1. fsm[h.user].state = h.kind
    BY <1>2, <1>5 DEF StillTrue
  <2>2. h.kind = "subrole" /\ u.role = "resident" => u.subrole # None
    BY <1>2, <1>3, <1>5 DEF GoodWant, StillTrue, FormKinds, Exists
  <2>3. NextForm(h).state \in {"name", "apartment"} /\ NextForm(h).role # "worker"
          => h.kind = "subrole"
    BY <1>5 DEF NextForm, NoForm
  <2>4. h.kind # "none"
    BY <1>5 DEF FormKinds
  <2>5. QED BY <1>1, <1>3, <1>4, <1>5, <2>1, <2>2, <2>3, <2>4 DEF GoodRow, Commit
<1>6. QED BY <1>1, <1>3, <1>4, <1>5 DEF Commit, GoodRow

(* Who last approved the account of a handler that commits.                *)
PersonRight(u, s) ==
  u # NoRow /\ u.role = "resident" /\ u.approved /\ u.apartment # None
    => s = Stale \/ s = [who |-> IF u.subrole = "tenant" THEN "owner" ELSE "dispatcher",
                         flat |-> u.apartment]

(* The approvals record who decided for which flat, and no other UPDATE of *)
(* a row that is as it was read gives an approved resident a flat.         *)
LEMMA CommitPerson ==
  ASSUME Inv, NEW t \in Tasks, Commit(t), NEW u, u = users'[task[t].user]
  PROVE  PersonRight(u, seen'[task[t].user])
<1>1. PICK h : h = task[t]
  OBVIOUS
<1>2. /\ h \in Handlers /\ h.user \in Accounts /\ GoodWant(h) /\ StillTrue(h)
      /\ h.want \in Users
  BY <1>1, Types DEF Inv, TaskInv, Commit, Handlers
<1>3. PICK before : before = users[h.user]
  OBVIOUS
<1>4. PersonRight(before, seen[h.user])
  BY <1>2, <1>3 DEF Inv, RightPerson, PersonRight, Exists
<1>5. CASE ~Changed(h)
  BY <1>1, <1>3, <1>4, <1>5, NoUpdate
<1>6. CASE Changed(h) /\ h.copy # before
  <2>1. seen'[h.user] = Stale
    BY <1>1, <1>2, <1>3, <1>6 DEF Commit, Inv, TypeOK
  <2>2. QED BY <1>1, <2>1 DEF PersonRight
<1>7. CASE Changed(h) /\ h.copy = before
  <2>1. u = h.want
    <3>1. CASE h.copy = NoRow
      BY <1>1, <1>2, <3>1, InsertRow DEF Inv, TypeOK
    <3>2. CASE h.copy # NoRow
      BY <1>1, <1>2, <1>3, <1>7, <3>2, UpdateRow DEF Inv, TypeOK
    <3>3. QED BY <3>1, <3>2
  <2>2. seen'[h.user] = IF h.kind \in Approvals THEN h.seen ELSE seen[h.user]
    BY <1>1, <1>2, <1>3, <1>7 DEF Commit, Inv, TypeOK
  <2>3. CASE h.kind \in Approvals
    BY <1>1, <1>2, <2>1, <2>2, <2>3 DEF Approvals, GoodWant, PersonRight, IsTenant
  <2>4. CASE h.kind \in {"apartment", "category", "revoke", "shift"}
    BY <1>1, <1>2, <2>1, <2>4 DEF GoodWant, PersonRight
  <2>5. CASE h.kind \in {"role", "subrole"}
    <3>1. fsm[h.user].state # "none" /\ h.copy # NoRow
      BY <1>2, <2>5 DEF StillTrue, FormKinds, GoodWant
    <3>2. h.want.apartment = None
      BY <1>2, <1>3, <1>7, <2>5, <3>1 DEF Inv, FormInv, GoodRow, GoodWant
    <3>3. QED BY <2>1, <3>2 DEF PersonRight
  <2>6. h.kind # "reject" /\ h.kind \in Kinds
    BY <1>1, <1>2 DEF Commit, Handlers
  <2>7. QED BY <2>3, <2>4, <2>5, <2>6 DEF Kinds, FormKinds, Approvals
<1>8. QED BY <1>5, <1>6, <1>7

(* What a COMMIT does to the account it is about.                          *)
LEMMA CommitRow ==
  ASSUME Inv, NEW t \in Tasks, Commit(t)
  PROVE  \E row \in Users \cup {NoRow} :
           /\ users' = [users EXCEPT ![task[t].user] = row]
           /\ row = users[task[t].user] \/ SeatFree(task[t].user, row)
           /\ Careful(task[t], users[task[t].user], row)
           /\ GoodRow(row, IF task[t].kind \in FormKinds THEN NextForm(task[t])
                                                         ELSE fsm[task[t].user])
           /\ row # NoRow /\ row.by # None => row.by \in Accounts /\ Exists(row.by)
           /\ task[t].kind \notin Approvals /\ row # NoRow /\ row.approved
                => Exists(task[t].user) /\ users[task[t].user].approved
<1>1. PICK h : h = task[t]
  OBVIOUS
<1>2. h \in Handlers /\ h.user \in Accounts /\ GoodWant(h)
  BY <1>1, Types DEF Inv, TaskInv, Commit, Handlers
<1>3. CASE ~Changed(h)
  <2>1. PICK row \in Users \cup {NoRow} : row = users[h.user]
    BY <1>2 DEF Inv, TypeOK
  <2>2. users' = [users EXCEPT ![h.user] = row]
    BY <1>1, <1>2, <1>3, <2>1, NoUpdate DEF Inv, TypeOK
  <2>3. Careful(h, row, row)
    BY DEF Careful
  <2>4. row # NoRow /\ row.by # None => row.by \in Accounts /\ Exists(row.by)
    BY <1>2, <2>1 DEF Inv, TypeOK, Users, Exists
  <2>5. QED BY <1>1, <1>3, <2>1, <2>2, <2>3, <2>4, NoUpdate DEF Exists
<1>4. CASE h.copy = NoRow
  <2>1. h.kind \in Approvals
    BY <1>2, <1>4 DEF GoodWant, Approvals
  <2>2. users[h.user] = NoRow /\ h.want \in Users /\ h.want.by = None
    BY <1>1, <1>2, <1>4, InsertRow DEF GoodWant, Exists
  <2>3. QED BY <1>1, <1>4, <2>1, <2>2, InsertRow
<1>5. CASE Changed(h) /\ h.copy # NoRow
  BY <1>1, <1>5, UpdateRow DEF Exists
<1>6. QED BY <1>3, <1>4, <1>5

(* A COMMIT keeps the invariant.                                           *)
LEMMA CommitStep ==
  ASSUME Inv, NEW t \in Tasks, Commit(t)
  PROVE  Inv'
<1>1. PICK h : h = task[t]
  OBVIOUS
<1>2. PICK a \in Accounts : a = h.user
  BY <1>1, Types DEF Inv, Commit, Handlers
<1>3. PICK row \in Users \cup {NoRow} :
        /\ users' = [users EXCEPT ![a] = row]
        /\ row = users[a] \/ SeatFree(a, row)
        /\ Careful(h, users[a], row)
        /\ GoodRow(row, IF h.kind \in FormKinds THEN NextForm(h) ELSE fsm[a])
        /\ row # NoRow /\ row.by # None => row.by \in Accounts /\ Exists(row.by)
  BY <1>1, <1>2, CommitRow
<1>4. users'[a] = row /\ \A b \in Accounts \ {a} : users'[b] = users[b]
  BY <1>3 DEF Inv, TypeOK
<1>5. /\ h \in Handlers /\ StillTrue(h)
      /\ fsm' = IF h.kind \in FormKinds THEN [fsm EXCEPT ![a] = NextForm(h)] ELSE fsm
      /\ task' = [task EXCEPT ![t] = Free] /\ UNCHANGED made
  BY <1>1, <1>2, Types DEF Inv, TaskInv, Commit, Done
<1>6. task'[t] = Free /\ \A s \in Tasks \ {t} : task'[s] = task[s]
  BY <1>5 DEF Inv, TypeOK
<1>7. fsm'[a] = (IF h.kind \in FormKinds THEN NextForm(h) ELSE fsm[a])
      /\ \A b \in Accounts \ {a} : fsm'[b] = fsm[b]
  BY <1>5 DEF Inv, TypeOK
<1>8. \A b \in Accounts : Exists(b) => Exists(b)'
  BY <1>3, <1>4 DEF Exists, Careful
<1>9. TypeOK'
  <2>1. users' \in [Accounts -> Users \cup {NoRow}]
    BY <1>3 DEF Inv, TypeOK
  <2>2. fsm' \in [Accounts -> [state : States, role : Roles \cup {None}]]
    BY <1>5 DEF Inv, TypeOK, NextForm, NoForm, States, Roles
  <2>3. task' \in [Tasks -> Handlers \cup {Free}]
    BY <1>5 DEF Inv, TypeOK
  <2>4. seen' \in [Accounts -> Seen]
    <3>1. Stale \in Seen /\ h.seen \in Seen
      BY <1>5 DEF Stale, Seen, Handlers
    <3>2. \E v \in Seen : seen' = [seen EXCEPT ![a] = v] \/ seen' = seen
      BY <1>1, <1>2, <3>1 DEF Commit, Inv, TypeOK
    <3>3. QED BY <3>2 DEF Inv, TypeOK
  <2>5. \A b \in Accounts : Exists(b)' /\ users'[b].by # None => Exists(users[b].by)'
    <3>1. \A b \in Accounts : Exists(b) /\ users[b].by # None
                                => users[b].by \in Accounts /\ Exists(users[b].by)
      BY Types DEF Inv, TypeOK, Users
    <3>2. QED BY <1>3, <1>4, <1>8, <3>1 DEF Exists
  <2>6. QED BY <1>5, <2>1, <2>2, <2>3, <2>4, <2>5 DEF Inv, TypeOK
<1>10. FormInv'
  <2>1. \A g : g = NextForm(h) => GoodForm(g)
    BY DEF NextForm, NoForm, GoodForm
  <2>2. QED BY <1>3, <1>4, <1>7, <2>1 DEF Inv, FormInv
<1>11. ASSUME NEW s \in Tasks \ {t}, NEW k, k = task[s], k # Free
       PROVE  StillTrue(k)'
  <2>1. k \in Handlers /\ k.user \in Accounts /\ StillTrue(k)
    BY <1>11, Types DEF Inv, TaskInv, Handlers
  <2>2. h.kind \in FormKinds /\ k.kind \in FormKinds => k.user # a
    BY <1>1, <1>2, <1>5, <1>11, NotEmpty DEF Inv, TaskInv
  <2>3. CASE k.user # a
    BY <1>4, <1>7, <1>8, <2>1, <2>3 DEF StillTrue, Exists
  <2>4. CASE k.user = a
    <3>1. k.kind \in FormKinds => h.kind \notin FormKinds /\ fsm'[a] = fsm[a]
      BY <1>7, <2>2, <2>4
    <3>2. h.kind \in {"role", "subrole"} => h.kind \in FormKinds
      BY DEF FormKinds
    <3>3. k.copy # NoRow /\ ~k.lost =>
            /\ Exists(a)'
            /\ k.copy.name => users'[a].name
            /\ k.kind \in FormKinds /\ k.copy.subrole # None => users'[a].subrole # None
      BY <1>3, <1>4, <1>8, <2>1, <2>4, <3>1, <3>2 DEF StillTrue, Careful, Exists
    <3>4. k.kind \in FormKinds =>
            /\ fsm'[a].state = k.kind
            /\ k.lost /\ Exists(a)' => users'[a].role = "worker"
      BY <1>3, <1>4, <2>1, <2>4, <3>1, <3>2 DEF StillTrue, Careful, Exists
    <3>5. k.kind = "tenant" /\ ~k.lost => k.want.by \in Accounts /\ Exists(k.want.by)'
      BY <1>8, <2>1 DEF StillTrue
    <3>6. QED BY <2>4, <3>3, <3>4, <3>5 DEF StillTrue
  <2>5. QED BY <2>3, <2>4
<1>12. TaskInv'
  <2>1. ASSUME NEW s \in Tasks, task'[s] # Free
        PROVE  GoodWant(task[s])' /\ StillTrue(task[s])'
    <3>1. s \in Tasks \ {t} /\ task'[s] = task[s]
      BY <1>6, <2>1
    <3>2. PICK k : k = task[s]
      OBVIOUS
    <3>3. StillTrue(k)' /\ GoodWant(k)
      BY <1>11, <2>1, <3>1, <3>2 DEF Inv, TaskInv
    <3>4. task'[s] = k
      BY <3>1, <3>2
    <3>5. StillTrue(task[s])'
      BY <3>3, <3>4 DEF StillTrue, Exists
    <3>6. QED BY <3>3, <3>4, <3>5 DEF GoodWant, IsTenant
  <2>2. QED BY <1>6, <2>1 DEF Inv, TaskInv
<1>13. SeatInv'
  <2> SUFFICES ASSUME NEW b \in Accounts, NEW c \in Accounts, b # c,
                      Exists(b)', Exists(c)', Seats(users'[b]), Seats(users'[c]),
                      users'[b].apartment = users'[c].apartment
               PROVE  FALSE
    BY DEF SeatInv, Seats
  <2>1. CASE row = users[a]
    BY <1>4, <2>1 DEF Inv, SeatInv, Exists
  <2>2. CASE SeatFree(a, row)
    BY <1>4, <2>2 DEF Inv, SeatInv, SeatFree, Exists
  <2>3. QED BY <1>3, <2>1, <2>2
<1>14. RightPerson'
  <2>1. ASSUME NEW b \in Accounts \ {a}
        PROVE  users'[b] = users[b] /\ seen'[b] = seen[b]
    BY <1>1, <1>2, <1>4, <2>1 DEF Commit, Inv, TypeOK
  <2>2. PersonRight(row, seen'[a])
    BY <1>1, <1>2, <1>4, CommitPerson
  <2>3. QED BY <1>4, <2>1, <2>2 DEF Inv, RightPerson, PersonRight, Exists
<1>15. QED BY <1>9, <1>10, <1>12, <1>13, <1>14 DEF Inv

(* A rejected account disappears, from approved_by_owner_id too, and the   *)
(* handlers that read it have lost it.                                     *)
LEMMA DeleteStep ==
  ASSUME Inv, NEW t \in Tasks, Delete(t)
  PROVE  Inv'
<1>1. PICK a \in Accounts : a = task[t].user
  BY Types DEF Inv, Delete, Handlers
<1>2. UNCHANGED <<fsm, seen, made>>
  BY DEF Delete
<1>3. users'[a] = NoRow
  BY <1>1 DEF Delete
<1>4. ASSUME NEW b \in Accounts, NEW old, old = users[b], NEW new, new = users'[b],
             new # NoRow
      PROVE  /\ b # a /\ old \in Users /\ new \in Users
             /\ new.role = old.role /\ new.subrole = old.subrole
             /\ new.apartment = old.apartment /\ new.name = old.name
             /\ new.approved = old.approved
             /\ new.by # None => new.by = old.by /\ new.by # a /\ Exists(new.by)
  <2>1. b # a /\ Exists(b) /\ old \in Users
    BY <1>1, <1>4, Types DEF Delete, Inv
  <2>2. new = IF old.by = a THEN [old EXCEPT !.by = None] ELSE old
    BY <1>1, <1>4, <2>1 DEF Delete, Exists
  <2>3. old.by # None => Exists(old.by)
    BY <1>4, <2>1 DEF Inv, TypeOK
  <2>4. QED BY <2>1, <2>2, <2>3 DEF Users
<1>5. ASSUME NEW b \in Accounts, b # a, Exists(b)
      PROVE  /\ Exists(b)'
             /\ users'[b].role = users[b].role /\ users'[b].subrole = users[b].subrole
             /\ users'[b].name = users[b].name
  <2>1. users[b] \in Users
    BY <1>5, Types DEF Inv
  <2>2. users'[b] = users[b] \/ users'[b] = [users[b] EXCEPT !.by = None]
    BY <1>1, <1>5 DEF Delete, Exists
  <2>3. [users[b] EXCEPT !.by = None] \in Users
    BY <2>1 DEF Users
  <2>4. QED BY <2>1, <2>2, <2>3, NotEmpty DEF Exists, Users
<1>6. ASSUME NEW s \in Tasks, NEW new, new = task'[s], new # Free
      PROVE  /\ s # t /\ task[s] # Free /\ new \in Handlers
             /\ new.kind = task[s].kind /\ new.user = task[s].user
             /\ GoodWant(new) /\ StillTrue(new)'
  <2>1. PICK old : old = task[s]
    OBVIOUS
  <2>2. s # t /\ old # Free
        /\ new = IF Concerns(old, a) THEN [old EXCEPT !.lost = TRUE] ELSE old
    BY <1>1, <1>6, <2>1 DEF Delete, Concerns
  <2>3. old \in Handlers /\ GoodWant(old) /\ StillTrue(old)
    BY <2>1, <2>2, Types DEF Inv, TaskInv
  <2>4. /\ new.kind = old.kind /\ new.user = old.user /\ new.copy = old.copy
        /\ new.want = old.want /\ new.seen = old.seen /\ new \in Handlers
        /\ new.lost = (old.lost \/ Concerns(old, a))
    BY <2>2, <2>3 DEF Handlers
  <2>5. GoodWant(new)
    BY <2>3, <2>4 DEF GoodWant, IsTenant
  <2>6. new.user \in Accounts /\ (new.user = a => new.lost)
    BY <2>2, <2>3, <2>4 DEF Handlers, Concerns
  <2>7. new.copy # NoRow /\ ~new.lost =>
          /\ Exists(new.user)'
          /\ new.copy.name => users'[new.user].name
          /\ new.kind \in FormKinds /\ new.copy.subrole # None
               => users'[new.user].subrole # None
    BY <1>5, <2>3, <2>4, <2>6 DEF StillTrue
  <2>8. new.kind \in FormKinds =>
          /\ fsm'[new.user].state = new.kind
          /\ new.lost /\ Exists(new.user)' => users'[new.user].role = "worker"
    <3>1. CASE new.user = a
      BY <1>2, <1>3, <2>3, <2>4, <3>1 DEF StillTrue, Exists
    <3>2. CASE new.user # a /\ new.kind \in FormKinds
      <4>1. "tenant" \notin FormKinds
        BY DEF FormKinds
      <4>2. new.lost = old.lost
        BY <2>3, <2>4, <3>2, <4>1 DEF Concerns, Handlers
      <4>3. Exists(new.user)' => Exists(new.user)
        BY <1>4, <2>6, NotEmpty DEF Exists
      <4>4. QED BY <1>2, <1>5, <2>3, <2>4, <2>6, <3>2, <4>2, <4>3 DEF StillTrue
    <3>3. QED BY <3>1, <3>2
  <2>9. new.kind = "tenant" /\ ~new.lost => new.want.by \in Accounts /\ Exists(new.want.by)'
    BY <1>5, <2>2, <2>3, <2>4 DEF StillTrue, Concerns
  <2>10. StillTrue(new)'
    BY <2>7, <2>8, <2>9 DEF StillTrue
  <2>11. QED BY <2>1, <2>2, <2>4, <2>5, <2>10
<1>7. TypeOK'
  <2>1. users' \in [Accounts -> Users \cup {NoRow}]
    BY <1>4 DEF Delete
  <2>2. task' \in [Tasks -> Handlers \cup {Free}]
    BY <1>6 DEF Delete
  <2>3. \A b \in Accounts : Exists(b)' /\ users'[b].by # None => Exists(users[b].by)'
    <3>1. ASSUME NEW b \in Accounts, Exists(b)', users'[b].by # None
          PROVE  Exists(users[b].by)'
      <4>1. users'[b].by # a /\ Exists(users'[b].by) /\ users'[b].by \in Accounts
        BY <1>4, <3>1 DEF Exists, Users
      <4>2. QED BY <1>5, <4>1
    <3>2. QED BY <3>1
  <2>4. QED BY <1>2, <2>1, <2>2, <2>3 DEF Inv, TypeOK
<1>8. FormInv'
  <2>1. ASSUME NEW b \in Accounts
        PROVE  GoodRow(users'[b], fsm[b])
    <3>1. PICK old, new : old = users[b] /\ new = users'[b]
      OBVIOUS
    <3>2. GoodRow(old, fsm[b])
      BY <3>1 DEF Inv, FormInv
    <3>3. GoodRow(new, fsm[b])
      BY <1>4, <3>1, <3>2, NotEmpty DEF GoodRow
    <3>4. QED BY <3>1, <3>3
  <2>2. QED BY <1>2, <2>1 DEF Inv, FormInv
<1>9. TaskInv'
  <2>1. ASSUME NEW s \in Tasks, task'[s] # Free
        PROVE  GoodWant(task[s])' /\ StillTrue(task[s])'
    <3>1. PICK new : new = task'[s]
      OBVIOUS
    <3>2. GoodWant(new) /\ StillTrue(new)'
      BY <1>6, <2>1, <3>1
    <3>3. QED BY <3>1, <3>2 DEF GoodWant, IsTenant, StillTrue, Exists
  <2>2. ASSUME NEW s \in Tasks, task'[s] # Free
        PROVE  task[s] # Free /\ task'[s].kind = task[s].kind /\ task'[s].user = task[s].user
    BY <1>6, <2>2
  <2>3. QED BY <2>1, <2>2 DEF Inv, TaskInv
<1>10. SeatInv'
  <2>1. ASSUME NEW b \in Accounts, Exists(b)'
        PROVE  Exists(b) /\ (Seats(users'[b]) => Seats(users[b]))
               /\ users'[b].apartment = users[b].apartment
    BY <1>4, <2>1, NotEmpty DEF Exists, Seats
  <2>2. QED BY <2>1 DEF Inv, SeatInv, Seats
<1>11. RightPerson'
  <2>1. ASSUME NEW b \in Accounts, Exists(b)'
        PROVE  /\ Exists(b) /\ users'[b].role = users[b].role
               /\ users'[b].subrole = users[b].subrole
               /\ users'[b].apartment = users[b].apartment
               /\ users'[b].approved = users[b].approved
    BY <1>4, <2>1, NotEmpty DEF Exists
  <2>2. QED BY <1>2, <2>1 DEF Inv, RightPerson
<1>12. QED BY <1>7, <1>8, <1>9, <1>10, <1>11 DEF Inv

(* A handler that raises leaves nothing behind.                            *)
LEMMA RaiseStep ==
  ASSUME Inv, NEW t \in Tasks, Raise(t)
  PROVE  Inv'
<1>1. \A s \in Tasks : task'[s] = Free \/ task'[s] = task[s]
  BY DEF Raise, Done, Inv, TypeOK
<1>2. \A a : (Exists(a)' <=> Exists(a)) /\ users'[a] = users[a] /\ fsm'[a] = fsm[a]
             /\ seen'[a] = seen[a]
  BY DEF Raise, Exists
<1>3. TypeOK'
  <2>1. task' \in [Tasks -> Handlers \cup {Free}]
    BY DEF Raise, Done, Inv, TypeOK
  <2>2. UNCHANGED <<users, fsm, seen, made>>
    BY DEF Raise
  <2>3. QED BY <2>1, <2>2 DEF Inv, TypeOK, Exists
<1>4. FormInv'
  BY <1>2 DEF Inv, FormInv
<1>5. ASSUME NEW s \in Tasks, task'[s] # Free
      PROVE  GoodWant(task[s])' /\ StillTrue(task[s])'
  <2>1. PICK k : k = task'[s]
    OBVIOUS
  <2>2. GoodWant(k) /\ StillTrue(k)
    BY <1>1, <1>5, <2>1 DEF Inv, TaskInv
  <2>3. StillTrue(k)'
    BY <1>2, <2>2 DEF StillTrue
  <2>4. QED BY <2>1, <2>2, <2>3 DEF GoodWant, IsTenant, StillTrue, Exists
<1>6. TaskInv'
  BY <1>1, <1>5 DEF Inv, TaskInv
<1>7. SeatInv' /\ RightPerson'
  BY <1>2 DEF Inv, SeatInv, Seats, RightPerson, Exists
<1>8. QED BY <1>3, <1>4, <1>6, <1>7 DEF Inv

-----------------------------------------------------------------------------
(* The steps of the form that only one handler takes.                      *)
LEMMA FormActions ==
  ASSUME Inv, NEW a \in Accounts,
         Start(a) \/ SetLanguage(a) \/ Cancel(a) \/ WithoutRow(a) \/ RegName(a)
  PROVE  Inv'
<1> DEFINE Forms == [state : States, role : Roles \cup {None}]
<1>1. /\ fsm[a] \in Forms /\ GoodRow(users[a], fsm[a]) /\ GoodForm(fsm[a])
      /\ users[a] \in Users \/ (users[a] = NoRow /\ ~Exists(a))
      /\ users = [users EXCEPT ![a] = users[a]]
  BY DEF Inv, TypeOK, FormInv, Exists
<1>2. /\ NoForm \in Forms /\ GoodForm(NoForm) /\ NoForm.state = "none"
      /\ \A u, form : GoodRow(u, form) => GoodRow(u, NoForm)
  BY DEF NoForm, States, GoodForm, GoodRow
<1>3. /\ NewRow \in Users /\ ~NewRow.approved /\ NewRow.by = None
      /\ \A form : form.state \notin {"name", "apartment"} => GoodRow(NewRow, form)
      /\ Blank(NewRow)
  BY NotEmpty DEF NewRow, GoodRow, Blank
<1>4. CASE Start(a)
  <2>1. PICK u : u = IF Exists(a) THEN users[a] ELSE NewRow
    OBVIOUS
  <2>2. /\ u \in Users /\ u # NoRow
        /\ u = users[a] \/ (~Exists(a) /\ u \in Users /\ ~u.approved /\ u.by = None)
        /\ \E form : GoodRow(u, form)
    BY <1>1, <1>2, <1>3, <2>1, NotEmpty DEF Exists
  <2>3. /\ Quiet(a) /\ users' = [users EXCEPT ![a] = u] /\ UNCHANGED <<task, seen, made>>
        /\ CASE u.approved -> Leave(a)
             [] Blank(u) -> Form(a, "role", None)
             [] ~u.approved /\ ~Blank(u) /\ u.role = "resident" /\ u.subrole = None ->
                  Form(a, "subrole", "resident")
             [] OTHER -> IF u.name THEN Leave(a) ELSE Form(a, "name", u.role)
    BY <1>4, <2>1 DEF Start
  <2>4. u.role \in Roles
    BY <2>2 DEF Users
  <2>5. PICK g \in Forms : fsm' = [fsm EXCEPT ![a] = g] /\ GoodRow(u, g) /\ GoodForm(g)
    <3>1. CASE Leave(a)
      BY <1>2, <2>2, <3>1 DEF Leave
    <3>2. CASE Blank(u) /\ Form(a, "role", None)
      <4> DEFINE g == [state |-> "role", role |-> None]
      <4>1. g \in Forms /\ GoodRow(u, g) /\ GoodForm(g)
        BY <2>2, <3>2 DEF Blank, GoodRow, GoodForm, States
      <4>2. QED BY <3>2, <4>1 DEF Form
    <3>3. CASE u.role = "resident" /\ u.subrole = None /\ Form(a, "subrole", "resident")
      <4> DEFINE g == [state |-> "subrole", role |-> "resident"]
      <4>1. g \in Forms /\ GoodRow(u, g) /\ GoodForm(g)
        BY <2>2, <3>3 DEF GoodRow, GoodForm, States, Roles
      <4>2. QED BY <3>3, <4>1 DEF Form
    <3>4. CASE /\ ~(u.role = "resident" /\ u.subrole = None)
               /\ ~u.name /\ Form(a, "name", u.role)
      <4> DEFINE g == [state |-> "name", role |-> u.role]
      <4>1. g \in Forms /\ GoodRow(u, g) /\ GoodForm(g)
        BY <2>2, <2>4, <3>4 DEF GoodRow, GoodForm, States
      <4>2. QED BY <3>4, <4>1 DEF Form
    <3>5. QED BY <2>3, <3>1, <3>2, <3>3, <3>4
  <2>6. QED BY <2>2, <2>3, <2>5, FormStep
<1>5. CASE SetLanguage(a)
  <2> DEFINE u == [NewRow EXCEPT !.name = TRUE]
             g == [state |-> "subrole", role |-> "resident"]
  <2>1. u \in Users /\ ~u.approved /\ u.by = None /\ GoodRow(u, g)
    BY NotEmpty DEF NewRow, Users, GoodRow
  <2>2. g \in Forms /\ GoodForm(g)
    BY DEF States, Roles, GoodForm
  <2>3. /\ Quiet(a) /\ ~Exists(a) /\ users' = [users EXCEPT ![a] = u]
        /\ fsm' = [fsm EXCEPT ![a] = g] /\ UNCHANGED <<task, seen, made>>
    BY <1>5 DEF SetLanguage, Form
  <2> HIDE DEF u, g
  <2>4. QED BY <2>1, <2>2, <2>3, FormStep
<1>6. CASE Cancel(a)
  <2>1. /\ Quiet(a) /\ fsm' = [fsm EXCEPT ![a] = NoForm]
        /\ users' = [users EXCEPT ![a] = users[a]] /\ UNCHANGED <<task, seen, made>>
    BY <1>1, <1>6 DEF Cancel, Leave
  <2>2. QED BY <1>1, <1>2, <2>1, FormStep
<1>7. CASE WithoutRow(a)
  <2>1. \A form : GoodRow(users[a], form)
    BY <1>7 DEF WithoutRow, Exists, GoodRow
  <2>2. PICK g \in Forms : fsm' = [fsm EXCEPT ![a] = g] /\ GoodForm(g)
    BY <1>2, <1>7 DEF WithoutRow, Form, Leave, States, Roles, GoodForm
  <2>3. /\ Quiet(a) /\ users' = [users EXCEPT ![a] = users[a]]
        /\ UNCHANGED <<task, seen, made>>
    BY <1>1, <1>7 DEF WithoutRow
  <2>4. QED BY <2>1, <2>2, <2>3, FormStep
<1>8. CASE RegName(a)
  <2> DEFINE g == [state |-> IF fsm[a].role = "worker" THEN "category" ELSE "apartment",
                   role |-> fsm[a].role]
  <2>1. g \in Forms /\ GoodForm(g)
    BY <1>1 DEF States, GoodForm
  <2>2. GoodRow(users[a], g)
    BY <1>1, <1>8 DEF RegName, GoodRow
  <2>3. /\ Quiet(a) /\ users' = [users EXCEPT ![a] = users[a]]
        /\ fsm' = [fsm EXCEPT ![a] = g] /\ UNCHANGED <<task, seen, made>>
    BY <1>1, <1>8 DEF RegName, Form
  <2> HIDE DEF g
  <2>4. QED BY <2>1, <2>2, <2>3, FormStep
<1>9. QED BY <1>4, <1>5, <1>6, <1>7, <1>8

(* A handler begins.                                                       *)
LEMMA BeginRow ==
  ASSUME Inv, NEW t \in Tasks, NEW a \in Accounts, NEW kind \in Kinds, NEW want \in Users,
         NEW by \in Seen, Begin(t, kind, a, want, by),
         NEW h, h = [kind |-> kind, user |-> a, copy |-> users[a], want |-> want,
                     seen |-> by, lost |-> FALSE],
         GoodWant(h),
         kind \in FormKinds => Quiet(a) /\ Exists(a) /\ fsm[a].state = kind,
         kind = "tenant" => want.by \in Accounts /\ Exists(want.by),
         made' \in 0..MaxDecisions, UNCHANGED <<users, fsm, seen>>
  PROVE  Inv'
<1>1. h \in Handlers
  BY DEF Inv, TypeOK, Handlers
<1>2. StillTrue(h)
  BY DEF StillTrue, Exists
<1>3. QED BY <1>1, <1>2, BeginStep DEF Begin

(* A dispatcher sees the flat that is in the row, if any.                   *)
LEMMA DispatcherType ==
  ASSUME Inv, NEW a \in Accounts
  PROVE  Dispatcher(a) \in Seen
BY Types DEF Inv, Dispatcher, Seen, Users

(* Decisions are counted up to the bound.                                  *)
LEMMA MadeType ==
  ASSUME Inv
  PROVE  /\ Decide => made' \in 0..MaxDecisions /\ UNCHANGED <<users, fsm, seen>>
         /\ UNCHANGED made => made' \in 0..MaxDecisions
<1>1. made \in 0..MaxDecisions /\ MaxDecisions \in Nat
  BY ParticipantsAssumption DEF Inv, TypeOK
<1>2. QED BY <1>1 DEF Decide

(* The steps of the form that read a row first.                            *)
LEMMA FormBegins ==
  ASSUME Inv, NEW a \in Accounts, NEW t \in Tasks,
         \/ \E r \in Roles : RegRole(t, a, r)
         \/ \E s \in Subroles : RegSubrole(t, a, s)
         \/ RegCategory(t, a)
         \/ \E f \in Flats : RegApartment(t, a, f)
  PROVE  Inv'
<1>1. PICK u \in Users : u = users[a] /\ Exists(a) /\ u # NoRow
  BY Types, NotEmpty DEF Inv, RegRole, RegSubrole, RegCategory, RegApartment
<1>2. UNCHANGED <<users, fsm, seen>> /\ made' \in 0..MaxDecisions
  BY MadeType DEF RegRole, RegSubrole, RegCategory, RegApartment
<1>3. ASSUME NEW r \in Roles, RegRole(t, a, r)
      PROVE  Inv'
  <2> DEFINE want == [u EXCEPT !.role = r, !.subrole = None, !.by = None]
             h == [kind |-> "role", user |-> a, copy |-> users[a], want |-> want,
                   seen |-> Dispatcher(a), lost |-> FALSE]
  <2>1. want \in Users /\ want.name = u.name /\ want.apartment = u.apartment
        /\ want.approved = u.approved /\ want.by = None
    BY DEF Users
  <2>2. GoodWant(h)
    BY <1>1, <2>1 DEF GoodWant, Approvals
  <2>3. Begin(t, "role", a, want, Dispatcher(a)) /\ Quiet(a) /\ fsm[a].state = "role"
    BY <1>1, <1>3 DEF RegRole
  <2> HIDE DEF want
  <2>4. QED BY <1>1, <1>2, <2>1, <2>2, <2>3, BeginRow, DispatcherType DEF Kinds, FormKinds
<1>4. ASSUME NEW s \in Subroles, RegSubrole(t, a, s)
      PROVE  Inv'
  <2> DEFINE want == [u EXCEPT !.role = "resident", !.subrole = s, !.by = None]
             h == [kind |-> "subrole", user |-> a, copy |-> users[a], want |-> want,
                   seen |-> Dispatcher(a), lost |-> FALSE]
  <2>1. want \in Users /\ want.name = u.name /\ want.apartment = u.apartment
        /\ want.approved = u.approved /\ want.by = None /\ want.subrole = s
    BY DEF Users, Roles
  <2>2. s # None
    BY ParticipantsAssumption
  <2>3. GoodWant(h)
    BY <1>1, <2>1, <2>2 DEF GoodWant, Approvals
  <2>4. Begin(t, "subrole", a, want, Dispatcher(a)) /\ Quiet(a) /\ fsm[a].state = "subrole"
    BY <1>1, <1>4 DEF RegSubrole
  <2> HIDE DEF want
  <2>5. QED BY <1>1, <1>2, <2>1, <2>3, <2>4, BeginRow, DispatcherType DEF Kinds, FormKinds
<1>5. CASE RegCategory(t, a)
  <2> DEFINE want == [u EXCEPT !.name = TRUE, !.category = TRUE, !.role = "worker",
                               !.approved = FALSE]
             h == [kind |-> "category", user |-> a, copy |-> users[a], want |-> want,
                   seen |-> Dispatcher(a), lost |-> FALSE]
  <2>1. want \in Users /\ want.name /\ want.apartment = u.apartment
        /\ ~want.approved /\ want.by = u.by /\ want.subrole = u.subrole
        /\ want.role = "worker"
    BY DEF Users, Roles
  <2>2. GoodWant(h)
    BY <1>1, <2>1 DEF GoodWant, Approvals
  <2>3. Begin(t, "category", a, want, Dispatcher(a)) /\ Quiet(a) /\ fsm[a].state = "category"
    BY <1>1, <1>5 DEF RegCategory
  <2> HIDE DEF want
  <2>4. QED BY <1>1, <1>2, <2>1, <2>2, <2>3, BeginRow, DispatcherType DEF Kinds, FormKinds
<1>6. ASSUME NEW f \in Flats, RegApartment(t, a, f)
      PROVE  Inv'
  <2> DEFINE want == [u EXCEPT !.name = TRUE, !.apartment = f, !.approved = FALSE]
             h == [kind |-> "apartment", user |-> a, copy |-> users[a], want |-> want,
                   seen |-> Dispatcher(a), lost |-> FALSE]
  <2>1. want \in Users /\ want.name /\ ~want.approved /\ want.by = u.by
        /\ want.subrole = u.subrole /\ want.role = u.role
    BY DEF Users
  <2>2. GoodWant(h)
    BY <1>1, <2>1 DEF GoodWant, Approvals
  <2>3. Begin(t, "apartment", a, want, Dispatcher(a)) /\ Quiet(a)
        /\ fsm[a].state = "apartment"
    BY <1>1, <1>6 DEF RegApartment
  <2> HIDE DEF want
  <2>4. QED BY <1>1, <1>2, <2>1, <2>2, <2>3, BeginRow, DispatcherType DEF Kinds, FormKinds
<1>7. QED BY <1>3, <1>4, <1>5, <1>6

(* The decisions, and the shift of a worker.                               *)
LEMMA DecisionBegins ==
  ASSUME Inv, NEW a \in Accounts, NEW t \in Tasks,
         Approve(t, a) \/ Reject(t, a) \/ Revoke(t, a) \/ ToggleShift(t, a)
  PROVE  Inv'
<1>1. PICK u \in Users : u = users[a] /\ Exists(a) /\ u # NoRow
  BY Types, NotEmpty DEF Inv, Approve, Reject, Revoke, ToggleShift
<1>2. UNCHANGED <<users, fsm, seen>> /\ made' \in 0..MaxDecisions
  BY MadeType DEF Approve, Reject, Revoke, ToggleShift
<1>3. CASE Approve(t, a)
  <2>1. PICK sub \in Subroles \cup {None} :
          sub = IF u.role = "resident" /\ u.subrole = None THEN "owner" ELSE u.subrole
    BY DEF Users, Subroles
  <2> DEFINE want == [u EXCEPT !.approved = TRUE, !.subrole = sub]
             h == [kind |-> "approve", user |-> a, copy |-> users[a], want |-> want,
                   seen |-> Dispatcher(a), lost |-> FALSE]
  <2>2. want \in Users /\ want.name = u.name /\ want.apartment = u.apartment
        /\ want.by = u.by /\ want.role = u.role /\ want.subrole = sub
    BY DEF Users
  <2>3. ~IsTenant(u)
    BY <1>1, <1>3 DEF Approve
  <2>4. GoodWant(h)
    <3>1. Dispatcher(a) = [who |-> "dispatcher", flat |-> want.apartment]
      BY <1>1, <2>2 DEF Dispatcher
    <3>2. ~IsTenant(want)
      BY <2>1, <2>2, <2>3 DEF IsTenant
    <3> HIDE DEF want
    <3>3. QED BY <1>1, <2>1, <2>2, <3>1, <3>2 DEF GoodWant, Approvals
  <2>5. Begin(t, "approve", a, want, Dispatcher(a))
    BY <1>1, <1>3, <2>1 DEF Approve
  <2> HIDE DEF want
  <2>6. QED BY <1>1, <1>2, <2>2, <2>4, <2>5, BeginRow, DispatcherType
            DEF Kinds, FormKinds, Approvals
<1>4. CASE Reject(t, a)
  <2> DEFINE h == [kind |-> "reject", user |-> a, copy |-> users[a], want |-> u,
                   seen |-> Dispatcher(a), lost |-> FALSE]
  <2>1. GoodWant(h)
    BY <1>1 DEF GoodWant
  <2>2. Begin(t, "reject", a, u, Dispatcher(a))
    BY <1>1, <1>4 DEF Reject
  <2>3. QED BY <1>1, <1>2, <2>1, <2>2, BeginRow, DispatcherType DEF Kinds, FormKinds
<1>5. CASE Revoke(t, a)
  <2> DEFINE want == [u EXCEPT !.approved = FALSE, !.shift = FALSE, !.by = None]
             h == [kind |-> "revoke", user |-> a, copy |-> users[a], want |-> want,
                   seen |-> Dispatcher(a), lost |-> FALSE]
  <2>1. want \in Users /\ want.name = u.name /\ want.apartment = u.apartment
        /\ want.by = None /\ want.role = u.role /\ want.subrole = u.subrole
        /\ ~want.approved
    BY DEF Users
  <2>2. GoodWant(h)
    BY <1>1, <2>1 DEF GoodWant, Approvals
  <2>3. Begin(t, "revoke", a, want, Dispatcher(a))
    BY <1>1, <1>5 DEF Revoke
  <2> HIDE DEF want
  <2>4. QED BY <1>1, <1>2, <2>1, <2>2, <2>3, BeginRow, DispatcherType DEF Kinds, FormKinds
<1>6. CASE ToggleShift(t, a)
  <2> DEFINE want == [u EXCEPT !.shift = ~@]
             h == [kind |-> "shift", user |-> a, copy |-> users[a], want |-> want,
                   seen |-> Dispatcher(a), lost |-> FALSE]
  <2>1. want \in Users /\ want.name = u.name /\ want.apartment = u.apartment
        /\ want.by = u.by /\ want.role = u.role /\ want.subrole = u.subrole
        /\ want.approved = u.approved
    BY DEF Users
  <2>2. u.role = "worker"
    BY <1>1, <1>6 DEF ToggleShift
  <2>3. GoodWant(h)
    BY <1>1, <2>1, <2>2 DEF GoodWant, Approvals
  <2>4. Begin(t, "shift", a, want, Dispatcher(a))
    BY <1>1, <1>6 DEF ToggleShift
  <2> HIDE DEF want
  <2>5. QED BY <1>1, <1>2, <2>1, <2>3, <2>4, BeginRow, DispatcherType DEF Kinds, FormKinds
<1>7. QED BY <1>3, <1>4, <1>5, <1>6

(* A worker is added, known or not.                                        *)
LEMMA AddBegins ==
  ASSUME Inv, NEW a \in Accounts, NEW t \in Tasks, AddWorker(t, a)
  PROVE  Inv'
<1>1. PICK u \in Users : u = IF Exists(a) THEN users[a] ELSE NewRow
  BY Types, NotEmpty DEF Inv
<1> DEFINE want == [u EXCEPT !.role = "worker", !.category = TRUE, !.approved = TRUE,
                             !.shift = FALSE]
           h == [kind |-> "add", user |-> a, copy |-> users[a], want |-> want,
                 seen |-> Dispatcher(a), lost |-> FALSE]
<1>2. want \in Users /\ want.name = u.name /\ want.apartment = u.apartment
      /\ want.by = u.by /\ want.role = "worker" /\ want.subrole = u.subrole
  BY DEF Users, Roles
<1>3. users[a] = NoRow => u.apartment = None /\ u.by = None
  BY <1>1 DEF NewRow, Exists
<1>4. users[a] # NoRow => u = users[a]
  BY <1>1 DEF Exists
<1>5. GoodWant(h)
  BY <1>2, <1>3, <1>4 DEF GoodWant, Approvals
<1>6. Begin(t, "add", a, want, Dispatcher(a)) /\ UNCHANGED <<users, fsm, seen>>
      /\ made' \in 0..MaxDecisions
  BY <1>1, MadeType DEF AddWorker
<1> HIDE DEF want
<1>7. QED BY <1>2, <1>5, <1>6, BeginRow, DispatcherType DEF Kinds, FormKinds, Approvals

(* An owner approves or revokes the tenant of his flat.                    *)
LEMMA TenantBegins ==
  ASSUME Inv, NEW a \in Accounts, NEW o \in Accounts, NEW t \in Tasks,
         ApproveTenant(t, o, a) \/ RevokeTenant(t, o, a)
  PROVE  Inv'
<1>1. PICK u \in Users : u = users[a] /\ Exists(a) /\ u # NoRow
  BY Types, NotEmpty DEF Inv, ApproveTenant, RevokeTenant
<1>2. UNCHANGED <<users, fsm, seen>> /\ made' \in 0..MaxDecisions
  BY MadeType DEF ApproveTenant, RevokeTenant
<1>3. CASE ApproveTenant(t, o, a)
  <2> DEFINE want == [u EXCEPT !.approved = TRUE, !.by = o]
             by == [who |-> "owner", flat |-> users[o].apartment]
             h == [kind |-> "tenant", user |-> a, copy |-> users[a], want |-> want,
                   seen |-> by, lost |-> FALSE]
  <2>1. want \in Users /\ want.name = u.name /\ want.apartment = u.apartment
        /\ want.by = o /\ want.role = u.role /\ want.subrole = u.subrole
    BY DEF Users
  <2>2. IsTenant(u) /\ users[o].apartment = u.apartment /\ Exists(o)
    BY <1>1, <1>3 DEF ApproveTenant
  <2>3. GoodWant(h)
    BY <1>1, <2>1, <2>2 DEF GoodWant, Approvals, IsTenant
  <2>4. by \in Seen
    BY <2>2 DEF Seen, Users
  <2>5. Begin(t, "tenant", a, want, by)
    BY <1>1, <1>3 DEF ApproveTenant
  <2> HIDE DEF want, by
  <2>6. QED BY <1>1, <1>2, <2>1, <2>2, <2>3, <2>4, <2>5, BeginRow
            DEF Kinds, FormKinds, Approvals
<1>4. CASE RevokeTenant(t, o, a)
  <2> DEFINE want == [u EXCEPT !.approved = FALSE, !.by = None]
             h == [kind |-> "revoke", user |-> a, copy |-> users[a], want |-> want,
                   seen |-> Dispatcher(a), lost |-> FALSE]
  <2>1. want \in Users /\ want.name = u.name /\ want.apartment = u.apartment
        /\ want.by = None /\ want.role = u.role /\ want.subrole = u.subrole
        /\ ~want.approved
    BY DEF Users
  <2>2. GoodWant(h)
    BY <1>1, <2>1 DEF GoodWant, Approvals
  <2>3. Begin(t, "revoke", a, want, Dispatcher(a))
    BY <1>1, <1>4 DEF RevokeTenant
  <2> HIDE DEF want
  <2>4. QED BY <1>1, <1>2, <2>1, <2>2, <2>3, BeginRow, DispatcherType DEF Kinds, FormKinds
<1>5. QED BY <1>3, <1>4

-----------------------------------------------------------------------------
(* Every step keeps the invariant.                                         *)
LEMMA InvNext == Inv /\ [Next]_vars => Inv'
<1> SUFFICES ASSUME Inv, [Next]_vars PROVE Inv'
  OBVIOUS
<1>1. ASSUME NEW a \in Accounts, Register(a)
      PROVE  Inv'
  BY <1>1, FormActions, FormBegins DEF Register
<1>2. ASSUME NEW a \in Accounts, NEW t \in Tasks, Judge(t, a) \/ ToggleShift(t, a)
      PROVE  Inv'
  BY <1>2, DecisionBegins, AddBegins, TenantBegins DEF Judge
<1>3. ASSUME NEW t \in Tasks, Commit(t) \/ Delete(t) \/ Raise(t)
      PROVE  Inv'
  BY <1>3, CommitStep, DeleteStep, RaiseStep
<1>4. CASE UNCHANGED vars
  <2>1. UNCHANGED <<users, fsm, task, seen, made>>
    BY <1>4 DEF vars
  <2>2. TypeOK' /\ FormInv' /\ SeatInv' /\ RightPerson'
    BY <2>1 DEF Inv, TypeOK, FormInv, SeatInv, RightPerson, Exists
  <2>3. ASSUME NEW t \in Tasks, task'[t] # Free
        PROVE  GoodWant(task[t])' /\ StillTrue(task[t])'
    <3>1. PICK h : h = task[t] /\ h = task'[t]
      BY <2>1
    <3>2. GoodWant(h) /\ StillTrue(h)
      BY <2>3, <3>1 DEF Inv, TaskInv
    <3>3. StillTrue(h)'
      BY <2>1, <3>2 DEF StillTrue, Exists
    <3>4. QED BY <3>1, <3>2, <3>3 DEF GoodWant, IsTenant, StillTrue, Exists
  <2>4. TaskInv'
    BY <2>1, <2>3 DEF Inv, TaskInv
  <2>5. QED BY <2>2, <2>4 DEF Inv
<1>5. QED BY <1>1, <1>2, <1>3, <1>4 DEF Next

(* The invariant holds in every state.                                     *)
LEMMA InvCorrect == Spec => []Inv
BY InvInit, InvNext, PTL DEF Spec

(* TypeOK: every variable keeps its type, and approved_by_owner_id names   *)
(* somebody in the table.                                                  *)
THEOREM TypeCorrect == Spec => []TypeOK
<1>1. Inv => TypeOK
  BY DEF Inv
<1>2. QED BY <1>1, InvCorrect, PTL

(* RightPerson: an approved resident was approved for the flat he has, by  *)
(* an owner if he is a tenant and by a dispatcher otherwise, unless an     *)
(* UPDATE was based on a row that had changed.                             *)
THEOREM PersonCorrect == Spec => []RightPerson
<1>1. Inv => RightPerson
  BY DEF Inv
<1>2. QED BY <1>1, InvCorrect, PTL

(* OneTenant: with the index of migration 06 a flat has one approved       *)
(* tenant at most, whoever counted the tenants before.                     *)
THEOREM TenantCorrect == Spec => []OneTenant
<1>1. ASSUME SeatInv PROVE OneTenant
  <2> SUFFICES ASSUME NEW f \in Flats
               PROVE  Cardinality(TenantsOf(f)) <= 1
    BY DEF OneTenant
  <2>1. \A a, b \in TenantsOf(f) : a = b
    BY <1>1, NotEmpty DEF TenantsOf, SeatInv, Seats, IsTenant
  <2>2. CASE TenantsOf(f) = {}
    BY <2>2, FS_EmptySet
  <2>3. CASE TenantsOf(f) # {}
    <3>1. PICK a : TenantsOf(f) = {a}
      BY <2>1, <2>3
    <3>2. QED BY <3>1, FS_Singleton
  <2>4. QED BY <2>2, <2>3
<1>2. Inv => OneTenant
  BY <1>1 DEF Inv
<1>3. QED BY <1>2, InvCorrect, PTL

(* Only the COMMIT of an approval gives access.                            *)
LEMMA ApprovalStep ==
  ASSUME Inv, Next, NEW a \in Accounts, Approved(a)', ~Approved(a)
  PROVE  \E t \in Tasks : /\ task[t] # Free /\ task'[t] = Free
                          /\ task[t].kind \in Approvals /\ task[t].user = a
<1>1. users'[a] # NoRow /\ users'[a].approved /\ users'[a] # users[a]
  BY DEF Approved, Exists
<1>2. ASSUME NEW b \in Accounts, Register(b) PROVE FALSE
  <2>1. CASE Start(b)
    <3>1. users'[a] = NewRow \/ users'[a] = users[a]
      BY <2>1 DEF Start, Inv, TypeOK
    <3>2. QED BY <1>1, <3>1 DEF NewRow
  <2>2. CASE SetLanguage(b)
    <3>1. users'[a] = [NewRow EXCEPT !.name = TRUE] \/ users'[a] = users[a]
      BY <2>2 DEF SetLanguage, Inv, TypeOK
    <3>2. QED BY <1>1, <3>1 DEF NewRow
  <2>3. CASE UNCHANGED users
    BY <1>1, <2>3
  <2>4. QED BY <1>2, <2>1, <2>2, <2>3 DEF Register, Cancel, WithoutRow, RegName, RegRole,
               RegSubrole, RegCategory, RegApartment
<1>3. ASSUME NEW b \in Accounts, NEW t \in Tasks, Judge(t, b) \/ ToggleShift(t, b)
      PROVE  FALSE
  BY <1>1, <1>3 DEF Judge, Approve, Reject, AddWorker, Revoke, ApproveTenant, RevokeTenant,
     ToggleShift, Decide
<1>4. ASSUME NEW t \in Tasks, Delete(t) PROVE FALSE
  <2>1. Exists(a) /\ users'[a] = [users[a] EXCEPT !.by = None]
    BY <1>1, <1>4 DEF Delete
  <2>2. users[a] \in Users
    BY <2>1, Types DEF Inv
  <2>3. users'[a].approved = users[a].approved
    BY <2>1, <2>2 DEF Users
  <2>4. QED BY <2>1, <2>3 DEF Approved
<1>5. ASSUME NEW t \in Tasks, Raise(t) PROVE FALSE
  BY <1>1, <1>5 DEF Raise
<1>6. ASSUME NEW t \in Tasks, Commit(t)
      PROVE  /\ task[t] # Free /\ task'[t] = Free
             /\ task[t].kind \in Approvals /\ task[t].user = a
  <2>1. task[t] # Free /\ task'[t] = Free
    BY <1>6 DEF Commit, Done, Inv, TypeOK
  <2>2. PICK h : h = task[t]
    OBVIOUS
  <2>3. PICK row :
          /\ users' = [users EXCEPT ![h.user] = row]
          /\ h.kind \notin Approvals /\ row # NoRow /\ row.approved
               => Exists(h.user) /\ users[h.user].approved
    BY <1>6, <2>2, CommitRow
  <2>4. h.user = a /\ users'[a] = row
    BY <1>1, <2>3 DEF Inv, TypeOK
  <2>5. QED BY <1>1, <2>1, <2>2, <2>3, <2>4 DEF Approved
<1>7. QED BY <1>2, <1>3, <1>4, <1>5, <1>6 DEF Next

(* OnlyApprovalsApprove: no other COMMIT gives access, above all not one   *)
(* that read an account before its access was revoked.                     *)
THEOREM ApprovalsCorrect == Spec => OnlyApprovalsApprove
<1> DEFINE A == \A a \in Accounts :
                  Approved(a)' /\ ~Approved(a)
                    => \E t \in Tasks : /\ task[t] # Free /\ task'[t] = Free
                                        /\ task[t].kind \in Approvals /\ task[t].user = a
<1>1. Inv /\ [Next]_vars => [A]_vars
  BY ApprovalStep
<1>2. QED BY <1>1, InvCorrect, PTL DEF Spec, OnlyApprovalsApprove
===============================================================================
