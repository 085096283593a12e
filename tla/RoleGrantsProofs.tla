-------------------------- MODULE RoleGrantsProofs --------------------------
(***************************************************************************)
(* Proofs about RoleGrants for any roles, menus, functions, APIs and       *)
(* administrators, and for both kinds of databases.  The invariants need   *)
(* each other: a publication for the tenant leaves the rules of a role it  *)
(* does not narrow alone, which is right because the role was within the   *)
(* boundary before.  A transaction whose reads are still true keeps them;  *)
(* one whose reads are not makes the roles it concerns loose, and nothing  *)
(* else.                                                                   *)
(***************************************************************************)
EXTENDS RoleGrants, TLAPS

\* A function is granted with its menu.
GrantsInv == \A f \in db.grants : MenuOf[f] \in db.granted

\* What updateRoleAuth is about to write is of a loose role.
UpdatingInv == Updating \subseteq loose

\* What a transaction replaces is what its administrator has seen, unless it
\* has been overtaken; no two of them hold the same lock.
SeenInv ==
  \A a \in Admin :
    admin[a].pc = "tx" =>
      /\ a \in overtaken \/ Revision(db, admin[a].on) = admin[a].seen
      /\ \A b \in Admin :
           b # a /\ admin[b].pc = "tx" => Lock(admin[b].on) # Lock(admin[a].on)

\* In an isolated database what a transaction has read is still so.
ReadsAreTrue ==
  Isolated => /\ \A a \in Admin : admin[a].pc = "tx" => admin[a].snap = db
              /\ overtaken = {}

IInv ==
  /\ TypeOK /\ RulesAreExact /\ WithinBoundary
  /\ GrantsInv /\ UpdatingInv /\ SeenInv /\ ReadsAreTrue

----------------------------------------------------------------------------
\* Revisions and transactions

LEMMA RevisionType ==
  ASSUME NEW d \in Rows, NEW t \in Target
  PROVE  Revision(d, t) \in Seen
<1>1. CASE t.kind = "role"
  <2>1. t.role \in Role
    BY <1>1 DEF Target
  <2> QED BY <1>1, <2>1 DEF Revision, Rows, Seen
<1>2. CASE t.kind = "tenant"
  BY <1>2 DEF Revision, Rows, Seen
<1>3. CASE t.kind = "bindings"
  <2> DEFINE F == d.funcs \cap FuncsOf(t.menu)
  <2>1. F \in SUBSET Func /\ [f \in F |-> d.opens[f]] \in [F -> SUBSET Api]
    BY DEF Rows
  <2>2. [f \in F |-> d.opens[f]] \in UNION {[G -> SUBSET Api] : G \in SUBSET Func}
    BY <2>1
  <2>3. Revision(d, t) = [opens |-> [f \in F |-> d.opens[f]]]
    BY <1>3 DEF Revision
  <2> QED BY <2>2, <2>3 DEF Seen
<1>4. CASE t.kind \notin {"role", "tenant", "bindings"}
  BY <1>4 DEF Revision, Seen
<1> QED BY <1>1, <1>2, <1>3, <1>4

LEMMA TargetFields ==
  ASSUME NEW t \in Target
  PROVE  /\ t.kind = "role" => t.role \in Role
         /\ t.kind \in {"bindings", "menu", "delete"} => t.menu \in Menu
         /\ t.kind = "api" => t.api \in Api
BY DEF Target

LEMMA Busy ==
  ASSUME TypeOK, NEW b \in Admin, admin[b].pc # "idle"
  PROVE  /\ admin[b].on \in Target
         /\ admin[b].pc = "tx" => admin[b].snap \in Rows
         /\ admin[b].pc \in {"read", "clear", "create"} => admin[b].on.kind = "role"
<1>1. /\ admin[b].pc # "idle" => admin[b].on \in Target
      /\ admin[b].pc = "tx" => admin[b].snap \in Rows
      /\ admin[b].pc \in {"read", "clear", "create"} => admin[b].on.kind = "role"
  BY Zenon DEF TypeOK
<1> QED BY <1>1

LEMMA InTransaction ==
  ASSUME IInv, NEW a \in Admin, admin[a].pc = "tx"
  PROVE  admin[a].snap \in Rows /\ db \in Rows /\ admin[a].on \in Target
<1>1. admin[a].pc # "idle"
  OBVIOUS
<1> QED BY <1>1, Busy DEF IInv, TypeOK

LEMMA IdleType == Idle \in Job /\ Idle.pc = "idle"
BY DEF Idle, Job, Seen

\* A step of one administrator that changes no row.
LEMMA NoWrite ==
  ASSUME IInv, NEW a \in Admin, NEW j \in Job,
         admin' = [admin EXCEPT ![a] = j],
         db' = db, rules' \in [Role -> SUBSET Api],
         loose' = loose, overtaken' \in {overtaken, overtaken \ {a}},
         j.pc # "tx" \/ overtaken' = overtaken,
         j.pc # "idle" => j.on \in Target,
         j.pc \in {"read", "clear", "create"} =>
           /\ admin[a].pc \in {"read", "clear", "create"}
           /\ j.on = admin[a].on,
         j.pc = "tx" =>
           /\ j.snap = db /\ ~Locked(j.on) /\ admin[a].pc # "tx"
           /\ Revision(db, j.on) = j.seen,
         \A r \in Role : rules'[r] = rules[r] \/ r \in Updating
  PROVE  IInv'
<1>1. /\ admin'[a] = j /\ \A b \in Admin : b # a => admin'[b] = admin[b]
      /\ admin' \in [Admin -> Job]
  BY DEF IInv, TypeOK
<1>2. TypeOK'
  <2>1. ASSUME NEW b \in Admin
        PROVE  /\ admin'[b].pc # "idle" => admin'[b].on \in Target
               /\ admin'[b].pc = "tx" => admin'[b].snap \in Rows
               /\ admin'[b].pc \in {"read", "clear", "create"} =>
                    admin'[b].on.kind = "role"
    <3>1. CASE b = a
      BY <1>1, <3>1, Busy DEF IInv, TypeOK
    <3>2. CASE b # a
      BY <1>1, <3>2, Busy DEF IInv
    <3> QED BY <3>1, <3>2
  <2>2. db' \in Rows /\ loose' \subseteq Role /\ overtaken' \subseteq Admin
    BY DEF IInv, TypeOK
  <2> QED BY <1>1, <2>1, <2>2 DEF TypeOK
<1>3. UpdatingInv'
  <2>1. Updating' \subseteq Updating
    BY <1>1 DEF Updating
  <2> QED BY <2>1 DEF IInv, UpdatingInv
<1>4. RulesAreExact' /\ WithinBoundary' /\ GrantsInv'
  <2>1. \A r \in Role \ loose' : rules'[r] = rules[r]
    BY DEF IInv, UpdatingInv
  <2> QED BY <2>1 DEF IInv, RulesAreExact, WithinBoundary, GrantsInv
<1>5. SeenInv'
  <2> SUFFICES ASSUME NEW b \in Admin, admin'[b].pc = "tx"
               PROVE  /\ b \in overtaken' \/ Revision(db, admin'[b].on) = admin'[b].seen
                      /\ \A c \in Admin :
                           c # b /\ admin'[c].pc = "tx"
                             => Lock(admin'[c].on) # Lock(admin'[b].on)
    BY DEF SeenInv
  <2>1. b \in overtaken' \/ Revision(db, admin'[b].on) = admin'[b].seen
    BY <1>1 DEF IInv, SeenInv
  <2>2. ASSUME NEW c \in Admin, c # b, admin'[c].pc = "tx"
        PROVE  Lock(admin'[c].on) # Lock(admin'[b].on)
    BY <1>1, <2>2 DEF IInv, SeenInv, Locked
  <2> QED BY <2>1, <2>2
<1>6. ReadsAreTrue'
  BY <1>1 DEF IInv, ReadsAreTrue
<1> QED BY <1>2, <1>3, <1>4, <1>5, <1>6 DEF IInv

\* The end of a transaction on t.
LEMMA Committing ==
  ASSUME IInv, NEW a \in Admin, NEW t \in Target, NEW job \in Job,
         Commit(a, t, job), job.pc # "tx",
         job.pc # "idle" =>
           /\ job.pc = "read" /\ job.on \in Target /\ job.on.kind = "role"
           /\ job.on.role \in loose',
         \A b \in Admin \ {a} : admin[b].pc = "tx" => Lock(admin[b].on) # Lock(t),
         db' \in Rows, rules' \in [Role -> SUBSET Api],
         loose' \in SUBSET Role, Updating \subseteq loose'
  PROVE  TypeOK' /\ UpdatingInv' /\ SeenInv' /\ ReadsAreTrue'
<1>1. ASSUME NEW b \in Admin
      PROVE  \/ b = a /\ admin'[b] = job
             \/ /\ b # a /\ Isolated /\ admin[b].pc = "tx"
                /\ admin'[b] = [admin[b] EXCEPT !.pc = "viewing", !.snap = None]
             \/ /\ b # a /\ ~(Isolated /\ admin[b].pc = "tx")
                /\ admin'[b] = admin[b]
  BY DEF Commit
<1>2. ASSUME NEW b \in Admin
      PROVE  /\ admin'[b] \in Job
             /\ b # a => admin'[b].on = admin[b].on /\ admin'[b].seen = admin[b].seen
             /\ b # a => \/ admin'[b] = admin[b]
                         \/ admin'[b].pc = "viewing" /\ admin[b].pc = "tx"
             /\ admin'[b].pc = "tx" =>
                  b # a /\ ~Isolated /\ admin'[b] = admin[b]
  <2>1. admin[b] \in Job
    BY DEF IInv, TypeOK
  <2>2. [admin[b] EXCEPT !.pc = "viewing", !.snap = None] \in Job
    BY <2>1 DEF Job
  <2> QED BY <1>1, <2>1, <2>2 DEF Job
<1>3. admin' \in [Admin -> Job]
  <2>1. admin' = [b \in Admin |-> admin'[b]]
    BY DEF Commit
  <2> QED BY <1>2, <2>1
<1>4. TypeOK'
  <2>1. ASSUME NEW b \in Admin
        PROVE  /\ admin'[b].pc # "idle" => admin'[b].on \in Target
               /\ admin'[b].pc = "tx" => admin'[b].snap \in Rows
               /\ admin'[b].pc \in {"read", "clear", "create"} =>
                    admin'[b].on.kind = "role"
    <3>1. CASE b = a
      BY <1>1, <3>1
    <3>2. CASE b # a
      BY <1>2, <3>2, Busy DEF IInv
    <3> QED BY <3>1, <3>2
  <2>2. overtaken' \subseteq Admin
    BY DEF Commit
  <2> QED BY <1>3, <2>1, <2>2 DEF TypeOK
<1>5. UpdatingInv'
  <2> SUFFICES ASSUME NEW b \in Admin, admin'[b].pc \in {"read", "clear", "create"}
               PROVE  admin'[b].on.role \in loose'
    BY DEF UpdatingInv, Updating
  <2>1. CASE b = a
    BY <1>1, <2>1
  <2>2. CASE b # a
    <3>1. admin'[b] = admin[b]
      BY <1>2, <2>2
    <3>2. admin[b].on.role \in Updating
      BY <3>1 DEF Updating
    <3> QED BY <3>1, <3>2
  <2> QED BY <2>1, <2>2
<1>6. SeenInv'
  <2> SUFFICES ASSUME NEW b \in Admin, admin'[b].pc = "tx"
               PROVE  /\ b \in overtaken' \/ Revision(db', admin'[b].on) = admin'[b].seen
                      /\ \A c \in Admin :
                           c # b /\ admin'[c].pc = "tx"
                             => Lock(admin'[c].on) # Lock(admin'[b].on)
    BY DEF SeenInv
  <2>1. b # a /\ ~Isolated /\ admin'[b] = admin[b] /\ admin[b].pc = "tx"
    BY <1>2
  <2>2. b \in overtaken \/ Revision(db, admin[b].on) = admin[b].seen
    BY <2>1 DEF IInv, SeenInv
  <2>3. b \in overtaken' \/ Revision(db', admin[b].on) = admin[b].seen
    BY <2>1, <2>2 DEF Commit
  <2>4. \A c \in Admin : admin'[c].pc = "tx" => admin'[c] = admin[c] /\ admin[c].pc = "tx"
    BY <1>2
  <2> QED BY <2>1, <2>3, <2>4 DEF IInv, SeenInv
<1>7. ReadsAreTrue'
  BY <1>2 DEF ReadsAreTrue, Commit
<1> QED BY <1>4, <1>5, <1>6, <1>7

\* The rules of a role that is not loose are those of the rows of now: it has
\* been rebuilt from these, or nothing that concerns it has changed.
LEMMA Rebuilding ==
  ASSUME IInv, db' \in Rows, NEW d \in Rows, NEW rs, Rebuild(d, rs),
         \A r \in Role \ loose' :
           \/ r \in rs /\ d = db'
           \/ r \notin rs /\ r \notin loose /\ Policies(db', r) = Policies(db, r)
  PROVE  RulesAreExact' /\ rules' \in [Role -> SUBSET Api]
<1>1. \A r \in Role \ loose' : rules'[r] = Policies(db', r)
  BY DEF Rebuild, IInv, RulesAreExact
<1>2. \A r \in Role : Policies(d, r) \in SUBSET Api /\ rules[r] \in SUBSET Api
  BY DEF Policies, Yield, Rows, IInv, TypeOK
<1> QED BY <1>1, <1>2 DEF RulesAreExact, Rebuild

\* A transaction that keeps the boundary and rebuilds enough.
LEMMA Writing ==
  ASSUME IInv, NEW a \in Admin, admin[a].pc = "tx",
         Commit(a, admin[a].on, Idle), db' \in Rows,
         NEW d \in Rows, NEW rs, Rebuild(d, rs),
         \A r \in Role \ loose' :
           \/ r \in rs /\ d = db'
           \/ r \notin rs /\ r \notin loose /\ Policies(db', r) = Policies(db, r),
         loose' \in SUBSET Role, Updating \subseteq loose',
         WithinBoundary', GrantsInv'
  PROVE  IInv'
<1>1. RulesAreExact' /\ rules' \in [Role -> SUBSET Api]
  BY Rebuilding
<1>2. \A b \in Admin \ {a} : admin[b].pc = "tx" => Lock(admin[b].on) # Lock(admin[a].on)
  BY DEF IInv, SeenInv
<1>3. admin[a].on \in Target
  BY InTransaction
<1>4. TypeOK' /\ UpdatingInv' /\ SeenInv' /\ ReadsAreTrue'
  BY <1>1, <1>2, <1>3, IdleType, Committing
<1> QED BY <1>1, <1>4 DEF IInv

\* Loose roles stay loose while they are updated, and where the transaction had
\* old reads.
LEMMA Loosening ==
  ASSUME IInv, NEW a \in Admin, NEW rs \in SUBSET Role, NEW now \in SUBSET Role,
         Publishes(a, rs, now) \/ Rebuilds(a, rs, now)
  PROVE  /\ loose' \in SUBSET Role /\ Updating \subseteq loose'
         /\ \A r \in Role \ loose' :
              \/ r \in rs /\ admin[a].snap = db
              \/ /\ r \notin rs /\ r \notin loose
                 /\ admin[a].snap = db \/ r \notin now
BY DEF IInv, TypeOK, UpdatingInv, Publishes, Rebuilds

\* Policies depend on the selected functions that exist and on their menus.
LEMMA SamePolicies ==
  ASSUME NEW d, NEW e, NEW r,
         d.live = e.live, d.sel[r] \cap d.funcs = e.sel[r] \cap e.funcs,
         \A f \in d.sel[r] \cap d.funcs :
           /\ d.opens[f] = e.opens[f]
           /\ Candidate(d, r, MenuOf[f]) <=> Candidate(e, r, MenuOf[f])
  PROVE  Policies(d, r) = Policies(e, r)
<1> DEFINE S == {g \in d.sel[r] : Candidate(d, r, MenuOf[g])} \cap d.funcs
           T == {g \in e.sel[r] : Candidate(e, r, MenuOf[g])} \cap e.funcs
<1>1. S = T /\ \A f \in S : d.opens[f] = e.opens[f]
  OBVIOUS
<1>2. Policies(d, r) = d.live \cap UNION {d.opens[f] : f \in S}
  BY DEF Policies, Yield
<1>3. Policies(e, r) = e.live \cap UNION {e.opens[f] : f \in T}
  BY DEF Policies, Yield
<1> HIDE DEF S, T
<1>4. UNION {d.opens[f] : f \in S} = UNION {e.opens[f] : f \in T}
  BY <1>1
<1> QED BY <1>2, <1>3, <1>4

----------------------------------------------------------------------------

LEMMA InitIInv == Init => IInv
<1> SUFFICES ASSUME Init PROVE IInv
  OBVIOUS
<1> USE RoleGrantsAssumption
<1>1. PICK o \in [Func -> Opens], s \in [Role -> Picks] :
        db = [menus |-> Menu, funcs |-> Func, opens |-> o, live |-> Api,
              granted |-> Menu, grants |-> Func, sel |-> s]
  BY DEF Init
<1>2. o \in [Func -> SUBSET Api] /\ s \in [Role -> SUBSET Func]
  OBVIOUS
<1>3. db \in Rows
  BY <1>1, <1>2 DEF Rows
<1>4. \A r \in Role : Policies(db, r) \in SUBSET Api
  BY <1>3 DEF Policies, Yield, Rows
<1>5. TypeOK /\ RulesAreExact
  BY <1>3, <1>4, IdleType DEF Init, TypeOK, RulesAreExact
<1>6. WithinBoundary /\ GrantsInv
  BY <1>1, <1>2 DEF WithinBoundary, GrantsInv
<1>7. \A a \in Admin : admin[a].pc = "idle"
  BY IdleType DEF Init
<1>8. UpdatingInv /\ SeenInv /\ ReadsAreTrue
  BY <1>7 DEF Init, UpdatingInv, Updating, SeenInv, ReadsAreTrue
<1> QED BY <1>5, <1>6, <1>8 DEF IInv

----------------------------------------------------------------------------
\* The steps that write no rows of the catalogue

LEMMA ViewKeepsIInv ==
  ASSUME IInv, NEW a \in Admin, NEW t \in Target, View(a, t)
  PROVE  IInv'
<1> DEFINE j == [pc |-> "viewing", on |-> t, seen |-> Revision(db, t),
                 snap |-> None, list |-> {}]
<1>1. j \in Job
  BY RevisionType DEF Job, IInv, TypeOK
<1>2. /\ admin' = [admin EXCEPT ![a] = j] /\ UNCHANGED <<db, rules, loose, overtaken>>
      /\ rules \in [Role -> SUBSET Api]
  BY DEF View, IInv, TypeOK
<1>3. j.pc = "viewing" /\ j.on = t
  OBVIOUS
<1> HIDE DEF j
<1> QED BY <1>1, <1>2, <1>3, NoWrite

LEMMA EndKeepsIInv ==
  ASSUME IInv, NEW a \in Admin, Leave(a) \/ Abort(a)
  PROVE  IInv'
<1>1. /\ admin' = [admin EXCEPT ![a] = Idle] /\ UNCHANGED <<db, rules, loose>>
      /\ overtaken' \in {overtaken, overtaken \ {a}}
  BY DEF Leave, Abort
<1>2. rules \in [Role -> SUBSET Api]
  BY DEF IInv, TypeOK
<1> QED BY <1>1, <1>2, IdleType, NoWrite

LEMMA BeginKeepsIInv ==
  ASSUME IInv, NEW a \in Admin, Begin(a)
  PROVE  IInv'
<1> DEFINE j == [admin[a] EXCEPT !.pc = "tx", !.snap = db]
<1>1. /\ admin[a] \in Job /\ db \in Rows /\ admin[a].pc = "viewing"
      /\ admin[a].on \in Target
  BY Busy DEF IInv, TypeOK, Begin
<1>2. /\ j \in Job /\ j.pc = "tx" /\ j.snap = db /\ j.on = admin[a].on
      /\ j.seen = admin[a].seen
  BY <1>1 DEF Job
<1>3. admin' = [admin EXCEPT ![a] = j]
  BY DEF Begin, IInv, TypeOK
<1>4. /\ UNCHANGED <<db, rules, loose, overtaken>> /\ rules \in [Role -> SUBSET Api]
      /\ ~Locked(admin[a].on) /\ Revision(db, admin[a].on) = admin[a].seen
  BY DEF Begin, IInv, TypeOK
<1> HIDE DEF j
<1> QED BY <1>1, <1>2, <1>3, <1>4, NoWrite

\* updateRoleAuth writes the rules of a role that is being updated.
LEMMA UpdatingKeepsIInv ==
  ASSUME IInv, NEW a \in Admin,
         GetFullRole(a) \/ ClearCasbin(a) \/ CreateRules(a)
  PROVE  IInv'
<1> DEFINE r == admin[a].on.role
<1>1. /\ admin[a] \in Job /\ admin[a].pc \in {"read", "clear", "create"}
      /\ admin[a].on \in Target /\ r \in Role /\ r \in Updating
      /\ rules \in [Role -> SUBSET Api] /\ db \in Rows
  <2>1. admin[a].pc \in {"read", "clear", "create"}
    BY DEF GetFullRole, ClearCasbin, CreateRules
  <2>2. admin[a].on \in Target /\ admin[a].on.kind = "role"
    BY <2>1, Busy DEF IInv
  <2> QED BY <2>1, <2>2, TargetFields DEF IInv, TypeOK, Updating
<1>2. CASE GetFullRole(a)
  <2> DEFINE list == Yield(db, {f \in db.sel[r] : MenuOf[f] \in db.menus})
             j == [admin[a] EXCEPT !.pc = "clear", !.list = list]
  <2>1. list \in SUBSET Api
    BY <1>1 DEF Yield, Rows
  <2>2. admin' = [admin EXCEPT ![a] = j] /\ UNCHANGED <<db, rules, loose, overtaken>>
    BY <1>2 DEF GetFullRole, IInv, TypeOK
  <2> HIDE DEF list
  <2>3. j \in Job /\ j.pc = "clear" /\ j.on = admin[a].on
    BY <1>1, <2>1 DEF Job
  <2> HIDE DEF j
  <2> QED BY <1>1, <2>2, <2>3, NoWrite
<1>3. CASE ClearCasbin(a)
  <2>1. /\ rules' = [rules EXCEPT ![r] = {}] /\ UNCHANGED <<db, loose, overtaken>>
        /\ \E pc \in {"clear", "create"} : admin' = [admin EXCEPT ![a].pc = pc]
    BY <1>3 DEF ClearCasbin
  <2>2. PICK pc \in {"clear", "create"} : admin' = [admin EXCEPT ![a].pc = pc]
    BY <2>1
  <2> DEFINE j == [admin[a] EXCEPT !.pc = pc]
  <2>3. admin' = [admin EXCEPT ![a] = j]
    BY <2>2 DEF IInv, TypeOK
  <2>4. j \in Job /\ j.pc \in {"clear", "create"} /\ j.on = admin[a].on
    BY <1>1 DEF Job
  <2>5. /\ rules' \in [Role -> SUBSET Api]
        /\ \A q \in Role : rules'[q] = rules[q] \/ q \in Updating
    BY <1>1, <2>1
  <2> HIDE DEF j
  <2> QED BY <1>1, <2>1, <2>3, <2>4, <2>5, NoWrite
<1>4. CASE CreateRules(a)
  <2> DEFINE new == IF rules[r] \cap admin[a].list = {}
                    THEN rules[r] \cup admin[a].list ELSE rules[r]
  <2>1. /\ rules' = [rules EXCEPT ![r] = new] /\ UNCHANGED <<db, loose, overtaken>>
        /\ admin' = [admin EXCEPT ![a] = Idle]
    BY <1>4 DEF CreateRules
  <2>2. new \in SUBSET Api
    BY <1>1 DEF Job
  <2> HIDE DEF new
  <2>3. /\ rules' \in [Role -> SUBSET Api]
        /\ \A q \in Role : rules'[q] = rules[q] \/ q \in Updating
    BY <1>1, <2>1, <2>2
  <2> QED BY <1>1, <2>1, <2>3, IdleType, NoWrite
<1> QED BY <1>2, <1>3, <1>4 DEF GetFullRole, ClearCasbin, CreateRules

----------------------------------------------------------------------------
\* The steps that write

LEMMA PublishRoleKeepsIInv ==
  ASSUME IInv, NEW a \in Admin, NEW pick \in Picks, PublishRole(a, pick)
  PROVE  IInv'
<1> USE RoleGrantsAssumption
<1> DEFINE r == admin[a].on.role
           s == admin[a].snap
           d == [s EXCEPT !.sel[r] = pick]
<1>1. /\ admin[a].pc = "tx" /\ r \in Role /\ pick \in SUBSET Func
      /\ db \in Rows /\ s \in Rows
  <2>1. admin[a].pc = "tx" /\ admin[a].on.kind = "role"
    BY DEF PublishRole, InTx
  <2>2. pick \in SUBSET Func
    OBVIOUS
  <2> QED BY <2>1, <2>2, InTransaction, TargetFields
<1>2. /\ db' = [db EXCEPT !.sel[r] = pick] /\ pick \subseteq Allowed(d, r)
      /\ Rebuild(d, {r}) /\ Publishes(a, {r}, {}) /\ Commit(a, admin[a].on, Idle)
  BY DEF PublishRole
<1> HIDE DEF r
<1>3. db' \in Rows /\ d \in Rows
  BY <1>1, <1>2 DEF Rows
<1>4. /\ db'.menus = db.menus /\ db'.funcs = db.funcs /\ db'.opens = db.opens
      /\ db'.live = db.live /\ db'.granted = db.granted /\ db'.grants = db.grants
      /\ db'.sel = [db.sel EXCEPT ![r] = pick]
      /\ d.grants = s.grants
  BY <1>1, <1>2 DEF Rows
<1>5. s = db => d = db'
  BY <1>2
<1> HIDE DEF d, s
<1>6. /\ loose' \in SUBSET Role /\ Updating \subseteq loose'
      /\ \A q \in Role \ loose' : \/ q = r /\ s = db
                                  \/ q # r /\ q \notin loose
  <2>1. {r} \in SUBSET Role /\ {} \in SUBSET Role
    BY <1>1
  <2> QED BY <1>2, <2>1, Loosening DEF s
<1>7. ASSUME NEW q \in Role, q # r PROVE Policies(db', q) = Policies(db, q)
  <2>1. db'.sel[q] = db.sel[q] /\ db.sel[q] \subseteq Func
    BY <1>1, <1>4, <1>7 DEF Rows
  <2>2. db'.sel[q] \cap db'.funcs = db.sel[q] \cap db.funcs
    BY <1>4, <2>1
  <2>3. \A f \in db'.sel[q] \cap db'.funcs :
          /\ db'.opens[f] = db.opens[f]
          /\ Candidate(db', q, MenuOf[f]) <=> Candidate(db, q, MenuOf[f])
    BY <1>4 DEF Candidate
  <2> QED BY <1>4, <2>2, <2>3, SamePolicies
<1>8. WithinBoundary'
  <2> SUFFICES ASSUME NEW q \in Role \ (Base \cup loose') PROVE db'.sel[q] \subseteq db'.grants
    BY DEF WithinBoundary
  <2>1. CASE q = r /\ s = db
    <3>1. db'.sel[q] = pick
      BY <1>1, <1>4, <2>1 DEF Rows
    <3>2. pick \subseteq db'.grants
      BY <1>2, <1>4, <2>1 DEF Allowed
    <3> QED BY <3>1, <3>2
  <2>2. CASE q # r /\ q \notin loose
    <3>1. db'.sel[q] = db.sel[q]
      BY <1>1, <1>4, <2>2 DEF Rows
    <3> QED BY <1>4, <2>2, <3>1 DEF IInv, WithinBoundary
  <2> QED BY <1>6, <2>1, <2>2
<1>9. GrantsInv'
  BY <1>4 DEF IInv, GrantsInv
<1> QED BY <1>1, <1>2, <1>3, <1>5, <1>6, <1>7, <1>8, <1>9, Writing

LEMMA PublishTenantKeepsIInv ==
  ASSUME IInv, NEW a \in Admin, NEW ms \in SUBSET Menu,
         NEW pick \in Picks, PublishTenant(a, ms, pick)
  PROVE  IInv'
<1> USE RoleGrantsAssumption
<1> DEFINE s == admin[a].snap
           rs == Narrowed(s, ms, pick)
           Narrow(sel) ==
             [r \in Role |-> IF r \in rs THEN Pruned(s, r, ms, pick) ELSE sel[r]]
           now == {r \in Role : db.sel[r] # s.sel[r]}
           sel == Narrow(db.sel)
           d == [s EXCEPT !.granted = ms, !.grants = pick, !.sel = Narrow(s.sel)]
<1>1. admin[a].pc = "tx" /\ pick \in SUBSET Func /\ db \in Rows /\ s \in Rows
  BY InTransaction DEF PublishTenant, InTx
<1>2. /\ db' = [db EXCEPT !.granted = ms, !.grants = pick, !.sel = sel]
      /\ Rebuild(d, rs) /\ Publishes(a, rs, now) /\ Commit(a, admin[a].on, Idle)
      /\ \A f \in pick : MenuOf[f] \in ms
  BY <1>1 DEF PublishTenant
<1>3. sel \in [Role -> SUBSET Func] /\ Narrow(s.sel) \in [Role -> SUBSET Func]
  BY <1>1 DEF Rows, Pruned
<1>4. db' \in Rows /\ d \in Rows
  BY <1>1, <1>2, <1>3 DEF Rows
<1>5. /\ db'.menus = db.menus /\ db'.funcs = db.funcs /\ db'.opens = db.opens
      /\ db'.live = db.live /\ db'.granted = ms /\ db'.grants = pick
      /\ \A q \in Role : q \in rs => db'.sel[q] = Pruned(s, q, ms, pick)
      /\ \A q \in Role : q \notin rs => db'.sel[q] = db.sel[q]
  BY <1>1, <1>2, <1>3 DEF Rows
<1>6. s = db => d = db'
  BY <1>2
<1>7. /\ loose' \in SUBSET Role /\ Updating \subseteq loose'
      /\ \A q \in Role \ loose' :
           \/ q \in rs /\ s = db
           \/ q \notin rs /\ q \notin loose /\ db.sel[q] = s.sel[q]
  <2>1. rs \in SUBSET Role /\ now \in SUBSET Role
    BY DEF Narrowed
  <2>2. /\ loose' \in SUBSET Role /\ Updating \subseteq loose'
        /\ \A q \in Role \ loose' :
             \/ q \in rs /\ s = db
             \/ q \notin rs /\ q \notin loose /\ (s = db \/ q \notin now)
    <3> HIDE DEF rs, now
    <3> QED BY <1>2, <2>1, Loosening
  <2> QED BY <2>2
<1>8. ASSUME NEW q \in Role, q \notin rs, q \notin Base, db.sel[q] = s.sel[q],
             NEW f \in db.sel[q]
      PROVE  MenuOf[f] \in ms /\ f \in pick
  <2>1. f \in Pruned(s, q, ms, pick)
    BY <1>8 DEF Narrowed
  <2> QED BY <2>1 DEF Pruned
<1>9. ASSUME NEW q \in Role, q \notin rs, q \notin loose, db.sel[q] = s.sel[q]
      PROVE  Policies(db', q) = Policies(db, q)
  <2>1. ASSUME q \notin Base, NEW f \in db.sel[q]
        PROVE  MenuOf[f] \in ms /\ MenuOf[f] \in db.granted
    <3>1. f \in db.grants
      BY <1>9, <2>1 DEF IInv, WithinBoundary
    <3> QED BY <1>8, <1>9, <2>1, <3>1 DEF IInv, GrantsInv
  <2>2. \A f \in db.sel[q] : Candidate(db', q, MenuOf[f]) <=> Candidate(db, q, MenuOf[f])
    BY <1>5, <2>1 DEF Candidate
  <2>3. db'.sel[q] = db.sel[q]
    BY <1>5, <1>9
  <2> QED BY <1>5, <2>2, <2>3, SamePolicies
<1>10. WithinBoundary'
  <2> SUFFICES ASSUME NEW q \in Role \ (Base \cup loose') PROVE db'.sel[q] \subseteq pick
    BY <1>5 DEF WithinBoundary
  <2>1. CASE q \in rs
    BY <1>5, <2>1 DEF Pruned
  <2>2. CASE q \notin rs
    BY <1>5, <1>7, <1>8, <2>2
  <2> QED BY <2>1, <2>2
<1>11. GrantsInv'
  BY <1>2, <1>5 DEF GrantsInv
<1>12. \A q \in Role \ loose' :
         \/ q \in rs /\ d = db'
         \/ q \notin rs /\ q \notin loose /\ Policies(db', q) = Policies(db, q)
  BY <1>6, <1>7, <1>9
<1> HIDE DEF rs, sel, d, s
<1> QED BY <1>1, <1>2, <1>4, <1>7, <1>10, <1>11, <1>12, Writing

\* The functions of a menu matter to the roles that have selected some.
LEMMA OtherRoles ==
  ASSUME NEW d \in Rows, NEW m \in Menu, NEW q \in Role, q \notin RolesWith(d, m)
  PROVE  \A f \in d.sel[q] : MenuOf[f] # m /\ f \in Func
BY DEF RolesWith, FuncsOf, Rows

LEMMA WithFuncsFields ==
  ASSUME NEW d \in Rows, NEW m \in Menu, NEW fs \in SUBSET FuncsOf(m),
         NEW o \in [Func -> SUBSET Api],
         NEW e, e = WithFuncs(d, m, fs, o)
  PROVE  /\ e \in Rows
         /\ e.menus = d.menus /\ e.live = d.live /\ e.granted = d.granted
         /\ e.grants = d.grants /\ e.sel = d.sel
         /\ \A f \in Func : MenuOf[f] # m =>
              /\ f \in e.funcs <=> f \in d.funcs
              /\ e.opens[f] = d.opens[f]
<1> DEFINE p == [f \in Func |-> IF MenuOf[f] # m THEN d.opens[f]
                                ELSE IF f \in fs THEN o[f] ELSE {}]
           g == (d.funcs \ FuncsOf(m)) \cup fs
<1>1. e = [d EXCEPT !.funcs = g, !.opens = p]
  BY DEF WithFuncs, Rows
<1>2. p \in [Func -> SUBSET Api] /\ g \in SUBSET Func
  BY DEF Rows, FuncsOf
<1>3. /\ e \in Rows /\ e.funcs = g /\ e.opens = p
      /\ e.menus = d.menus /\ e.live = d.live /\ e.granted = d.granted
      /\ e.grants = d.grants /\ e.sel = d.sel
  BY <1>1, <1>2 DEF Rows
<1>4. \A f \in Func : MenuOf[f] # m => (f \in g <=> f \in d.funcs) /\ p[f] = d.opens[f]
  BY DEF FuncsOf
<1> QED BY <1>3, <1>4

\* What ReplaceBindings makes of the rows d.
Replaced(d, m, fs, o) == WithoutStale(WithFuncs(d, m, fs, o), m, fs)

AsReplaced(d, m, fs, e) ==
  /\ e \in Rows
  /\ e.menus = d.menus /\ e.live = d.live /\ e.granted = d.granted
  /\ e.grants = d.grants \ (FuncsOf(m) \ fs)
  /\ \A r \in Role : e.sel[r] = d.sel[r] \ (FuncsOf(m) \ fs)
  /\ \A f \in Func : MenuOf[f] # m =>
       /\ f \in e.funcs <=> f \in d.funcs
       /\ e.opens[f] = d.opens[f]

LEMMA ReplacedFields ==
  ASSUME NEW d \in Rows, NEW m \in Menu, NEW fs \in SUBSET FuncsOf(m),
         NEW o \in [Func -> SUBSET Api]
  PROVE  AsReplaced(d, m, fs, Replaced(d, m, fs, o))
<1> DEFINE e == Replaced(d, m, fs, o)
           w == WithFuncs(d, m, fs, o)
           gone == FuncsOf(m) \ fs
<1>1. /\ w \in Rows
      /\ w.menus = d.menus /\ w.live = d.live /\ w.granted = d.granted
      /\ w.grants = d.grants /\ w.sel = d.sel
      /\ \A f \in Func : MenuOf[f] # m =>
           /\ f \in w.funcs <=> f \in d.funcs
           /\ w.opens[f] = d.opens[f]
  <2>1. w = WithFuncs(d, m, fs, o)
    OBVIOUS
  <2> HIDE DEF w
  <2> QED BY <2>1, WithFuncsFields
<1> DEFINE sel == [r \in Role |-> w.sel[r] \ gone]
           grants == w.grants \ gone
<1>2. e = [w EXCEPT !.sel = sel, !.grants = grants]
  BY <1>1 DEF Replaced, WithoutStale, Rows
<1> HIDE DEF w, e
<1>3. sel \in [Role -> SUBSET Func] /\ grants \in SUBSET Func
  BY <1>1 DEF Rows
<1>4. /\ e \in Rows
      /\ e.menus = w.menus /\ e.live = w.live /\ e.granted = w.granted
      /\ e.funcs = w.funcs /\ e.opens = w.opens
      /\ e.grants = grants /\ e.sel = sel
  <2> HIDE DEF sel, grants
  <2> QED BY <1>1, <1>2, <1>3 DEF Rows
<1> HIDE DEF gone
<1>5. e.grants = d.grants \ gone /\ \A r \in Role : e.sel[r] = d.sel[r] \ gone
  BY <1>1, <1>4
<1>6. \A f \in Func : MenuOf[f] # m =>
        /\ f \in e.funcs <=> f \in d.funcs
        /\ e.opens[f] = d.opens[f]
  BY <1>1, <1>4
<1>7. e.menus = d.menus /\ e.live = d.live /\ e.granted = d.granted
  BY <1>1, <1>4
<1> QED BY <1>4, <1>5, <1>6, <1>7, Zenon DEF AsReplaced, gone, e

\* What DeleteMenu makes of the rows d.
Deleted(d, m) ==
  [WithFuncs(d, m, {}, d.opens) EXCEPT
     !.menus = @ \ {m},
     !.sel = [r \in Role |-> @[r] \ FuncsOf(m)]]

LEMMA DeletedFields ==
  ASSUME NEW d \in Rows, NEW m \in Menu, NEW e, e = Deleted(d, m)
  PROVE  /\ e \in Rows
         /\ e.menus = d.menus \ {m} /\ e.live = d.live /\ e.granted = d.granted
         /\ e.grants = d.grants
         /\ \A r \in Role : e.sel[r] = d.sel[r] \ FuncsOf(m)
         /\ \A f \in Func : MenuOf[f] # m =>
              /\ f \in e.funcs <=> f \in d.funcs
              /\ e.opens[f] = d.opens[f]
<1> DEFINE w == WithFuncs(d, m, {}, d.opens)
<1>1. /\ w \in Rows
      /\ w.menus = d.menus /\ w.live = d.live /\ w.granted = d.granted
      /\ w.grants = d.grants /\ w.sel = d.sel
      /\ \A f \in Func : MenuOf[f] # m =>
           /\ f \in w.funcs <=> f \in d.funcs
           /\ w.opens[f] = d.opens[f]
  <2>1. w = WithFuncs(d, m, {}, d.opens) /\ d.opens \in [Func -> SUBSET Api]
    BY DEF Rows
  <2> HIDE DEF w
  <2> QED BY <2>1, WithFuncsFields
<1> DEFINE sel == [r \in Role |-> d.sel[r] \ FuncsOf(m)]
           menus == d.menus \ {m}
<1>2. e = [w EXCEPT !.menus = menus, !.sel = sel]
  BY <1>1 DEF Rows, Deleted
<1> HIDE DEF w
<1>3. sel \in [Role -> SUBSET Func] /\ menus \in SUBSET Menu
  BY DEF Rows
<1>4. /\ e \in Rows
      /\ e.menus = menus /\ e.live = w.live /\ e.granted = w.granted
      /\ e.funcs = w.funcs /\ e.opens = w.opens /\ e.grants = w.grants
      /\ e.sel = sel
  <2> HIDE DEF sel, menus
  <2> QED BY <1>1, <1>2, <1>3 DEF Rows
<1>5. \A f \in Func : MenuOf[f] # m =>
        /\ f \in e.funcs <=> f \in d.funcs
        /\ e.opens[f] = d.opens[f]
  BY <1>1, <1>4
<1>6. e.live = d.live /\ e.granted = d.granted /\ e.grants = d.grants
  BY <1>1, <1>4
<1>7. \A r \in Role : e.sel[r] = d.sel[r] \ FuncsOf(m)
  BY <1>4
<1> QED BY <1>4, <1>5, <1>6, <1>7, Zenon

\* A transaction on menu m, which rebuilds the roles that have selected some of
\* its functions, and changes nothing of what the others have.
LEMMA WritingMenu ==
  ASSUME IInv, NEW a \in Admin, NEW m \in Menu, admin[a].pc = "tx",
         Commit(a, admin[a].on, Idle), db' \in Rows, NEW d \in Rows,
         admin[a].snap = db => d = db',
         Rebuild(d, RolesWith(admin[a].snap, m)),
         Rebuilds(a, RolesWith(admin[a].snap, m), RolesWith(db, m)),
         db'.live = db.live, db'.granted = db.granted,
         \A x \in Menu : x # m => (x \in db'.menus <=> x \in db.menus),
         \A f \in Func : MenuOf[f] # m =>
           /\ f \in db'.funcs <=> f \in db.funcs
           /\ db'.opens[f] = db.opens[f]
           /\ f \in db'.grants <=> f \in db.grants
           /\ \A q \in Role : f \in db'.sel[q] <=> f \in db.sel[q],
         \A q \in Role : db'.sel[q] \subseteq db.sel[q],
         db'.grants \subseteq db.grants,
         admin[a].snap = db => \A q \in Role :
           db.sel[q] \subseteq db.grants => db'.sel[q] \subseteq db'.grants
  PROVE  IInv'
<1> USE RoleGrantsAssumption
<1> DEFINE s == admin[a].snap
           rs == RolesWith(s, m)
           now == RolesWith(db, m)
<1>1. db \in Rows /\ s \in Rows
  BY InTransaction
<1>2. rs \in SUBSET Role /\ now \in SUBSET Role /\ Rebuilds(a, rs, now)
  BY DEF RolesWith
<1>3. ASSUME NEW q \in Role, q \notin now
      PROVE  /\ db'.sel[q] = db.sel[q]
             /\ Policies(db', q) = Policies(db, q)
             /\ db.sel[q] \subseteq db.grants => db'.sel[q] \subseteq db'.grants
  <2>1. \A f \in db.sel[q] : MenuOf[f] # m /\ f \in Func
    BY <1>1, <1>3, OtherRoles
  <2>2. db'.sel[q] = db.sel[q]
    BY <2>1
  <2>3. db'.sel[q] \cap db'.funcs = db.sel[q] \cap db.funcs
    BY <2>1, <2>2
  <2>4. \A f \in db'.sel[q] \cap db'.funcs :
          /\ db'.opens[f] = db.opens[f]
          /\ Candidate(db', q, MenuOf[f]) <=> Candidate(db, q, MenuOf[f])
    BY <2>1, <2>2 DEF Candidate
  <2>5. Policies(db', q) = Policies(db, q)
    BY <2>3, <2>4, SamePolicies
  <2> QED BY <2>1, <2>2, <2>5
<1> HIDE DEF rs, now
<1>4. /\ loose' \in SUBSET Role /\ Updating \subseteq loose'
      /\ \A q \in Role \ loose' : \/ q \in rs /\ s = db
                                  \/ q \notin rs /\ q \notin loose /\ (s = db \/ q \notin now)
  BY <1>2, Loosening
<1>5. ASSUME s = db PROVE rs = now
  BY <1>5 DEF rs, now
<1>6. ASSUME NEW q \in Role \ loose' PROVE q \notin loose
  BY <1>2, <1>4 DEF Rebuilds
<1>7. WithinBoundary'
  <2> SUFFICES ASSUME NEW q \in Role \ (Base \cup loose')
               PROVE  db'.sel[q] \subseteq db'.grants
    BY DEF WithinBoundary
  <2>1. db.sel[q] \subseteq db.grants
    BY <1>6 DEF IInv, WithinBoundary
  <2>2. CASE s = db
    BY <2>1, <2>2
  <2>3. CASE q \notin now
    BY <1>3, <2>1, <2>3
  <2> QED BY <1>4, <2>2, <2>3
<1>8. GrantsInv'
  BY DEF IInv, GrantsInv
<1>9. \A q \in Role \ loose' :
        \/ q \in rs /\ d = db'
        \/ q \notin rs /\ q \notin loose /\ Policies(db', q) = Policies(db, q)
  BY <1>3, <1>4, <1>5
<1> HIDE DEF s
<1> QED BY <1>4, <1>7, <1>8, <1>9, Writing DEF rs, s

LEMMA ReplaceBindingsKeepsIInv ==
  ASSUME IInv, NEW a \in Admin, NEW fs \in Picks,
         NEW o \in [Func -> Opens], ReplaceBindings(a, fs, o)
  PROVE  IInv'
<1> DEFINE m == admin[a].on.menu
           s == admin[a].snap
           d == Replaced(s, m, fs, o)
           e == Replaced(db, m, fs, o)
           gone == FuncsOf(m) \ fs
<1>1. /\ admin[a].pc = "tx" /\ s \in Rows /\ db \in Rows /\ m \in Menu
      /\ fs \in SUBSET FuncsOf(m) /\ o \in [Func -> SUBSET Api]
  <2>1. admin[a].pc = "tx" /\ admin[a].on.kind = "bindings" /\ fs \subseteq FuncsOf(m)
    BY DEF ReplaceBindings, InTx
  <2>2. o \in [Func -> SUBSET Api]
    BY RoleGrantsAssumption
  <2> QED BY <2>1, <2>2, InTransaction, TargetFields
<1>2. /\ db' = e \/ (s # db /\ db' = [e EXCEPT !.grants = db.grants])
      /\ Rebuild(d, RolesWith(s, m)) /\ Rebuilds(a, RolesWith(s, m), RolesWith(db, m))
      /\ Commit(a, admin[a].on, Idle)
  BY DEF ReplaceBindings, Replaced
<1>3. /\ e \in Rows
      /\ e.menus = db.menus /\ e.live = db.live /\ e.granted = db.granted
      /\ e.grants = db.grants \ gone
      /\ \A r \in Role : e.sel[r] = db.sel[r] \ gone
      /\ \A f \in Func : MenuOf[f] # m =>
           /\ f \in e.funcs <=> f \in db.funcs
           /\ e.opens[f] = db.opens[f]
  <2>1. AsReplaced(db, m, fs, e)
    <3> HIDE DEF m, s
    <3> QED BY <1>1, ReplacedFields
  <2> HIDE DEF e
  <2> QED BY <2>1 DEF AsReplaced
<1>4. d \in Rows
  <2> HIDE DEF m, s
  <2> QED BY <1>1, ReplacedFields DEF AsReplaced
<1>5. s = db => d = db'
  BY <1>2
<1> HIDE DEF e, d
<1>6. /\ db' \in Rows
      /\ db'.menus = e.menus /\ db'.live = e.live /\ db'.granted = e.granted
      /\ db'.funcs = e.funcs /\ db'.opens = e.opens /\ db'.sel = e.sel
      /\ db'.grants = db.grants \ gone \/ (s # db /\ db'.grants = db.grants)
  <2>1. CASE db' = e
    BY <1>3, <2>1
  <2>2. CASE s # db /\ db' = [e EXCEPT !.grants = db.grants]
    <3>1. e \in Rows /\ db.grants \in SUBSET Func
      BY <1>1, <1>3 DEF Rows
    <3> HIDE DEF s, m, gone
    <3> QED BY <2>2, <3>1 DEF Rows
  <2> QED BY <1>2, <2>1, <2>2
<1>7. \A f \in gone : MenuOf[f] = m
  BY DEF FuncsOf
<1> HIDE DEF gone
<1>8. \A f \in Func : MenuOf[f] # m =>
        /\ f \in db'.funcs <=> f \in db.funcs
        /\ db'.opens[f] = db.opens[f]
        /\ f \in db'.grants <=> f \in db.grants
        /\ \A q \in Role : f \in db'.sel[q] <=> f \in db.sel[q]
  BY <1>3, <1>6, <1>7
<1>9. /\ \A q \in Role : db'.sel[q] \subseteq db.sel[q]
      /\ db'.grants \subseteq db.grants
      /\ s = db => \A q \in Role :
           db.sel[q] \subseteq db.grants => db'.sel[q] \subseteq db'.grants
  BY <1>3, <1>6
<1>10. /\ db'.live = db.live /\ db'.granted = db.granted
       /\ \A x \in Menu : x # m => (x \in db'.menus <=> x \in db.menus)
  BY <1>3, <1>6
<1> HIDE DEF m
<1> QED BY <1>1, <1>2, <1>4, <1>5, <1>6, <1>8, <1>9, <1>10, WritingMenu

LEMMA UpdateMenuKeepsIInv ==
  ASSUME IInv, NEW a \in Admin, NEW fs \in Picks,
         NEW o \in [Func -> Opens], UpdateMenu(a, fs, o)
  PROVE  IInv'
<1> USE RoleGrantsAssumption
<1> DEFINE m == admin[a].on.menu
           s == admin[a].snap
           d == WithFuncs(s, m, fs, o)
<1>1. /\ admin[a].pc = "tx" /\ s \in Rows /\ db \in Rows /\ m \in Menu
      /\ fs \in SUBSET FuncsOf(m) /\ o \in [Func -> SUBSET Api]
  <2>1. admin[a].pc = "tx" /\ admin[a].on.kind = "menu" /\ fs \subseteq FuncsOf(m)
    BY DEF UpdateMenu, InTx
  <2>2. o \in [Func -> SUBSET Api]
    OBVIOUS
  <2> QED BY <2>1, <2>2, InTransaction, TargetFields
<1>2. /\ db' = WithFuncs(db, m, fs, o) /\ (s = db => d = db')
      /\ Rebuild(d, RolesWith(s, m)) /\ Rebuilds(a, RolesWith(s, m), RolesWith(db, m))
      /\ Commit(a, admin[a].on, Idle)
  BY DEF UpdateMenu
<1> HIDE DEF m
<1>3. /\ db' \in Rows
      /\ db'.menus = db.menus /\ db'.live = db.live /\ db'.granted = db.granted
      /\ db'.grants = db.grants /\ db'.sel = db.sel
      /\ \A f \in Func : MenuOf[f] # m =>
           /\ f \in db'.funcs <=> f \in db.funcs
           /\ db'.opens[f] = db.opens[f]
  BY <1>1, <1>2, WithFuncsFields
<1>4. d \in Rows
  <2>1. d = WithFuncs(s, m, fs, o)
    OBVIOUS
  <2> HIDE DEF d, s
  <2> QED BY <1>1, <2>1, WithFuncsFields
<1> HIDE DEF d
<1>5. \A f \in Func : MenuOf[f] # m =>
        /\ f \in db'.funcs <=> f \in db.funcs
        /\ db'.opens[f] = db.opens[f]
        /\ f \in db'.grants <=> f \in db.grants
        /\ \A q \in Role : f \in db'.sel[q] <=> f \in db.sel[q]
  BY <1>3
<1>6. /\ \A q \in Role : db'.sel[q] \subseteq db.sel[q]
      /\ db'.grants \subseteq db.grants
      /\ \A q \in Role : db.sel[q] \subseteq db.grants => db'.sel[q] \subseteq db'.grants
      /\ db'.live = db.live /\ db'.granted = db.granted
      /\ \A x \in Menu : x # m => (x \in db'.menus <=> x \in db.menus)
  BY <1>3
<1> QED BY <1>1, <1>2, <1>3, <1>4, <1>5, <1>6, WritingMenu

LEMMA DeleteMenuKeepsIInv ==
  ASSUME IInv, NEW a \in Admin, DeleteMenu(a)
  PROVE  IInv'
<1> USE RoleGrantsAssumption
<1> DEFINE m == admin[a].on.menu
           s == admin[a].snap
           d == Deleted(s, m)
<1>1. admin[a].pc = "tx" /\ s \in Rows /\ db \in Rows /\ m \in Menu
  <2>1. admin[a].pc = "tx" /\ admin[a].on.kind = "delete"
    BY DEF DeleteMenu, InTx
  <2> QED BY <2>1, InTransaction, TargetFields
<1>2. /\ db' = Deleted(db, m) /\ (s = db => d = db')
      /\ Rebuild(d, RolesWith(s, m)) /\ Rebuilds(a, RolesWith(s, m), RolesWith(db, m))
      /\ Commit(a, admin[a].on, Idle)
  BY DEF DeleteMenu, Deleted
<1> HIDE DEF m
<1>3. /\ db' \in Rows
      /\ db'.menus = db.menus \ {m} /\ db'.live = db.live /\ db'.granted = db.granted
      /\ db'.grants = db.grants
      /\ \A r \in Role : db'.sel[r] = db.sel[r] \ FuncsOf(m)
      /\ \A f \in Func : MenuOf[f] # m =>
           /\ f \in db'.funcs <=> f \in db.funcs
           /\ db'.opens[f] = db.opens[f]
  BY <1>1, <1>2, DeletedFields
<1>4. d \in Rows
  <2>1. d = Deleted(s, m)
    OBVIOUS
  <2> HIDE DEF d, s
  <2> QED BY <1>1, <2>1, DeletedFields
<1> HIDE DEF d
<1>5. \A f \in Func : MenuOf[f] # m =>
        /\ f \in db'.funcs <=> f \in db.funcs
        /\ db'.opens[f] = db.opens[f]
        /\ f \in db'.grants <=> f \in db.grants
        /\ \A q \in Role : f \in db'.sel[q] <=> f \in db.sel[q]
  BY <1>3 DEF FuncsOf
<1>6. /\ \A q \in Role : db'.sel[q] \subseteq db.sel[q]
      /\ db'.grants \subseteq db.grants
      /\ \A q \in Role : db.sel[q] \subseteq db.grants => db'.sel[q] \subseteq db'.grants
      /\ db'.live = db.live /\ db'.granted = db.granted
      /\ \A x \in Menu : x # m => (x \in db'.menus <=> x \in db.menus)
  BY <1>3
<1> QED BY <1>1, <1>2, <1>3, <1>4, <1>5, <1>6, WritingMenu

LEMMA EnableApiKeepsIInv ==
  ASSUME IInv, NEW a \in Admin, EnableApi(a)
  PROVE  IInv'
<1> DEFINE x == admin[a].on.api
           s == admin[a].snap
           Live(d) == IF x \in s.live THEN d.live \ {x} ELSE d.live \cup {x}
           live == Live(db)
           d == [s EXCEPT !.live = Live(s)]
           rs == RolesOpening(s, x)
           now == RolesOpening(db, x)
<1>1. admin[a].pc = "tx" /\ s \in Rows /\ db \in Rows /\ x \in Api
  <2>1. admin[a].pc = "tx" /\ admin[a].on.kind = "api"
    BY DEF EnableApi, InTx
  <2> QED BY <2>1, InTransaction, TargetFields
<1>2. /\ db' = [db EXCEPT !.live = live] /\ (s = db => d = db')
      /\ Rebuild(d, rs) /\ Rebuilds(a, rs, now) /\ Commit(a, admin[a].on, Idle)
  BY DEF EnableApi
<1>3. /\ db' \in Rows /\ d \in Rows
      /\ db'.menus = db.menus /\ db'.funcs = db.funcs /\ db'.opens = db.opens
      /\ db'.granted = db.granted /\ db'.grants = db.grants /\ db'.sel = db.sel
      /\ db'.live = live
  <2>1. live \in SUBSET Api /\ Live(s) \in SUBSET Api
    BY <1>1 DEF Rows
  <2>2. d = [s EXCEPT !.live = Live(s)]
    OBVIOUS
  <2> HIDE DEF live, Live, d, s
  <2>3. d \in Rows
    BY <1>1, <2>1, <2>2 DEF Rows
  <2> QED BY <1>1, <1>2, <2>1, <2>3 DEF Rows
<1>4. ASSUME NEW q \in Role, q \notin now
      PROVE  Policies(db', q) = Policies(db, q)
  <2> DEFINE fs == {g \in db.sel[q] : Candidate(db, q, MenuOf[g])} \cap db.funcs
  <2>1. {g \in db'.sel[q] : Candidate(db', q, MenuOf[g])} \cap db'.funcs = fs
    BY <1>3 DEF Candidate
  <2>2. Policies(db', q) = live \cap UNION {db.opens[f] : f \in fs}
    BY <1>3, <2>1 DEF Policies, Yield
  <2>3. x \notin UNION {db.opens[f] : f \in fs}
    BY <1>4 DEF RolesOpening
  <2>4. Policies(db, q) = db.live \cap UNION {db.opens[f] : f \in fs}
    BY DEF Policies, Yield
  <2> HIDE DEF fs
  <2> QED BY <2>2, <2>3, <2>4
<1>5. s = db => rs = now
  OBVIOUS
<1>6. /\ loose' \in SUBSET Role /\ Updating \subseteq loose'
      /\ \A q \in Role \ loose' :
           \/ q \in rs /\ s = db
           \/ q \notin rs /\ q \notin loose /\ (s = db \/ q \notin now)
  <2>1. rs \in SUBSET Role /\ now \in SUBSET Role
    BY DEF RolesOpening
  <2>2. Rebuilds(a, rs, now)
    BY <1>2
  <2> HIDE DEF rs, now, x
  <2> QED BY <2>1, <2>2, Loosening
<1>7. \A q \in Role \ loose' : q \notin loose
  BY <1>2 DEF Rebuilds
<1>8. WithinBoundary' /\ GrantsInv'
  BY <1>3, <1>7 DEF IInv, WithinBoundary, GrantsInv
<1> HIDE DEF rs, now, d, live
<1>9. \A q \in Role \ loose' :
        \/ q \in rs /\ d = db'
        \/ q \notin rs /\ q \notin loose /\ Policies(db', q) = Policies(db, q)
  BY <1>2, <1>4, <1>5, <1>6
<1> QED BY <1>1, <1>2, <1>3, <1>6, <1>8, <1>9, Writing

LEMMA UpdateRoleKeepsIInv ==
  ASSUME IInv, NEW a \in Admin, NEW r \in Role, NEW pick \in Picks,
         NEW kept \in SUBSET db.sel[r], UpdateRole(a, r, pick, kept)
  PROVE  IInv'
<1> USE RoleGrantsAssumption
<1> DEFINE t == [kind |-> "role", role |-> r]
           job == [Idle EXCEPT !.pc = "read", !.on = t]
<1>1. /\ db' = [db EXCEPT !.sel[r] = pick \cup kept] /\ loose' = loose \cup {r}
      /\ Commit(a, t, job) /\ UNCHANGED rules /\ ~Locked(t)
  BY DEF UpdateRole
<1>2. t \in Target /\ job \in Job /\ job.pc = "read" /\ job.on = t
  BY DEF Target, Idle, Job, Seen
<1>3. db \in Rows /\ rules \in [Role -> SUBSET Api] /\ loose \subseteq Role
  BY DEF IInv, TypeOK
<1>4. pick \cup kept \in SUBSET Func
  BY <1>3 DEF Rows
<1>5. /\ db' \in Rows
      /\ db'.menus = db.menus /\ db'.funcs = db.funcs /\ db'.opens = db.opens
      /\ db'.live = db.live /\ db'.granted = db.granted /\ db'.grants = db.grants
      /\ \A q \in Role : q # r => db'.sel[q] = db.sel[q]
  BY <1>1, <1>3, <1>4 DEF Rows
<1>6. TypeOK' /\ UpdatingInv' /\ SeenInv' /\ ReadsAreTrue'
  <2>1. \A b \in Admin \ {a} : admin[b].pc = "tx" => Lock(admin[b].on) # Lock(t)
    BY <1>1 DEF Locked
  <2>2. job.on.kind = "role" /\ job.on.role \in loose' /\ Updating \subseteq loose'
    BY <1>1, <1>2 DEF IInv, UpdatingInv
  <2>3. loose' \in SUBSET Role /\ rules' \in [Role -> SUBSET Api]
    BY <1>1, <1>3
  <2> HIDE DEF job, t
  <2> QED BY <1>1, <1>2, <1>5, <2>1, <2>2, <2>3, Committing
<1>7. ASSUME NEW q \in Role, q # r PROVE Policies(db', q) = Policies(db, q)
  <2>1. db'.sel[q] \cap db'.funcs = db.sel[q] \cap db.funcs
    BY <1>5, <1>7
  <2>2. \A f \in db'.sel[q] \cap db'.funcs :
          /\ db'.opens[f] = db.opens[f]
          /\ Candidate(db', q, MenuOf[f]) <=> Candidate(db, q, MenuOf[f])
    BY <1>5 DEF Candidate
  <2> QED BY <1>5, <2>1, <2>2, SamePolicies
<1>8. RulesAreExact'
  BY <1>1, <1>7 DEF IInv, RulesAreExact
<1>9. WithinBoundary' /\ GrantsInv'
  BY <1>1, <1>5 DEF IInv, WithinBoundary, GrantsInv
<1> QED BY <1>6, <1>8, <1>9 DEF IInv

----------------------------------------------------------------------------

LEMMA NextKeepsIInv == IInv /\ [Next]_vars => IInv'
<1> SUFFICES ASSUME IInv, [Next]_vars PROVE IInv'
  OBVIOUS
<1>1. CASE UNCHANGED vars
  BY <1>1
  DEF vars, IInv, TypeOK, RulesAreExact, WithinBoundary, GrantsInv,
      UpdatingInv, Updating, SeenInv, ReadsAreTrue
<1>2. CASE Next
  <2> PICK a \in Admin :
        \/ \E t \in Target : View(a, t)
        \/ Leave(a)
        \/ Begin(a)
        \/ Abort(a)
        \/ \E pick \in Picks :
             \/ PublishRole(a, pick)
             \/ \E ms \in SUBSET Menu : PublishTenant(a, ms, pick)
             \/ \E o \in [Func -> Opens] : \/ ReplaceBindings(a, pick, o)
                                           \/ UpdateMenu(a, pick, o)
             \/ \E r \in Role : \E kept \in SUBSET db.sel[r] :
                  UpdateRole(a, r, pick, kept)
        \/ DeleteMenu(a)
        \/ EnableApi(a)
        \/ GetFullRole(a)
        \/ ClearCasbin(a)
        \/ CreateRules(a)
    BY <1>2 DEF Next
  <2> QED BY ViewKeepsIInv, BeginKeepsIInv, EndKeepsIInv, PublishRoleKeepsIInv,
             PublishTenantKeepsIInv, ReplaceBindingsKeepsIInv, UpdateMenuKeepsIInv,
             DeleteMenuKeepsIInv, EnableApiKeepsIInv, UpdateRoleKeepsIInv,
             UpdatingKeepsIInv
<1> QED BY <1>1, <1>2

\* The strengthened invariant holds in every reachable state.
THEOREM InductiveInvariant == Spec => []IInv
BY InitIInv, NextKeepsIInv, PTL DEF Spec

\* Every variable keeps its type.
THEOREM TypeCorrect == Spec => []TypeOK
<1>1. IInv => TypeOK
  BY DEF IInv
<1> QED BY <1>1, InductiveInvariant, PTL

\* In either kind of database a role that is not loose has exactly the rules
\* that its selection yields, whatever is published, rebound, deleted, enabled
\* and disabled at the same time, and whatever is done to other roles.
THEOREM RulesExact == Spec => []RulesAreExact
<1>1. IInv => RulesAreExact
  BY DEF IInv
<1> QED BY <1>1, InductiveInvariant, PTL

\* In either kind of database no role of the tenant that is not loose leaves
\* the tenant's grants.
THEOREM BoundaryKept == Spec => []WithinBoundary
<1>1. IInv => WithinBoundary
  BY DEF IInv
<1> QED BY <1>1, InductiveInvariant, PTL

\* In either kind of database no publication replaces what its administrator
\* has not seen, unless it has been overtaken.
THEOREM NothingLost == Spec => NoLostPublication
<1>1. IInv /\ [Next]_vars =>
        [\A a \in Admin :
           /\ admin[a].pc = "tx" /\ admin'[a].pc = "idle" /\ db' # db
           /\ admin[a].on.kind \in {"role", "tenant", "bindings"}
           => a \in overtaken \/ Revision(db, admin[a].on) = admin[a].seen]_vars
  BY DEF IInv, SeenInv
<1> QED BY <1>1, InductiveInvariant, PTL DEF Spec, NoLostPublication

\* In an isolated database the reads of a transaction stay true and none is
\* overtaken: only the older operations make a role loose there.
THEOREM IsolatedReadsTrue == Spec => []ReadsAreTrue
<1>1. IInv => ReadsAreTrue
  BY DEF IInv
<1> QED BY <1>1, InductiveInvariant, PTL
=============================================================================
