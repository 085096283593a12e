-------------------------------- MODULE Catalog --------------------------------
(***************************************************************************)
(* The catalogue of a product, applied to the tables of one of its tenants *)
(* (authorization/catalog.go): roles, menus, functions and APIs, what the  *)
(* roles and the tenant are granted at first, and the rules this yields.   *)
(* Every start of every instance of the product applies its version of the *)
(* catalogue again, and in between administrators change the grants.       *)
(*                                                                         *)
(* An application is a transaction, in two steps: what it reads and what   *)
(* it writes; a third step rebuilds the rules of the APIs that need no     *)
(* role.  In an isolated database (SQLite) it fails when something else    *)
(* has been committed since it read; otherwise (MySQL) it reads from a     *)
(* snapshot.  What administrators do is one step each, and a second one    *)
(* for the rules of the older operations (RoleGrants has the steps of      *)
(* their transactions): an application reads what is old by then, but they *)
(* do not.  They delete no menu and rebind no function; those of an        *)
(* applied catalogue are protected from that.                              *)
(*                                                                         *)
(* Abstracted: names, titles and the other columns; the order of menus;    *)
(* the path and the method of an API and the menu of a function, which the *)
(* versions do not change; the length of IDs; the platform's own roles;    *)
(* the enforcers (RolePolicy).  Anonymous access and access without a role *)
(* are not told apart.                                                     *)
(***************************************************************************)
EXTENDS Naturals

CONSTANTS
  Role, Menu, Func, Api,
  MenuOf,     \* MenuOf[f]: the menu of function f
  User,       \* the users of the tenant
  Instance,   \* what applies catalogues: instances of the product
  Version,    \* versions of the catalogue
  Product,    \* Product[v]: the catalogue of version v
  NoVersion,
  MaxChanges  \* a bound: the changes administrators make

Item == Menu \cup Api

Catalogs ==
  [roles: SUBSET Role, menus: SUBSET Menu, funcs: SUBSET Func, apis: SUBSET Api,
   opens: [Func -> SUBSET Api],     \* the APIs of a function
   checked: SUBSET Api,             \* APIs that need a role
   grants: [Role -> SUBSET Func],   \* RoleGrants
   bounds: SUBSET Func,             \* TenantGrants
   abac: SUBSET Role,               \* roles with an ABAC policy
   default: Role]                   \* the role of users without one

ASSUME CatalogAssumption ==
  /\ MenuOf \in [Func -> Menu]
  /\ Menu \cap Api = {}
  /\ Product \in [Version -> Catalogs]
  /\ NoVersion \notin Version
  /\ MaxChanges \in Nat

VARIABLES
  isolated,  \* whether transactions exclude each other
  db,        \* the rows, without the rules
  rules,     \* rules[r]: the APIs role r has a casbin_rule for
  open,      \* the APIs with a rule for everybody: the pseudo roles 0 and -1
  inst,      \* inst[i]: what instance i is doing
  last,      \* the version applied last
  applied,   \* the versions that have been applied
  changes,   \* counts what administrators have changed
  updating,  \* roles whose rules an older operation is about to write
  loose      \* history: roles that an older operation has written, or an
             \* application whose reads were no longer true, since a publication
             \* has last set both their selection and their rules

vars == <<isolated, db, rules, open, inst, last, applied, changes, updating, loose>>

\* A row of a menu or an API has the ID of the catalogue ("own"), or is older
\* than that and is found by its name ("other").
Rows ==
  [row: [Item -> {"none", "other", "own"}],
   must: SUBSET Item,                     \* is_must: administrators keep it
   roles: SUBSET Role,
   live: SUBSET Api, checked: SUBSET Api, \* enable, check_auth
   funcs: SUBSET Func, opens: [Func -> SUBSET Api],
   granted: SUBSET Menu,                  \* menus with a tenant_menus row
   grants: SUBSET Func,                   \* the functions in these rows
   shown: [Role -> SUBSET Menu],          \* menus with a role_menus row
   sel: [Role -> SUBSET Func],            \* the functions in these rows
   abac: [Role -> {"none", "product", "edited"}],
   holds: [User -> SUBSET Role]]          \* user_roles

None == [none |-> TRUE]

Job == [pc: {"idle", "tx", "rules"}, v: Version \cup {NoVersion},
        snap: Rows \cup {None}]
Idle == [pc |-> "idle", v |-> NoVersion, snap |-> None]

FuncsOf(ms) == {f \in Func : MenuOf[f] \in ms}
MenusOf(fs) == {MenuOf[f] : f \in fs}
Items(c) == c.menus \cup c.apis

\* Rows that refer to others: a tenant_menus row holds functions of its menu, a
\* role_menus row as well; what a catalogue defines is there and enabled; only
\* functions open APIs.
Consistent(d) ==
  /\ d.grants \subseteq FuncsOf(d.granted)
  /\ \A r \in Role : d.sel[r] \subseteq FuncsOf(d.shown[r])
  /\ \A t \in d.must : d.row[t] # "none" /\ (t \in Api => t \in d.live)
  /\ \A f \in Func : d.opens[f] # {} => f \in d.funcs

TypeOK ==
  /\ isolated \in BOOLEAN
  /\ db \in Rows
  /\ Consistent(db)
  /\ rules \in [Role -> SUBSET Api]
  /\ open \in SUBSET Api
  /\ inst \in [Instance -> Job]
  /\ \A i \in Instance : /\ inst[i].pc # "idle" => inst[i].v \in Version
                         /\ inst[i].pc = "tx" => inst[i].snap \in Rows
  /\ last \in applied \cup {NoVersion}
  /\ applied \subseteq Version
  /\ changes \in 0..MaxChanges
  /\ updating \subseteq loose /\ loose \subseteq Role

----------------------------------------------------------------------------
\* The application of a catalogue

\* validateAuthorizationCatalog: what is named is defined.
Valid(c) ==
  /\ c.default \in c.roles
  /\ MenusOf(c.funcs) \subseteq c.menus
  /\ c.checked \subseteq c.apis
  /\ \A f \in Func : c.opens[f] \subseteq IF f \in c.funcs THEN c.apis ELSE {}
  /\ \A r \in Role : c.grants[r] \subseteq IF r \in c.roles THEN c.funcs ELSE {}
  /\ c.bounds \subseteq c.funcs
  /\ c.abac \subseteq c.roles

\* Mutant: every menu and every API has its ID.
AppliedByAll(d, c) == \A t \in Items(c) : d.row[t] = "own"

\* authorizationCatalogPreviouslyApplied: a menu or an API has its ID, or a
\* tenant_menus row refers to one (which no menu here loses).
PreviouslyApplied(d, c) ==
  \/ \E t \in Items(c) : d.row[t] = "own"
  \/ Items(c) = {} /\ d.roles \cap c.roles # {}
  \/ \E m \in c.menus \cap d.granted : d.row[m] = "own"

\* The upserts: what is missing is created, what is there is enabled again and
\* has its bindings completed.
Upserted(d, c) ==
  [d EXCEPT
     !.row = [t \in Item |-> IF t \in Items(c) /\ @[t] = "none" THEN "own" ELSE @[t]],
     !.must = @ \cup Items(c),
     !.roles = @ \cup c.roles,
     !.live = @ \cup c.apis,
     !.checked = (@ \ c.apis) \cup c.checked,
     !.funcs = @ \cup c.funcs,
     !.opens = [f \in Func |-> @[f] \cup c.opens[f]]]

\* ensureCatalogRoleGrant and ensureCatalogTenantGrant, for a first
\* application: menus without a row, as s has it, get one.
Seeded(d, s, c) ==
  LET missing == MenusOf(c.bounds) \ s.granted
      absent(r) == MenusOf(c.grants[r]) \ s.shown[r]
  IN  [d EXCEPT
         !.granted = @ \cup missing,
         !.grants = @ \cup (c.bounds \cap FuncsOf(missing)),
         !.shown = [r \in Role |-> @[r] \cup absent(r)],
         !.sel = [r \in Role |-> @[r] \cup (c.grants[r] \cap FuncsOf(absent(r)))]]

\* ensureCatalogABACPolicy: a missing policy is created at any application.
WithPolicies(d, c, seed) ==
  [d EXCEPT !.abac = [r \in Role |-> IF r \in c.abac /\ (seed \/ @[r] = "none")
                                       THEN "product" ELSE @[r]]]

\* backfillCatalogDefaultRole, for the users without a role in s.
Backfilled(d, s, c) ==
  [d EXCEPT !.holds = [u \in User |-> IF s.holds[u] = {} THEN @[u] \cup {c.default}
                                                         ELSE @[u]]]

\* The rows d after an application that has read s.
Applied(d, s, c) ==
  LET seed == ~PreviouslyApplied(s, c)
      e == Upserted(d, c)
      g == IF seed THEN Seeded(e, s, c) ELSE e
  IN  Backfilled(WithPolicies(g, c, seed), s, c)

\* Mutant: the grants of the tenant are left out.
EffectiveForRole(d, c, r) == UNION {c.opens[f] : f \in c.grants[r] \cap d.sel[r]}

\* ensureCatalogCasbinRules: the functions of the catalogue's grants that the
\* role still has selected and the tenant still has granted.
Effective(d, c, r) ==
  UNION {c.opens[f] : f \in c.grants[r] \cap d.sel[r] \cap d.grants}

\* A row that another application has created in the meantime has the same ID.
Clash(d, s, c) == \E t \in Items(c) : s.row[t] = "none" /\ d.row[t] = "own"

\* The transactions that fail when another one is committed.
Interrupted(jobs) ==
  [i \in Instance |-> IF isolated /\ jobs[i].pc = "tx" THEN Idle ELSE jobs[i]]

Init ==
  /\ isolated \in BOOLEAN
  /\ \E old \in SUBSET Item : \E checked \in SUBSET (old \cap Api) :
       /\ db = [row |-> [t \in Item |-> IF t \in old THEN "other" ELSE "none"],
                must |-> {}, roles |-> {}, live |-> old \cap Api, checked |-> checked,
                funcs |-> {}, opens |-> [f \in Func |-> {}],
                granted |-> {}, grants |-> {},
                shown |-> [r \in Role |-> {}], sel |-> [r \in Role |-> {}],
                abac |-> [r \in Role |-> "none"],
                holds |-> [u \in User |-> {}]]
       /\ open = (old \cap Api) \ checked
  /\ rules = [r \in Role |-> {}]
  /\ inst = [i \in Instance |-> Idle]
  /\ last = NoVersion
  /\ applied = {}
  /\ changes = 0
  /\ updating = {} /\ loose = {}

\* The reads of Apply.
Begin(i, v) ==
  /\ inst[i].pc = "idle"
  /\ Valid(Product[v])
  /\ inst' = [inst EXCEPT ![i] = [pc |-> "tx", v |-> v, snap |-> db]]
  /\ UNCHANGED <<isolated, db, rules, open, last, applied, changes, updating, loose>>

\* The writes of Apply.
Commit(i) ==
  /\ inst[i].pc = "tx"
  /\ LET v == inst[i].v
         c == Product[v]
         s == inst[i].snap
         seen == Applied(s, s, c)
     IN  /\ ~Clash(db, s, c)
         /\ db' = Applied(db, s, c)
         /\ rules' = [r \in Role |-> rules[r] \cup Effective(seen, c, r)]
         /\ last' = v
         /\ applied' = applied \cup {v}
         /\ loose' = IF s = db THEN loose
                     ELSE loose \cup {r \in Role : c.grants[r] # {}}
         /\ inst' = Interrupted([inst EXCEPT ![i] = [pc |-> "rules", v |-> v,
                                                     snap |-> None]])
  /\ UNCHANGED <<isolated, open, changes, updating>>

\* A transaction that fails, or an instance that stops.
Fail(i) ==
  /\ inst[i].pc # "idle"
  /\ inst' = [inst EXCEPT ![i] = Idle]
  /\ UNCHANGED <<isolated, db, rules, open, last, applied, changes, updating, loose>>

\* UpdateNotCheckAuthRule and UpdateNotCheckLoginRule: APIs that are not
\* enabled get their rules as well.
OpenRules(i) ==
  /\ inst[i].pc = "rules"
  /\ open' = {x \in Api : db.row[x] # "none"} \ db.checked
  /\ inst' = [inst EXCEPT ![i] = Idle]
  /\ UNCHANGED <<isolated, db, rules, last, applied, changes, updating, loose>>

----------------------------------------------------------------------------
\* The administrators

\* What the functions fs open.
Yield(d, fs) == d.live \cap UNION {d.opens[f] : f \in fs}

\* The rules of role r when they are built from the rows d.
Policies(d, r) == Yield(d, d.sel[r] \cap FuncsOf(d.granted))

\* Rules are rebuilt for the roles rs.
Rebuild(d, rs) ==
  rules' = [r \in Role |-> IF r \in rs THEN Policies(d, r) ELSE rules[r]]

Administered(d) ==
  /\ changes < MaxChanges
  /\ changes' = changes + 1
  /\ db' = d
  /\ inst' = Interrupted(inst)
  /\ UNCHANGED <<isolated, last, applied>>

\* publishRoleAuthorization, within the grants of the tenant.
PublishRole(r, ms, pick) ==
  /\ r \in db.roles
  /\ ms \subseteq db.granted /\ pick \subseteq FuncsOf(ms) \cap db.grants \cap db.funcs
  /\ LET d == [db EXCEPT !.shown[r] = ms, !.sel[r] = pick]
     IN  Administered(d) /\ Rebuild(d, {r})
  /\ loose' = loose \ ({r} \ updating)
  /\ UNCHANGED <<open, updating>>

\* PublishTenantMenuAuthorization: the roles are narrowed to the grants.
PublishTenant(ms, pick) ==
  /\ \A m \in ms : db.row[m] # "none"
  /\ pick \subseteq FuncsOf(ms) \cap db.funcs
  /\ LET d == [db EXCEPT !.granted = ms, !.grants = pick,
                         !.shown = [r \in Role |-> @[r] \cap ms],
                         !.sel = [r \in Role |-> @[r] \cap pick]]
         narrowed == {r \in Role : d.shown[r] # db.shown[r] \/ d.sel[r] # db.sel[r]}
     IN  /\ Administered(d) /\ Rebuild(d, narrowed)
         /\ loose' = loose \ (narrowed \ updating)
  /\ UNCHANGED <<open, updating>>

\* Mutant: any API can be disabled.
EnableAnyApi(x) ==
  /\ db.row[x] # "none"
  /\ LET d == [db EXCEPT !.live = IF x \in @ THEN @ \ {x} ELSE @ \cup {x}]
     IN  /\ Administered(d)
         /\ Rebuild(d, {r \in Role : \E f \in d.sel[r] \cap d.funcs : x \in d.opens[f]})
         /\ open' = d.live \ d.checked
  /\ UNCHANGED <<updating, loose>>

\* enableAPIResource: an API of a catalogue cannot be disabled.
EnableApi(x) ==
  /\ db.row[x] # "none"
  /\ x \in db.live => x \notin db.must
  /\ LET d == [db EXCEPT !.live = IF x \in @ THEN @ \ {x} ELSE @ \cup {x}]
     IN  /\ Administered(d)
         /\ Rebuild(d, {r \in Role : \E f \in d.sel[r] \cap d.funcs : x \in d.opens[f]})
         /\ open' = d.live \ d.checked
  /\ UNCHANGED <<updating, loose>>

\* UpdateABACPolicy and DeleteABACPolicy.
ChangePolicy(r, to) ==
  /\ db.abac[r] # "none" /\ to \in {"none", "edited"}
  /\ Administered([db EXCEPT !.abac[r] = to])
  /\ UNCHANGED <<rules, open, updating, loose>>

\* The transaction of UpdateRole, or of CreateRole for a role that is not
\* there (ImportRole does either): the rows of the request, without a boundary.
UpdateRole(r, ms, pick) ==
  /\ pick \subseteq FuncsOf(ms)
  /\ Administered([db EXCEPT !.roles = @ \cup {r}, !.shown[r] = ms, !.sel[r] = pick])
  /\ updating' = updating \cup {r} /\ loose' = loose \cup {r}
  /\ UNCHANGED <<rules, open>>

\* updateRoleAuth: the rules of what is selected, granted or not; none when it
\* fails after the old ones are gone; the old ones when it fails before.
UpdateRoleAuth(r) ==
  /\ r \in updating
  /\ \E new \in {Yield(db, {f \in db.sel[r] : db.row[MenuOf[f]] # "none"}), {}, rules[r]} :
       rules' = [rules EXCEPT ![r] = new]
  /\ updating' = updating \ {r}
  /\ inst' = Interrupted(inst)
  /\ UNCHANGED <<isolated, db, open, last, applied, changes, loose>>

\* The roles of a user replaced.
AssignRoles(u, rs) ==
  /\ rs \subseteq db.roles
  /\ Administered([db EXCEPT !.holds[u] = rs])
  /\ UNCHANGED <<rules, open, updating, loose>>

Next ==
  \/ \E i \in Instance :
       \/ \E v \in Version : Begin(i, v)
       \/ Commit(i) \/ Fail(i) \/ OpenRules(i)
  \/ \E ms \in SUBSET Menu, pick \in SUBSET Func :
       \/ \E r \in Role : PublishRole(r, ms, pick) \/ UpdateRole(r, ms, pick)
       \/ PublishTenant(ms, pick)
  \/ \E x \in Api : EnableApi(x)
  \/ \E r \in Role :
       \/ \E to \in {"none", "edited"} : ChangePolicy(r, to)
       \/ UpdateRoleAuth(r)
  \/ \E u \in User, rs \in SUBSET Role : AssignRoles(u, rs)

Spec == Init /\ [][Next]_vars

----------------------------------------------------------------------------
\* Properties

\* The rules of a role stay within what it has selected, its tenant is granted
\* and is enabled, whichever versions have been applied and whatever has been
\* published and disabled in between.  Except for loose roles: UpdateRole asks
\* for no boundary, and an application that overlaps a change on MySQL writes
\* rules for what it has read (catalog.go:887).
RulesFollowGrants == \A r \in Role \ loose : rules[r] \subseteq Policies(db, r)

\* Every menu and every API of v is older than its ID.
Adopted(v) == \A t \in Items(Product[v]) : db.row[t] = "other"

\* What the application by i writes of what administrators decide.
Decisions(i) ==
  LET v == inst[i].v
      Same(field) == db'[field] = db[field]
  IN  /\ applied = {} /\ inst[i].snap.granted = {} => Product[v].bounds \subseteq db'.grants
      /\ v \in applied /\ ~Adopted(v) =>
           /\ Same("granted") /\ Same("grants") /\ Same("shown") /\ Same("sel")
           /\ \A r \in Role : db.abac[r] = "edited" => db'.abac[r] = "edited"
      /\ isolated => \A u \in User : db.holds[u] # {} => db'.holds[u] = db.holds[u]

\* The first application grants the tenant what the catalogue says, also when
\* a role of the catalogue is older.  A version that is applied again takes back
\* nothing administrators have decided of grants, selections and policies, in
\* any database, unless it has adopted all it defines.  In an isolated one no
\* application changes a user who has a role (catalog_test.go:196 and 258).
SeededOnce ==
  [][\A i \in Instance : inst[i].pc = "tx" /\ inst'[i].pc = "rules" => Decisions(i)]_vars
=============================================================================
