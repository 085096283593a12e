------------------------------ MODULE RoleGrants ------------------------------
(***************************************************************************)
(* What roles are allowed, from the catalogue of menus, functions and APIs *)
(* to the rules: internal/permission/role_authorization.go,                *)
(* tenant_menu_authorization.go, menu_function_binding.go, menu.go and     *)
(* api_resource.go, for one tenant.  A tenant has grants, its roles have   *)
(* selections within them, a selected function opens APIs, and a role has  *)
(* a rule for every enabled API it opens.  Administrators change any of    *)
(* these in transactions, which prune and rebuild what depends on them.    *)
(* The older operations (UpdateRole, and what is like it) write selections *)
(* without a boundary or a revision, and the rules after the transaction.  *)
(*                                                                         *)
(* A transaction is two steps: the reads, with the row lock it takes       *)
(* first, and the writes.  In an isolated database (SQLite) a commit makes *)
(* the other transactions that have begun fail; otherwise (MySQL) only the *)
(* row locks keep them apart, and reads are from a snapshot.  Rows that a  *)
(* transaction has updated are read as they have become; that is not told  *)
(* apart, as it concerns roles that are loose then.                        *)
(*                                                                         *)
(* Abstracted: functions with the same path and method, the menu tree and  *)
(* which menus are shown, from which no rule comes; disabled roles and     *)
(* enforcers (RolePolicy); sessions; ABAC policies; the rules of the       *)
(* pseudo roles "0" and "-1".                                              *)
(***************************************************************************)
CONSTANTS
  Role,      \* the roles
  Base,      \* public roles and those of the platform, which have no boundary
  Menu, Func, Api,
  MenuOf,    \* MenuOf[f]: the menu of function f
  Admin,     \* administrators
  Picks,     \* the sets of functions an instance selects and grants
  Opens,     \* the sets of APIs it binds to a function
  Isolated   \* whether transactions that overlap exclude each other

ASSUME RoleGrantsAssumption ==
  /\ Base \subseteq Role
  /\ MenuOf \in [Func -> Menu]
  /\ Picks \subseteq SUBSET Func
  /\ Opens \subseteq SUBSET Api
  /\ Isolated \in BOOLEAN

VARIABLES
  db,     \* the rows of the catalogue, the grants and the selections
  rules,  \* rules[r]: the casbin_rule rows of r
  admin,  \* admin[a]: what administrator a is doing
  loose,  \* history: roles that an older operation, or a transaction whose
          \* reads were no longer true, has written or should have, since a
          \* publication has last set both their selection and their rules
  overtaken  \* history: administrators in a transaction, what they replace in
             \* which a transaction that locks another row has changed since

vars == <<db, rules, admin, loose, overtaken>>

Rows ==
  [menus: SUBSET Menu,             \* menus
   funcs: SUBSET Func,             \* menu_funcs
   opens: [Func -> SUBSET Api],    \* menu_func_apis
   live: SUBSET Api,               \* the enabled apis
   granted: SUBSET Menu,           \* menus with a tenant_menus row
   grants: SUBSET Func,            \* the functions in these rows
   sel: [Role -> SUBSET Func]]     \* the functions in the role_menus rows

\* What an administrator changes.
Target ==
  [kind: {"role"}, role: Role] \cup [kind: {"tenant"}]
    \cup [kind: {"bindings", "menu", "delete"}, menu: Menu]
    \cup [kind: {"api"}, api: Api]

None == [none |-> TRUE]

FuncsOf(m) == {f \in Func : MenuOf[f] = m}

\* What the revision of a target is the hash of.
Revision(d, t) ==
  CASE t.kind = "role"     -> [sel |-> d.sel[t.role]]
    [] t.kind = "tenant"   -> [granted |-> d.granted, grants |-> d.grants]
    [] t.kind = "bindings" ->
         [opens |-> [f \in d.funcs \cap FuncsOf(t.menu) |-> d.opens[f]]]
    [] OTHER               -> None

Seen ==
  [sel: SUBSET Func] \cup [granted: SUBSET Menu, grants: SUBSET Func]
    \cup [opens: UNION {[F -> SUBSET Api] : F \in SUBSET Func}] \cup {None}

\* read, clear, create: updateRoleAuth, with the rules it has listed.
Job == [pc: {"idle", "viewing", "tx", "read", "clear", "create"},
        on: Target \cup {None}, seen: Seen, snap: Rows \cup {None},
        list: SUBSET Api]

Idle ==
  [pc |-> "idle", on |-> None, seen |-> None, snap |-> None, list |-> {}]

TypeOK ==
  /\ db \in Rows
  /\ rules \in [Role -> SUBSET Api]
  /\ admin \in [Admin -> Job]
  /\ \A a \in Admin : /\ admin[a].pc # "idle" => admin[a].on \in Target
                      /\ admin[a].pc = "tx" => admin[a].snap \in Rows
                      /\ admin[a].pc \in {"read", "clear", "create"} =>
                           admin[a].on.kind = "role"
  /\ loose \subseteq Role /\ overtaken \subseteq Admin

----------------------------------------------------------------------------
\* Boundaries and policies

\* loadRoleAuthorizationCandidates: menus that exist and, unless the role has
\* no boundary, are granted.
Candidate(d, r, m) == m \in d.menus /\ (r \in Base \/ m \in d.granted)

\* The functions of the candidates that a role may select.
Allowed(d, r) ==
  {f \in d.funcs : Candidate(d, r, MenuOf[f]) /\ (r \in Base \/ f \in d.grants)}

\* What the functions fs open.
Yield(d, fs) == d.live \cap UNION {d.opens[f] : f \in fs \cap d.funcs}

\* The policies of buildRoleAuthorizationPreview: a selected function counts
\* when its menu is a candidate, whether or not it is granted itself.
Policies(d, r) == Yield(d, {f \in d.sel[r] : Candidate(d, r, MenuOf[f])})

\* Roles whose rules an older operation is about to write.
Updating ==
  {admin[a].on.role : a \in {b \in Admin :
                               admin[b].pc \in {"read", "clear", "create"}}}

----------------------------------------------------------------------------
\* Administrators

Init ==
  /\ db \in {[menus |-> Menu, funcs |-> Func, opens |-> o, live |-> Api,
              granted |-> Menu, grants |-> Func, sel |-> s] :
               o \in [Func -> Opens], s \in [Role -> Picks]}
  /\ rules = [r \in Role |-> Policies(db, r)]
  /\ admin = [a \in Admin |-> Idle]
  /\ loose = {} /\ overtaken = {}

\* An administrator reads t, with its revision.
View(a, t) ==
  /\ admin[a].pc = "idle"
  /\ t \in Target
  /\ admin' = [admin EXCEPT ![a] = [pc |-> "viewing", on |-> t,
                                    seen |-> Revision(db, t), snap |-> None,
                                    list |-> {}]]
  /\ UNCHANGED <<db, rules, loose, overtaken>>

Leave(a) ==
  /\ admin[a].pc = "viewing"
  /\ admin' = [admin EXCEPT ![a] = Idle]
  /\ UNCHANGED <<db, rules, loose, overtaken>>

\* The row a transaction locks first.
Lock(t) ==
  CASE t.kind \in {"bindings", "menu", "delete"} -> [menu |-> t.menu]
    [] OTHER                                     -> t

Locked(t) ==
  \E b \in Admin : admin[b].pc = "tx" /\ Lock(admin[b].on) = Lock(t)

\* Mutant: the base revision is not compared.
BeginAnyway(a) ==
  /\ admin[a].pc = "viewing"
  /\ ~Locked(admin[a].on)
  /\ admin' = [admin EXCEPT ![a].pc = "tx", ![a].snap = db]
  /\ UNCHANGED <<db, rules, loose, overtaken>>

\* Mutant: nothing is read inside the transaction.
BeginBlind(a) ==
  /\ admin[a].pc = "viewing"
  /\ ~Locked(admin[a].on)
  /\ Revision(db, admin[a].on) = admin[a].seen
  /\ admin' = [admin EXCEPT ![a].pc = "tx"]
  /\ UNCHANGED <<db, rules, loose, overtaken>>

\* The lock, the comparison of revisions, and the reads of a transaction.  When
\* the revision is not the one the administrator has seen, there is a conflict,
\* and the administrator leaves.
Begin(a) ==
  /\ admin[a].pc = "viewing"
  /\ ~Locked(admin[a].on)
  /\ Revision(db, admin[a].on) = admin[a].seen
  /\ admin' = [admin EXCEPT ![a].pc = "tx", ![a].snap = db]
  /\ UNCHANGED <<db, rules, loose, overtaken>>

\* A transaction, or what updateRoleAuth does after one, fails.
Abort(a) ==
  /\ admin[a].pc \in {"tx", "read", "clear", "create"}
  /\ admin' = [admin EXCEPT ![a] = Idle]
  /\ overtaken' = overtaken \ {a}
  /\ UNCHANGED <<db, rules, loose>>

\* The end of a transaction of a on t, which goes on with job.  In an isolated
\* database the others fail, and may be sent again.
Commit(a, t, job) ==
  /\ admin' = [b \in Admin |->
                CASE b = a -> job
                  [] b # a /\ Isolated /\ admin[b].pc = "tx" ->
                       [admin[b] EXCEPT !.pc = "viewing", !.snap = None]
                  [] OTHER -> admin[b]]
  /\ overtaken' =
       {b \in Admin \ {a} :
          /\ ~Isolated /\ admin[b].pc = "tx"
          /\ \/ b \in overtaken
             \/ /\ Lock(admin[b].on) # Lock(t)
                /\ Revision(db', admin[b].on) # Revision(db, admin[b].on)}

\* rebuildRoleAuthorizationPolicies for the roles rs, from the rows d.
Rebuild(d, rs) ==
  rules' = [r \in Role |-> IF r \in rs THEN Policies(d, r) ELSE rules[r]]

\* History: the transaction of a has set the selection and the rules of the
\* roles rs; had it read the rows of now, those of the roles now.
Publishes(a, rs, now) ==
  loose' = IF admin[a].snap = db THEN loose \ (rs \ Updating)
                                 ELSE loose \cup rs \cup now

\* History: it has rebuilt the rules of rs.
Rebuilds(a, rs, now) ==
  loose' = IF admin[a].snap = db THEN loose ELSE loose \cup rs \cup now

InTx(a, kind) == admin[a].pc = "tx" /\ admin[a].on.kind = kind

----------------------------------------------------------------------------
\* The writes of the transactions

\* publishRoleAuthorization: a selection outside the boundary is refused.
PublishRole(a, pick) ==
  /\ InTx(a, "role")
  /\ LET r == admin[a].on.role
         d == [admin[a].snap EXCEPT !.sel[r] = pick]
     IN  /\ pick \subseteq Allowed(d, r)
         /\ db' = [db EXCEPT !.sel[r] = pick]
         /\ Rebuild(d, {r})
         /\ Publishes(a, {r}, {})
  /\ Commit(a, admin[a].on, Idle)

\* pruneRoleSelectionsToTenantBoundary
Pruned(d, r, ms, pick) == {f \in d.sel[r] : MenuOf[f] \in ms /\ f \in pick}

\* Roles of the tenant that lose functions.
Narrowed(d, ms, pick) ==
  {r \in Role \ Base : Pruned(d, r, ms, pick) # d.sel[r]}

\* Mutant: the selections of the roles stay as they are.
PublishTenantOnly(a, ms, pick) ==
  /\ InTx(a, "tenant")
  /\ LET s == admin[a].snap
     IN  /\ ms \subseteq s.menus /\ pick \subseteq s.funcs
         /\ \A f \in pick : MenuOf[f] \in ms
         /\ db' = [db EXCEPT !.granted = ms, !.grants = pick]
         /\ Publishes(a, {}, {})
  /\ UNCHANGED rules
  /\ Commit(a, admin[a].on, Idle)

\* PublishTenantMenuAuthorization: the grants are replaced, the roles of the
\* tenant narrowed to them, and the rules of those it changes rebuilt.
PublishTenant(a, ms, pick) ==
  /\ InTx(a, "tenant")
  /\ LET s == admin[a].snap
         narrowed == Narrowed(s, ms, pick)
         Narrow(sel) ==
           [r \in Role |-> IF r \in narrowed THEN Pruned(s, r, ms, pick)
                                             ELSE sel[r]]
     IN  /\ ms \subseteq s.menus /\ pick \subseteq s.funcs
         /\ \A f \in pick : MenuOf[f] \in ms
         /\ db' = [db EXCEPT !.granted = ms, !.grants = pick, !.sel = Narrow(@)]
         /\ Rebuild([s EXCEPT !.granted = ms, !.grants = pick, !.sel = Narrow(@)],
                    narrowed)
         /\ Publishes(a, narrowed, {r \in Role : db.sel[r] # s.sel[r]})
  /\ Commit(a, admin[a].on, Idle)

\* menuRoleIDs, without the roles that only show the menu.
RolesWith(d, m) == {r \in Role : d.sel[r] \cap FuncsOf(m) # {}}

\* The functions of menu m become fs, which open o.
WithFuncs(d, m, fs, o) ==
  [d EXCEPT !.funcs = (@ \ FuncsOf(m)) \cup fs,
            !.opens = [f \in Func |-> IF MenuOf[f] # m THEN @[f]
                                      ELSE IF f \in fs THEN o[f] ELSE {}]]

\* pruneMenuFunctionSelections: what is no function of m any more leaves the
\* selections and the grants.
WithoutStale(d, m, fs) ==
  [d EXCEPT !.sel = [r \in Role |-> @[r] \ (FuncsOf(m) \ fs)],
            !.grants = @ \ (FuncsOf(m) \ fs)]

\* ReplaceMenuFunctionBindings.  It updates the grants it has read by their
\* ids, and misses those that a publication has replaced since.
ReplaceBindings(a, fs, o) ==
  /\ InTx(a, "bindings")
  /\ LET m == admin[a].on.menu
         s == admin[a].snap
         Replaced(d) == WithoutStale(WithFuncs(d, m, fs, o), m, fs)
     IN  /\ m \in s.menus /\ fs \subseteq FuncsOf(m)
         /\ \/ db' = Replaced(db)
            \/ s # db /\ db' = [Replaced(db) EXCEPT !.grants = db.grants]
         /\ Rebuild(Replaced(s), RolesWith(s, m))
         /\ Rebuilds(a, RolesWith(s, m), RolesWith(db, m))
  /\ Commit(a, admin[a].on, Idle)

\* UpdateMenu with functions: it compares no revision and prunes nothing.
UpdateMenu(a, fs, o) ==
  /\ InTx(a, "menu")
  /\ LET m == admin[a].on.menu
         s == admin[a].snap
     IN  /\ m \in s.menus /\ fs \subseteq FuncsOf(m)
         /\ db' = WithFuncs(db, m, fs, o)
         /\ Rebuild(WithFuncs(s, m, fs, o), RolesWith(s, m))
         /\ Rebuilds(a, RolesWith(s, m), RolesWith(db, m))
  /\ Commit(a, admin[a].on, Idle)

\* DeleteMenu: the selections go with the menu, the grants stay.
DeleteMenu(a) ==
  /\ InTx(a, "delete")
  /\ LET m == admin[a].on.menu
         s == admin[a].snap
         Deleted(d) ==
           [WithFuncs(d, m, {}, d.opens) EXCEPT
              !.menus = @ \ {m},
              !.sel = [r \in Role |-> @[r] \ FuncsOf(m)]]
     IN  /\ m \in s.menus
         /\ db' = Deleted(db)
         /\ Rebuild(Deleted(s), RolesWith(s, m))
         /\ Rebuilds(a, RolesWith(s, m), RolesWith(db, m))
  /\ Commit(a, admin[a].on, Idle)

\* Mutant: only the roles of the tenant.
TenantRolesOpening(d, x) ==
  {r \in Role \ Base : \E f \in d.sel[r] \cap d.funcs : x \in d.opens[f]}

\* apiRoleIDsFromBindings: the roles with a selected function that opens x.
RolesOpening(d, x) ==
  {r \in Role : \E f \in d.sel[r] \cap d.funcs : x \in d.opens[f]}

\* enableAPIResource; updateAPIResource when it changes whether x is enabled.
EnableApi(a) ==
  /\ InTx(a, "api")
  /\ LET x == admin[a].on.api
         s == admin[a].snap
         Switched(d) == [d EXCEPT !.live = IF x \in s.live THEN @ \ {x}
                                                           ELSE @ \cup {x}]
     IN  /\ db' = Switched(db)
         /\ Rebuild(Switched(s), RolesOpening(s, x))
         /\ Rebuilds(a, RolesOpening(s, x), RolesOpening(db, x))
  /\ Commit(a, admin[a].on, Idle)

----------------------------------------------------------------------------
\* The older operations

\* The transaction of UpdateRole, which compares no revision and asks for no
\* boundary.  Rows it does not know of stay; so do all of them when the
\* request has none.  CreateRole writes the same for a role without rows, and
\* ImportRole is one of these for every role of a file.
UpdateRole(a, r, pick, kept) ==
  LET t == [kind |-> "role", role |-> r]
  IN  /\ admin[a].pc = "idle"
      /\ ~Locked(t)
      /\ db' = [db EXCEPT !.sel[r] = pick \cup kept]
      /\ loose' = loose \cup {r}
      /\ Commit(a, t, [Idle EXCEPT !.pc = "read", !.on = t])
      /\ UNCHANGED rules

\* updateRoleAuth: the rules of what is selected, granted or not.
GetFullRole(a) ==
  /\ admin[a].pc = "read"
  /\ admin' = [admin EXCEPT
       ![a].pc = "clear",
       ![a].list = Yield(db, {f \in db.sel[admin[a].on.role] :
                                MenuOf[f] \in db.menus})]
  /\ UNCHANGED <<db, rules, loose, overtaken>>

\* ClearCasbin, once or twice.
ClearCasbin(a) ==
  /\ admin[a].pc = "clear"
  /\ rules' = [rules EXCEPT ![admin[a].on.role] = {}]
  /\ \E pc \in {"clear", "create"} : admin' = [admin EXCEPT ![a].pc = pc]
  /\ UNCHANGED <<db, loose, overtaken>>

\* The INSERT, which fails when one of the rules is there.
CreateRules(a) ==
  LET r == admin[a].on.role
  IN  /\ admin[a].pc = "create"
      /\ rules' = [rules EXCEPT ![r] = IF @ \cap admin[a].list = {}
                                       THEN @ \cup admin[a].list ELSE @]
      /\ admin' = [admin EXCEPT ![a] = Idle]
      /\ UNCHANGED <<db, loose, overtaken>>

----------------------------------------------------------------------------
Next ==
  \E a \in Admin :
    \/ \E t \in Target : View(a, t)
    \/ Leave(a)
    \/ Begin(a)
    \/ Abort(a)
    \/ \E pick \in Picks :
         \/ PublishRole(a, pick)
         \/ \E ms \in SUBSET Menu : PublishTenant(a, ms, pick)
         \/ \E o \in [Func -> Opens] : \/ ReplaceBindings(a, pick, o)
                                       \/ UpdateMenu(a, pick, o)
         \/ \E r \in Role : \E kept \in SUBSET db.sel[r] :
              UpdateRole(a, r, pick, kept)
    \/ DeleteMenu(a)
    \/ EnableApi(a)
    \/ GetFullRole(a)
    \/ ClearCasbin(a)
    \/ CreateRules(a)

Spec == Init /\ [][Next]_vars

----------------------------------------------------------------------------
\* Properties

\* However catalogue, grants and selections have been changed by overlapping
\* transactions, a role has exactly the rules its selection yields: every
\* transaction rebuilds every role it concerns (menu.go:303,
\* tenant_menu_authorization.go:944).  Except for loose roles: what UpdateRole
\* and the like, or a transaction with old reads, have left behind stays until
\* a publication of the role, or one that narrows it, has put it right.
RulesAreExact == \A r \in Role \ loose : rules[r] = Policies(db, r)

\* No role of the tenant has selected a function its tenant has not been
\* granted (http/tenant_menu_authorization_test.go:309), again except for
\* loose roles: UpdateRole does not ask, and on MySQL the publication of a
\* role can overlap the one of its tenant.
WithinBoundary == \A r \in Role \ (Base \cup loose) : db.sel[r] \subseteq db.grants

\* A publication replaces what its administrator has seen, never what another
\* one has made of it in the meantime, unless a transaction that locks another
\* row has changed it since the revisions were compared.
NoLostPublication ==
  [][\A a \in Admin :
       /\ admin[a].pc = "tx" /\ admin'[a].pc = "idle" /\ db' # db
       /\ admin[a].on.kind \in {"role", "tenant", "bindings"}
       => a \in overtaken \/ Revision(db, admin[a].on) = admin[a].seen]_vars
=============================================================================
