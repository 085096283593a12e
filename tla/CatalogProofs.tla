----------------------------- MODULE CatalogProofs -----------------------------
(***************************************************************************)
(* Proofs about Catalog for any roles, menus, functions, APIs, versions    *)
(* and instances, in either kind of database.  That the rules stay within  *)
(* the grants needs that the rows agree with each other (Consistent), that *)
(* a catalogue which is being applied is valid, and that in an isolated    *)
(* database a transaction has read what is still there when it writes      *)
(* (SnapInv).                                                              *)
(***************************************************************************)
EXTENDS Catalog, TLAPS

SnapInv ==
  \A i \in Instance :
    inst[i].pc = "tx" => /\ Valid(Product[inst[i].v])
                         /\ isolated => inst[i].snap = db

IInv == TypeOK /\ RulesFollowGrants /\ SnapInv

----------------------------------------------------------------------------
\* What an application makes of the rows, field by field

LEMMA UpsertedRows ==
  ASSUME NEW d \in Rows, NEW c \in Catalogs
  PROVE  LET e == Upserted(d, c) IN
           /\ e \in Rows
           /\ e.row = [t \in Item |-> IF t \in Items(c) /\ d.row[t] = "none"
                                        THEN "own" ELSE d.row[t]]
           /\ e.must = d.must \cup Items(c)
           /\ e.live = d.live \cup c.apis
           /\ e.funcs = d.funcs \cup c.funcs
           /\ e.opens = [f \in Func |-> d.opens[f] \cup c.opens[f]]
           /\ e.granted = d.granted /\ e.grants = d.grants
           /\ e.shown = d.shown /\ e.sel = d.sel
           /\ e.abac = d.abac /\ e.holds = d.holds
<1>1. /\ Items(c) \subseteq Item
      /\ c.roles \subseteq Role /\ c.apis \subseteq Api /\ c.checked \subseteq Api
      /\ c.funcs \subseteq Func /\ c.opens \in [Func -> SUBSET Api]
  BY DEF Catalogs, Items, Item
<1>2. [t \in Item |-> IF t \in Items(c) /\ d.row[t] = "none" THEN "own" ELSE d.row[t]]
        \in [Item -> {"none", "other", "own"}]
  BY DEF Rows
<1>3. [f \in Func |-> d.opens[f] \cup c.opens[f]] \in [Func -> SUBSET Api]
  BY <1>1 DEF Rows
<1> QED BY <1>1, <1>2, <1>3 DEF Rows, Upserted

\* The rows g that Seeded makes of d.
IsSeeded(g, d, s, c) ==
  /\ g \in Rows
  /\ g.row = d.row /\ g.must = d.must /\ g.live = d.live
  /\ g.funcs = d.funcs /\ g.opens = d.opens
  /\ g.abac = d.abac /\ g.holds = d.holds
  /\ g.granted = d.granted \cup (MenusOf(c.bounds) \ s.granted)
  /\ g.grants = d.grants \cup (c.bounds \cap FuncsOf(MenusOf(c.bounds) \ s.granted))
  /\ \A r \in Role :
       LET absent == MenusOf(c.grants[r]) \ s.shown[r]
       IN  /\ g.shown[r] = d.shown[r] \cup absent
           /\ g.sel[r] = d.sel[r] \cup (c.grants[r] \cap FuncsOf(absent))

LEMMA SeededRows ==
  ASSUME CatalogAssumption, NEW d \in Rows, NEW s \in Rows, NEW c \in Catalogs
  PROVE  IsSeeded(Seeded(d, s, c), d, s, c)
<1> DEFINE missing == MenusOf(c.bounds) \ s.granted
           absent(r) == MenusOf(c.grants[r]) \ s.shown[r]
<1>1. c.bounds \subseteq Func /\ c.grants \in [Role -> SUBSET Func]
  BY DEF Catalogs
<1>2. missing \subseteq Menu /\ \A r \in Role : absent(r) \subseteq Menu
  BY <1>1 DEF MenusOf, CatalogAssumption
<1>3. [r \in Role |-> d.shown[r] \cup absent(r)] \in [Role -> SUBSET Menu]
  BY <1>2 DEF Rows
<1>4. [r \in Role |-> d.sel[r] \cup (c.grants[r] \cap FuncsOf(absent(r)))]
        \in [Role -> SUBSET Func]
  BY <1>1 DEF Rows
<1> HIDE DEF missing, absent
<1>5. Seeded(d, s, c) =
        [d EXCEPT !.granted = d.granted \cup missing,
                  !.grants = d.grants \cup (c.bounds \cap FuncsOf(missing)),
                  !.shown = [r \in Role |-> d.shown[r] \cup absent(r)],
                  !.sel = [r \in Role |->
                             d.sel[r] \cup (c.grants[r] \cap FuncsOf(absent(r)))]]
  BY DEF Seeded, missing, absent, Rows
<1>6. /\ d.granted \cup missing \in SUBSET Menu
      /\ d.grants \cup (c.bounds \cap FuncsOf(missing)) \in SUBSET Func
  BY <1>1, <1>2 DEF Rows
<1> DEFINE S1 == [r \in Role |-> d.shown[r] \cup absent(r)]
           S2 == [r \in Role |-> d.sel[r] \cup (c.grants[r] \cap FuncsOf(absent(r)))]
           G1 == d.granted \cup missing
           G2 == d.grants \cup (c.bounds \cap FuncsOf(missing))
<1>7. S1 \in [Role -> SUBSET Menu] /\ S2 \in [Role -> SUBSET Func]
  BY <1>3, <1>4
<1>8. G1 \in SUBSET Menu /\ G2 \in SUBSET Func
  BY <1>6
<1>9. Seeded(d, s, c) = [d EXCEPT !.granted = G1, !.grants = G2, !.shown = S1, !.sel = S2]
  BY <1>5
<1> HIDE DEF S1, S2, G1, G2
<1> DEFINE G == [d EXCEPT !.granted = G1, !.grants = G2, !.shown = S1, !.sel = S2]
<1>10. G \in Rows
  BY <1>7, <1>8 DEF Rows
<1>11. /\ G.row = d.row /\ G.must = d.must /\ G.live = d.live
       /\ G.funcs = d.funcs /\ G.opens = d.opens
       /\ G.abac = d.abac /\ G.holds = d.holds
       /\ G.granted = G1 /\ G.grants = G2 /\ G.shown = S1 /\ G.sel = S2
  BY DEF Rows
<1> QED BY <1>9, <1>10, <1>11 DEF S1, S2, G1, G2, missing, absent, IsSeeded

\* The rows b that an application makes of d last: policies and users.
IsFinished(b, d, s, c, seed) ==
  /\ b \in Rows
  /\ b.row = d.row /\ b.must = d.must /\ b.live = d.live
  /\ b.funcs = d.funcs /\ b.opens = d.opens
  /\ b.granted = d.granted /\ b.grants = d.grants
  /\ b.shown = d.shown /\ b.sel = d.sel
  /\ \A r \in Role :
       b.abac[r] = IF r \in c.abac /\ (seed \/ d.abac[r] = "none")
                     THEN "product" ELSE d.abac[r]
  /\ \A u \in User :
       b.holds[u] = IF s.holds[u] = {} THEN d.holds[u] \cup {c.default} ELSE d.holds[u]

LEMMA LastRows ==
  ASSUME NEW d \in Rows, NEW s \in Rows, NEW c \in Catalogs, NEW seed \in BOOLEAN
  PROVE  IsFinished(Backfilled(WithPolicies(d, c, seed), s, c), d, s, c, seed)
<1> DEFINE A == [r \in Role |-> IF r \in c.abac /\ (seed \/ d.abac[r] = "none")
                                 THEN "product" ELSE d.abac[r]]
           P == [d EXCEPT !.abac = A]
<1>1. A \in [Role -> {"none", "product", "edited"}]
  BY DEF Rows
<1>2. WithPolicies(d, c, seed) = P
  BY DEF WithPolicies, Rows
<1> HIDE DEF A
<1>3. /\ P \in Rows
      /\ P.row = d.row /\ P.must = d.must /\ P.live = d.live
      /\ P.funcs = d.funcs /\ P.opens = d.opens
      /\ P.granted = d.granted /\ P.grants = d.grants
      /\ P.shown = d.shown /\ P.sel = d.sel
      /\ P.abac = A /\ P.holds = d.holds
  BY <1>1 DEF Rows
<1> HIDE DEF P
<1> DEFINE H == [u \in User |-> IF s.holds[u] = {} THEN P.holds[u] \cup {c.default}
                                                  ELSE P.holds[u]]
           B == [P EXCEPT !.holds = H]
<1>4. H \in [User -> SUBSET Role]
  <2>1. c.default \in Role /\ P.holds \in [User -> SUBSET Role]
    BY <1>3 DEF Catalogs, Rows
  <2> QED BY <2>1
<1>5. Backfilled(P, s, c) = B
  BY <1>3 DEF Backfilled, Rows
<1> HIDE DEF H
<1>6. /\ B \in Rows
      /\ B.row = P.row /\ B.must = P.must /\ B.live = P.live
      /\ B.funcs = P.funcs /\ B.opens = P.opens
      /\ B.granted = P.granted /\ B.grants = P.grants
      /\ B.shown = P.shown /\ B.sel = P.sel
      /\ B.abac = P.abac /\ B.holds = H
  BY <1>3, <1>4 DEF Rows
<1>7. /\ \A r \in Role : B.abac[r] = IF r \in c.abac /\ (seed \/ d.abac[r] = "none")
                                        THEN "product" ELSE d.abac[r]
      /\ \A u \in User : B.holds[u] = IF s.holds[u] = {} THEN d.holds[u] \cup {c.default}
                                                         ELSE d.holds[u]
  BY <1>3, <1>6 DEF A, H
<1> QED BY <1>2, <1>3, <1>5, <1>6, <1>7 DEF IsFinished

LEMMA UpsertedConsistent ==
  ASSUME CatalogAssumption, NEW d \in Rows, Consistent(d), NEW c \in Catalogs, Valid(c)
  PROVE  Consistent(Upserted(d, c))
<1> DEFINE e == Upserted(d, c)
<1>1. /\ e.row = [t \in Item |-> IF t \in Items(c) /\ d.row[t] = "none"
                                   THEN "own" ELSE d.row[t]]
      /\ e.must = d.must \cup Items(c)
      /\ e.live = d.live \cup c.apis
      /\ e.funcs = d.funcs \cup c.funcs
      /\ e.opens = [f \in Func |-> d.opens[f] \cup c.opens[f]]
      /\ e.granted = d.granted /\ e.grants = d.grants
      /\ e.shown = d.shown /\ e.sel = d.sel
  BY UpsertedRows
<1> HIDE DEF e
<1>2. c.menus \cap Api = {} /\ Items(c) \subseteq Item
  BY DEF CatalogAssumption, Catalogs, Items, Item
<1>3. \A t \in e.must : e.row[t] # "none" /\ (t \in Api => t \in e.live)
  <2> SUFFICES ASSUME NEW t \in e.must
               PROVE  e.row[t] # "none" /\ (t \in Api => t \in e.live)
    OBVIOUS
  <2>1. t \in Item
    BY <1>1, <1>2 DEF Rows
  <2>2. e.row[t] # "none"
    BY <1>1, <2>1 DEF Consistent
  <2>3. ASSUME t \in Api PROVE t \in e.live
    BY <1>1, <1>2, <2>3 DEF Consistent, Items
  <2> QED BY <2>2, <2>3
<1>4. \A f \in Func : e.opens[f] # {} => f \in e.funcs
  BY <1>1 DEF Consistent, Valid
<1> QED BY <1>1, <1>3, <1>4 DEF Consistent, e

LEMMA SeededConsistent ==
  ASSUME CatalogAssumption, NEW d \in Rows, Consistent(d), NEW s \in Rows,
         NEW c \in Catalogs
  PROVE  Consistent(Seeded(d, s, c))
<1> DEFINE g == Seeded(d, s, c)
           missing == MenusOf(c.bounds) \ s.granted
<1>1. /\ g.row = d.row /\ g.must = d.must /\ g.live = d.live
      /\ g.funcs = d.funcs /\ g.opens = d.opens
      /\ g.granted = d.granted \cup missing
      /\ g.grants = d.grants \cup (c.bounds \cap FuncsOf(missing))
      /\ \A r \in Role :
           LET absent == MenusOf(c.grants[r]) \ s.shown[r]
           IN  /\ g.shown[r] = d.shown[r] \cup absent
               /\ g.sel[r] = d.sel[r] \cup (c.grants[r] \cap FuncsOf(absent))
  <2>1. IsSeeded(g, d, s, c)
    BY SeededRows
  <2> HIDE DEF g
  <2> QED BY <2>1 DEF IsSeeded
<1> HIDE DEF g, missing
<1>2. g.grants \subseteq FuncsOf(g.granted)
  BY <1>1 DEF Consistent, FuncsOf
<1>3. \A r \in Role : g.sel[r] \subseteq FuncsOf(g.shown[r])
  <2> SUFFICES ASSUME NEW r \in Role PROVE g.sel[r] \subseteq FuncsOf(g.shown[r])
    OBVIOUS
  <2> DEFINE absent == MenusOf(c.grants[r]) \ s.shown[r]
  <2>1. /\ g.shown[r] = d.shown[r] \cup absent
        /\ g.sel[r] = d.sel[r] \cup (c.grants[r] \cap FuncsOf(absent))
    BY <1>1
  <2>2. d.sel[r] \subseteq FuncsOf(d.shown[r])
    BY DEF Consistent
  <2> HIDE DEF absent
  <2> QED BY <2>1, <2>2 DEF FuncsOf
<1> QED BY <1>1, <1>2, <1>3 DEF Consistent, g

LEMMA AppliedRows ==
  ASSUME CatalogAssumption, NEW d \in Rows, Consistent(d), NEW s \in Rows,
         NEW c \in Catalogs, Valid(c)
  PROVE  LET e == Applied(d, s, c) IN
           /\ e \in Rows /\ Consistent(e)
           /\ d.live \cup c.apis \subseteq e.live
           /\ \A f \in Func : d.opens[f] \cup c.opens[f] \subseteq e.opens[f]
           /\ d.granted \subseteq e.granted
           /\ \A r \in Role : d.sel[r] \subseteq e.sel[r]
<1> DEFINE seed == ~PreviouslyApplied(s, c)
           u == Upserted(d, c)
           g == IF seed THEN Seeded(u, s, c) ELSE u
           e == Backfilled(WithPolicies(g, c, seed), s, c)
<1>1. Applied(d, s, c) = e
  BY DEF Applied
<1>2. /\ u \in Rows /\ Consistent(u)
      /\ d.live \cup c.apis \subseteq u.live
      /\ \A f \in Func : d.opens[f] \cup c.opens[f] \subseteq u.opens[f]
      /\ u.granted = d.granted /\ u.sel = d.sel
  <2>1. /\ u \in Rows
        /\ u.live = d.live \cup c.apis
        /\ u.opens = [f \in Func |-> d.opens[f] \cup c.opens[f]]
        /\ u.granted = d.granted /\ u.sel = d.sel
    BY UpsertedRows
  <2>2. Consistent(u)
    BY UpsertedConsistent
  <2> HIDE DEF u
  <2> QED BY <2>1, <2>2
<1> HIDE DEF u
<1>3. /\ g \in Rows /\ Consistent(g)
      /\ g.live = u.live /\ g.opens = u.opens
      /\ u.granted \subseteq g.granted
      /\ \A r \in Role : u.sel[r] \subseteq g.sel[r]
  <2>1. CASE seed
    <3>1. g = Seeded(u, s, c)
      BY <2>1
    <3>2. IsSeeded(g, u, s, c)
      BY <1>2, <3>1, SeededRows
    <3>3. Consistent(g)
      BY <1>2, <3>1, SeededConsistent
    <3> HIDE DEF g
    <3>4. g \in Rows /\ g.live = u.live /\ g.opens = u.opens
      BY <3>2 DEF IsSeeded
    <3>5. u.granted \subseteq g.granted /\ \A r \in Role : u.sel[r] \subseteq g.sel[r]
      BY <3>2 DEF IsSeeded
    <3> QED BY <3>3, <3>4, <3>5
  <2>2. CASE ~seed
    BY <1>2, <2>2
  <2> QED BY <2>1, <2>2
<1> HIDE DEF g
<1>4. seed \in BOOLEAN
  BY DEF PreviouslyApplied
<1> HIDE DEF seed
<1>5. /\ e \in Rows
      /\ e.row = g.row /\ e.must = g.must /\ e.live = g.live
      /\ e.funcs = g.funcs /\ e.opens = g.opens
      /\ e.granted = g.granted /\ e.grants = g.grants
      /\ e.shown = g.shown /\ e.sel = g.sel
  <2>1. IsFinished(e, g, s, c, seed)
    BY <1>3, <1>4, LastRows
  <2> HIDE DEF e
  <2> QED BY <2>1 DEF IsFinished
<1> HIDE DEF e
<1>6. Consistent(e)
  BY <1>3, <1>5 DEF Consistent
<1> QED BY <1>1, <1>2, <1>3, <1>5, <1>6

----------------------------------------------------------------------------
\* The rules

LEMMA MorePolicies ==
  ASSUME NEW d, NEW e, NEW r \in Role,
         d.live \subseteq e.live,
         \A f \in Func : d.opens[f] \subseteq e.opens[f],
         d.sel[r] \cap FuncsOf(d.granted) \subseteq e.sel[r] \cap FuncsOf(e.granted)
  PROVE  Policies(d, r) \subseteq Policies(e, r)
BY DEF Policies, Yield, FuncsOf

LEMMA EffectiveIsGranted ==
  ASSUME CatalogAssumption, NEW d \in Rows, Consistent(d), NEW s \in Rows,
         NEW c \in Catalogs, Valid(c), NEW r \in Role
  PROVE  LET e == Applied(d, s, c) IN Effective(e, c, r) \subseteq Policies(e, r)
<1> DEFINE e == Applied(d, s, c)
<1>1. /\ e \in Rows /\ Consistent(e)
      /\ c.apis \subseteq e.live
      /\ \A f \in Func : c.opens[f] \subseteq e.opens[f]
  BY AppliedRows
<1> HIDE DEF e
<1>2. c.grants[r] \subseteq Func /\ \A f \in Func : c.opens[f] \subseteq c.apis
  BY DEF Catalogs, Valid
<1>3. e.grants \subseteq FuncsOf(e.granted)
  BY <1>1 DEF Consistent
<1>4. Effective(e, c, r) \subseteq Policies(e, r)
  BY <1>1, <1>2, <1>3 DEF Effective, Policies, Yield
<1> QED BY <1>4 DEF e

----------------------------------------------------------------------------
\* The invariant

LEMMA Instances ==
  ASSUME CatalogAssumption, IInv, NEW i \in Instance, inst[i].pc = "tx"
  PROVE  /\ inst[i].v \in Version /\ Product[inst[i].v] \in Catalogs
         /\ Valid(Product[inst[i].v])
         /\ inst[i].snap \in Rows
         /\ isolated => inst[i].snap = db
<1>1. inst[i].v \in Version /\ inst[i].snap \in Rows
  BY Zenon DEF IInv, TypeOK
<1>2. Valid(Product[inst[i].v]) /\ (isolated => inst[i].snap = db)
  BY DEF IInv, SnapInv
<1> QED BY <1>1, <1>2 DEF CatalogAssumption

LEMMA IdleType == Idle \in Job /\ Idle.pc = "idle"
BY DEF Idle, Job

LEMMA InterruptedJobs ==
  ASSUME NEW jobs \in [Instance -> Job]
  PROVE  /\ Interrupted(jobs) \in [Instance -> Job]
         /\ \A i \in Instance :
              Interrupted(jobs)[i] \in {jobs[i], Idle}
              /\ (isolated => Interrupted(jobs)[i].pc # "tx")
BY IdleType DEF Interrupted

LEMMA Start ==
  ASSUME CatalogAssumption, Init
  PROVE  IInv
<1>1. PICK old \in SUBSET Item, checked \in SUBSET Api :
        db = [row |-> [t \in Item |-> IF t \in old THEN "other" ELSE "none"],
              must |-> {}, roles |-> {}, live |-> old \cap Api, checked |-> checked,
              funcs |-> {}, opens |-> [f \in Func |-> {}],
              granted |-> {}, grants |-> {},
              shown |-> [r \in Role |-> {}], sel |-> [r \in Role |-> {}],
              abac |-> [r \in Role |-> "none"],
              holds |-> [u \in User |-> {}]]
        /\ open = (old \cap Api) \ checked
  BY DEF Init
<1>2. db \in Rows /\ Consistent(db)
  BY <1>1 DEF Rows, Consistent
<1>3. inst \in [Instance -> Job] /\ \A i \in Instance : inst[i].pc = "idle"
  BY IdleType DEF Init
<1>4. TypeOK
  BY <1>1, <1>2, <1>3 DEF Init, TypeOK, CatalogAssumption
<1>5. RulesFollowGrants
  BY DEF Init, RulesFollowGrants
<1> QED BY <1>3, <1>4, <1>5 DEF IInv, SnapInv

\* What a committed change must leave: consistent rows, and rules of the new rows
\* for the roles that are not loose.
LEMMA ChangeStep ==
  ASSUME CatalogAssumption, IInv, NEW d \in Rows, Consistent(d),
         db' = d, inst' = Interrupted(inst), UNCHANGED <<isolated, last, applied>>,
         changes' \in 0..MaxChanges, rules' \in [Role -> SUBSET Api],
         open' \in SUBSET Api, updating' \subseteq loose', loose' \subseteq Role,
         \A r \in Role \ loose' : (r \notin loose => rules[r] \subseteq Policies(db, r))
                                   => rules'[r] \subseteq Policies(d, r)
  PROVE  IInv'
<1>1. db' = d /\ inst' = Interrupted(inst) /\ UNCHANGED <<isolated, last, applied>>
      /\ changes' \in 0..MaxChanges
  OBVIOUS
<1>2. inst' \in [Instance -> Job] /\ \A i \in Instance : inst'[i] \in {inst[i], Idle}
  BY <1>1, InterruptedJobs DEF IInv, TypeOK
<1>3. \A i \in Instance : /\ inst[i].pc # "idle" => inst[i].v \in Version
                          /\ inst[i].pc = "tx" => inst[i].snap \in Rows
  BY Zenon DEF IInv, TypeOK
<1>4. \A i \in Instance : /\ inst'[i].pc # "idle" => inst'[i].v \in Version
                          /\ inst'[i].pc = "tx" => inst'[i].snap \in Rows
  BY <1>2, <1>3, IdleType
<1>5. TypeOK'
  <2>1. isolated' \in BOOLEAN /\ last' \in applied' \cup {NoVersion} /\ applied' \subseteq Version
    BY <1>1 DEF IInv, TypeOK
  <2>2. db' \in Rows /\ Consistent(db')
    BY <1>1
  <2>3. Consistent(db)'
    BY <2>2 DEF Consistent, FuncsOf
  <2> QED BY <1>1, <1>2, <1>4, <2>1, <2>2, <2>3, Zenon DEF TypeOK
<1>6. RulesFollowGrants'
  <2> SUFFICES ASSUME NEW r \in Role \ loose'
               PROVE  (rules[r] \subseteq Policies(db, r))'
    BY DEF RulesFollowGrants
  <2>1. r \notin loose => rules[r] \subseteq Policies(db, r)
    BY DEF IInv, RulesFollowGrants
  <2>2. rules'[r] \subseteq Policies(d, r)
    BY <2>1
  <2> QED BY <1>1, <2>2
<1>7. SnapInv'
  <2> SUFFICES ASSUME NEW i \in Instance, inst'[i].pc = "tx"
               PROVE  /\ Valid(Product[inst'[i].v])
                      /\ isolated' => inst'[i].snap = db'
    BY DEF SnapInv
  <2>1. ~isolated
    BY <1>1, InterruptedJobs DEF IInv, TypeOK
  <2>2. inst'[i] = inst[i]
    BY <1>2, IdleType
  <2> QED BY <1>1, <2>1, <2>2 DEF IInv, SnapInv
<1> QED BY <1>5, <1>6, <1>7 DEF IInv

LEMMA AdministratorStep ==
  ASSUME CatalogAssumption, IInv, NEW d \in Rows, Consistent(d), Administered(d),
         rules' \in [Role -> SUBSET Api], open' \in SUBSET Api,
         updating' \subseteq loose', loose' \subseteq Role,
         \A r \in Role \ loose' : (r \notin loose => rules[r] \subseteq Policies(db, r))
                                   => rules'[r] \subseteq Policies(d, r)
  PROVE  IInv'
<1>1. db' = d /\ inst' = Interrupted(inst) /\ UNCHANGED <<isolated, last, applied>>
      /\ changes' \in 0..MaxChanges
  BY DEF Administered, IInv, TypeOK, CatalogAssumption
<1> QED BY <1>1, ChangeStep

LEMMA BeginStep ==
  ASSUME CatalogAssumption, IInv, NEW i \in Instance, NEW v \in Version, Begin(i, v)
  PROVE  IInv'
<1> DEFINE J == [pc |-> "tx", v |-> v, snap |-> db]
<1>1. J \in Job /\ J.pc = "tx" /\ J.v = v /\ J.snap = db
  BY DEF Job, IInv, TypeOK
<1>2. inst' = [inst EXCEPT ![i] = J] /\ Valid(Product[v])
      /\ UNCHANGED <<isolated, db, rules, open, last, applied, changes, updating, loose>>
  BY DEF Begin
<1> HIDE DEF J
<1>3. \A j \in Instance : /\ inst[j].pc # "idle" => inst[j].v \in Version
                          /\ inst[j].pc = "tx" => inst[j].snap \in Rows
  BY Zenon DEF IInv, TypeOK
<1>4. /\ inst' \in [Instance -> Job]
      /\ \A j \in Instance : inst'[j] = IF j = i THEN J ELSE inst[j]
  BY <1>1, <1>2 DEF IInv, TypeOK
<1>5. \A j \in Instance : /\ inst'[j].pc # "idle" => inst'[j].v \in Version
                          /\ inst'[j].pc = "tx" => inst'[j].snap \in Rows
  BY <1>1, <1>3, <1>4 DEF IInv, TypeOK
<1>6. TypeOK'
  BY <1>2, <1>4, <1>5, Zenon DEF IInv, TypeOK
<1>7. RulesFollowGrants'
  BY <1>2 DEF IInv, RulesFollowGrants
<1>8. SnapInv'
  BY <1>1, <1>2, <1>4 DEF IInv, SnapInv
<1> QED BY <1>6, <1>7, <1>8 DEF IInv

\* A step that only changes what instances are doing, and begins no transaction.
LEMMA InstancesOnly ==
  ASSUME CatalogAssumption, IInv, NEW i \in Instance, inst' = [inst EXCEPT ![i] = Idle],
         open' \in SUBSET Api,
         UNCHANGED <<isolated, db, rules, last, applied, changes, updating, loose>>
  PROVE  IInv'
<1>1. \A j \in Instance : /\ inst[j].pc # "idle" => inst[j].v \in Version
                          /\ inst[j].pc = "tx" => inst[j].snap \in Rows
  BY Zenon DEF IInv, TypeOK
<1>2. /\ inst' \in [Instance -> Job]
      /\ \A j \in Instance : inst'[j] = IF j = i THEN Idle ELSE inst[j]
  BY IdleType DEF IInv, TypeOK
<1>3. \A j \in Instance : /\ inst'[j].pc # "idle" => inst'[j].v \in Version
                          /\ inst'[j].pc = "tx" => inst'[j].snap \in Rows
  BY <1>1, <1>2, IdleType
<1>4. TypeOK'
  BY <1>2, <1>3, Zenon DEF IInv, TypeOK
<1>5. RulesFollowGrants'
  BY DEF IInv, RulesFollowGrants
<1>6. SnapInv'
  BY <1>2, IdleType DEF IInv, SnapInv
<1> QED BY <1>4, <1>5, <1>6 DEF IInv

LEMMA CommitStep ==
  ASSUME CatalogAssumption, IInv, NEW i \in Instance, Commit(i)
  PROVE  IInv'
<1> DEFINE v == inst[i].v
           c == Product[v]
           s == inst[i].snap
           seen == Applied(s, s, c)
           J == [pc |-> "rules", v |-> v, snap |-> None]
           jobs == [inst EXCEPT ![i] = J]
<1>1. /\ inst[i].pc = "tx"
      /\ db' = Applied(db, s, c)
      /\ rules' = [r \in Role |-> rules[r] \cup Effective(seen, c, r)]
      /\ last' = v /\ applied' = applied \cup {v}
      /\ inst' = Interrupted(jobs)
      /\ loose' = IF s = db THEN loose ELSE loose \cup {r \in Role : c.grants[r] # {}}
      /\ UNCHANGED <<isolated, open, changes, updating>>
  BY DEF Commit
<1>2. /\ v \in Version /\ c \in Catalogs /\ Valid(c) /\ s \in Rows
      /\ isolated => s = db
  BY <1>1, Instances
<1>3. J \in Job /\ J.pc = "rules" /\ J.v = v
  BY <1>2 DEF Job
<1>4. \A j \in Instance : /\ inst[j].pc # "idle" => inst[j].v \in Version
                          /\ inst[j].pc = "tx" => inst[j].snap \in Rows
  BY Zenon DEF IInv, TypeOK
<1> HIDE DEF v, c, s, J
<1>5. jobs \in [Instance -> Job] /\ \A j \in Instance : jobs[j] = IF j = i THEN J ELSE inst[j]
  BY <1>3 DEF IInv, TypeOK
<1> HIDE DEF jobs
<1>6. /\ inst' \in [Instance -> Job]
      /\ \A j \in Instance : inst'[j] \in {jobs[j], Idle} /\ (isolated => inst'[j].pc # "tx")
  BY <1>1, <1>5, InterruptedJobs
<1>7. \A j \in Instance : /\ inst'[j].pc # "idle" => inst'[j].v \in Version
                          /\ inst'[j].pc = "tx" => inst'[j].snap \in Rows
  BY <1>2, <1>3, <1>4, <1>5, <1>6, IdleType
<1>8. db \in Rows /\ Consistent(db)
  BY DEF IInv, TypeOK
<1>9. /\ db' \in Rows /\ Consistent(db')
      /\ db.live \subseteq db'.live
      /\ \A f \in Func : db.opens[f] \subseteq db'.opens[f]
      /\ db.granted \subseteq db'.granted
      /\ \A r \in Role : db.sel[r] \subseteq db'.sel[r]
  <2> DEFINE e == Applied(db, s, c)
  <2>1. /\ e \in Rows /\ Consistent(e)
        /\ db.live \cup c.apis \subseteq e.live
        /\ \A f \in Func : db.opens[f] \cup c.opens[f] \subseteq e.opens[f]
        /\ db.granted \subseteq e.granted
        /\ \A r \in Role : db.sel[r] \subseteq e.sel[r]
    BY <1>2, <1>8, AppliedRows
  <2> HIDE DEF e
  <2>2. db' = e
    BY <1>1 DEF e
  <2> QED BY <2>1, <2>2
<1>10. Consistent(db)'
  BY <1>9 DEF Consistent, FuncsOf
<1>11. \A r \in Role : Effective(seen, c, r) \subseteq Api
  BY <1>2 DEF Effective, Catalogs
<1>12. rules' \in [Role -> SUBSET Api]
  BY <1>1, <1>11 DEF IInv, TypeOK
<1>13. last' \in applied' \cup {NoVersion} /\ applied' \subseteq Version
  BY <1>1, <1>2 DEF IInv, TypeOK
<1>14. TypeOK'
  <2>1. updating' \subseteq loose' /\ loose' \subseteq Role
    BY <1>1 DEF IInv, TypeOK
  <2> QED
    BY <1>1, <1>6, <1>7, <1>9, <1>10, <1>12, <1>13, <2>1, Zenon DEF IInv, TypeOK
<1>15. RulesFollowGrants'
  <2> SUFFICES ASSUME NEW r \in Role \ loose'
               PROVE  (rules[r] \subseteq Policies(db, r))'
    BY DEF RulesFollowGrants
  <2>1. r \notin loose /\ (s = db \/ c.grants[r] = {})
    BY <1>1
  <2>2. FuncsOf(db.granted) \subseteq FuncsOf(db'.granted)
    BY <1>9 DEF FuncsOf
  <2>3. Policies(db, r) \subseteq Policies(db', r)
    BY <1>9, <2>2, MorePolicies
  <2>4. rules[r] \subseteq Policies(db', r)
    BY <2>1, <2>3 DEF IInv, RulesFollowGrants
  <2>5. CASE c.grants[r] = {}
    BY <1>1, <2>4, <2>5 DEF Effective
  <2>6. CASE s = db
    <3>1. Effective(Applied(db, s, c), c, r) \subseteq Policies(Applied(db, s, c), r)
      BY <1>2, <1>8, EffectiveIsGranted
    <3>2. Effective(seen, c, r) \subseteq Policies(db', r)
      BY <1>1, <2>6, <3>1
    <3> HIDE DEF seen
    <3> QED BY <1>1, <2>4, <3>2
  <2> QED BY <2>1, <2>5, <2>6
<1>16. SnapInv'
  <2> SUFFICES ASSUME NEW j \in Instance, inst'[j].pc = "tx"
               PROVE  /\ Valid(Product[inst'[j].v])
                      /\ isolated' => inst'[j].snap = db'
    BY DEF SnapInv
  <2>1. ~isolated'
    BY <1>1, <1>6
  <2>2. inst'[j] = inst[j]
    BY <1>3, <1>5, <1>6, IdleType
  <2> QED BY <2>1, <2>2 DEF IInv, SnapInv
<1> QED BY <1>14, <1>15, <1>16 DEF IInv

LEMMA PoliciesType ==
  ASSUME NEW d \in Rows, NEW r \in Role
  PROVE  Policies(d, r) \subseteq Api
BY DEF Policies, Yield, Rows

LEMMA RebuildType ==
  ASSUME IInv, NEW d \in Rows, NEW rs, Rebuild(d, rs)
  PROVE  /\ rules' \in [Role -> SUBSET Api]
         /\ \A r \in Role : rules'[r] = IF r \in rs THEN Policies(d, r) ELSE rules[r]
BY PoliciesType DEF Rebuild, IInv, TypeOK

LEMMA PublishRoleStep ==
  ASSUME CatalogAssumption, IInv, NEW ms \in SUBSET Menu, NEW pick \in SUBSET Func,
         NEW q \in Role, PublishRole(q, ms, pick)
  PROVE  IInv'
<1> DEFINE d == [db EXCEPT !.shown[q] = ms, !.sel[q] = pick]
<1>1. /\ Administered(d) /\ Rebuild(d, {q}) /\ UNCHANGED <<open, updating>>
      /\ pick \subseteq FuncsOf(ms)
      /\ loose' = loose \ ({q} \ updating)
  BY DEF PublishRole
<1>2. db \in Rows /\ Consistent(db) /\ open \in SUBSET Api
  BY DEF IInv, TypeOK
<1>3. d \in Rows
  BY <1>2 DEF Rows
<1>4. /\ d.shown = [db.shown EXCEPT ![q] = ms] /\ d.sel = [db.sel EXCEPT ![q] = pick]
      /\ d.row = db.row /\ d.must = db.must /\ d.live = db.live
      /\ d.funcs = db.funcs /\ d.opens = db.opens
      /\ d.granted = db.granted /\ d.grants = db.grants
  BY <1>2 DEF Rows
<1> HIDE DEF d
<1>5. \A r \in Role : /\ d.shown[r] = IF r = q THEN ms ELSE db.shown[r]
                      /\ d.sel[r] = IF r = q THEN pick ELSE db.sel[r]
  BY <1>2, <1>4 DEF Rows
<1>6. Consistent(d)
  BY <1>1, <1>2, <1>4, <1>5 DEF Consistent
<1>7. /\ rules' \in [Role -> SUBSET Api]
      /\ \A r \in Role : rules'[r] = IF r \in {q} THEN Policies(d, r) ELSE rules[r]
  BY <1>1, <1>3, RebuildType
<1>8. \A r \in Role : r # q => Policies(db, r) = Policies(d, r)
  BY <1>4, <1>5 DEF Policies, Yield
<1>9. \A r \in Role \ loose' : (r \notin loose => rules[r] \subseteq Policies(db, r))
                                => rules'[r] \subseteq Policies(d, r)
  BY <1>1, <1>7, <1>8
<1>10. updating' \subseteq loose' /\ loose' \subseteq Role
  BY <1>1 DEF IInv, TypeOK
<1> QED BY <1>1, <1>2, <1>3, <1>6, <1>7, <1>9, <1>10, AdministratorStep

LEMMA PublishTenantStep ==
  ASSUME CatalogAssumption, IInv, NEW ms \in SUBSET Menu, NEW pick \in SUBSET Func,
         PublishTenant(ms, pick)
  PROVE  IInv'
<1> DEFINE S1 == [r \in Role |-> db.shown[r] \cap ms]
           S2 == [r \in Role |-> db.sel[r] \cap pick]
           d == [db EXCEPT !.granted = ms, !.grants = pick, !.shown = S1, !.sel = S2]
           rs == {r \in Role : d.shown[r] # db.shown[r] \/ d.sel[r] # db.sel[r]}
<1>1. db \in Rows /\ Consistent(db) /\ open \in SUBSET Api
  BY DEF IInv, TypeOK
<1>2. /\ Administered(d) /\ Rebuild(d, rs) /\ UNCHANGED <<open, updating>>
      /\ pick \subseteq FuncsOf(ms)
      /\ loose' = loose \ (rs \ updating)
  <2>1. d = [db EXCEPT !.granted = ms, !.grants = pick,
                       !.shown = [r \in Role |-> @[r] \cap ms],
                       !.sel = [r \in Role |-> @[r] \cap pick]]
    BY <1>1 DEF Rows
  <2> HIDE DEF d
  <2> QED BY <2>1 DEF PublishTenant
<1>3. S1 \in [Role -> SUBSET Menu] /\ S2 \in [Role -> SUBSET Func]
  BY <1>1 DEF Rows
<1> HIDE DEF S1, S2
<1>4. d \in Rows
  BY <1>1, <1>3 DEF Rows
<1>5. /\ d.shown = S1 /\ d.sel = S2
      /\ d.row = db.row /\ d.must = db.must /\ d.live = db.live
      /\ d.funcs = db.funcs /\ d.opens = db.opens
      /\ d.granted = ms /\ d.grants = pick
  BY <1>1 DEF Rows
<1> HIDE DEF d
<1>6. \A r \in Role : d.shown[r] = db.shown[r] \cap ms /\ d.sel[r] = db.sel[r] \cap pick
  BY <1>5 DEF S1, S2
<1>7. Consistent(d)
  BY <1>1, <1>2, <1>5, <1>6 DEF Consistent, FuncsOf
<1>8. /\ rules' \in [Role -> SUBSET Api]
      /\ \A r \in Role : rules'[r] = IF r \in rs THEN Policies(d, r) ELSE rules[r]
  BY <1>2, <1>4, RebuildType
<1>9. \A r \in Role \ loose' : (r \notin loose => rules[r] \subseteq Policies(db, r))
                                => rules'[r] \subseteq Policies(d, r)
  <2> SUFFICES ASSUME NEW r \in Role \ loose', r \notin loose => rules[r] \subseteq Policies(db, r)
               PROVE  rules'[r] \subseteq Policies(d, r)
    OBVIOUS
  <2> HIDE DEF rs
  <2>1. CASE r \in rs
    BY <1>8, <2>1
  <2>2. CASE r \notin rs
    <3>1. d.sel[r] = db.sel[r] /\ r \notin loose
      BY <1>2, <2>2 DEF rs
    <3>2. d.sel[r] \subseteq FuncsOf(d.granted)
      BY <1>2, <1>5, <1>6
    <3>3. db.sel[r] \cap FuncsOf(db.granted) \subseteq d.sel[r] \cap FuncsOf(d.granted)
      BY <3>1, <3>2
    <3>4. Policies(db, r) \subseteq Policies(d, r)
      BY <1>5, <3>3, MorePolicies
    <3> QED BY <1>8, <2>2, <3>1, <3>4
  <2> QED BY <2>1, <2>2
<1>10. updating' \subseteq loose' /\ loose' \subseteq Role
  BY <1>2 DEF IInv, TypeOK
<1> QED BY <1>1, <1>2, <1>4, <1>7, <1>8, <1>9, <1>10, AdministratorStep

LEMMA EnableApiStep ==
  ASSUME CatalogAssumption, IInv, NEW x \in Api, EnableApi(x)
  PROVE  IInv'
<1> DEFINE L == IF x \in db.live THEN db.live \ {x} ELSE db.live \cup {x}
           d == [db EXCEPT !.live = L]
           rs == {r \in Role : \E f \in d.sel[r] \cap d.funcs : x \in d.opens[f]}
<1>1. db \in Rows /\ Consistent(db) /\ L \in SUBSET Api
  BY DEF IInv, TypeOK, Rows
<1>2. /\ Administered(d) /\ Rebuild(d, rs) /\ open' = d.live \ d.checked
      /\ x \in db.live => x \notin db.must
      /\ UNCHANGED <<updating, loose>>
  <2>1. d = [db EXCEPT !.live = IF x \in @ THEN @ \ {x} ELSE @ \cup {x}]
    BY <1>1 DEF Rows
  <2> HIDE DEF d
  <2> QED BY <2>1 DEF EnableApi
<1>3. d \in Rows
  BY <1>1 DEF Rows
<1>4. /\ d.live = L
      /\ d.row = db.row /\ d.must = db.must
      /\ d.funcs = db.funcs /\ d.opens = db.opens
      /\ d.granted = db.granted /\ d.grants = db.grants
      /\ d.shown = db.shown /\ d.sel = db.sel
  BY <1>1 DEF Rows
<1> HIDE DEF d
<1>5. Consistent(d)
  BY <1>1, <1>2, <1>4 DEF Consistent
<1>6. /\ rules' \in [Role -> SUBSET Api]
      /\ \A r \in Role : rules'[r] = IF r \in rs THEN Policies(d, r) ELSE rules[r]
  BY <1>2, <1>3, RebuildType
<1>7. \A r \in Role : rules[r] \subseteq Policies(db, r) => rules'[r] \subseteq Policies(d, r)
  <2> SUFFICES ASSUME NEW r \in Role, rules[r] \subseteq Policies(db, r)
               PROVE  rules'[r] \subseteq Policies(d, r)
    OBVIOUS
  <2>1. CASE r \in rs
    BY <1>6, <2>1
  <2>2. CASE r \notin rs
    <3>1. \A f \in db.sel[r] : x \notin db.opens[f]
      <4>1. db.sel[r] \subseteq Func
        BY <1>1 DEF Rows
      <4> QED BY <1>1, <1>4, <2>2, <4>1 DEF Consistent
    <3>2. Policies(db, r) \subseteq Policies(d, r)
      BY <1>4, <3>1 DEF Policies, Yield
    <3> QED BY <1>6, <2>2, <3>2
  <2> QED BY <2>1, <2>2
<1>8. open' \in SUBSET Api
  BY <1>2, <1>3 DEF Rows
<1>9. updating' \subseteq loose' /\ loose' \subseteq Role
  BY <1>2 DEF IInv, TypeOK
<1> QED BY <1>2, <1>3, <1>5, <1>6, <1>7, <1>8, <1>9, AdministratorStep

\* Steps that change no row the rules depend on.
LEMMA OtherRows ==
  ASSUME CatalogAssumption, IInv, NEW d \in Rows, Administered(d),
         UNCHANGED <<rules, open, updating, loose>>,
         d.live = db.live, d.row = db.row, d.must = db.must, d.funcs = db.funcs,
         d.opens = db.opens, d.granted = db.granted, d.grants = db.grants,
         d.shown = db.shown, d.sel = db.sel
  PROVE  IInv'
<1>1. db \in Rows /\ Consistent(db) /\ rules \in [Role -> SUBSET Api] /\ open \in SUBSET Api
  BY DEF IInv, TypeOK
<1>2. Consistent(d)
  BY <1>1 DEF Consistent
<1>3. \A r \in Role : Policies(db, r) = Policies(d, r)
  BY DEF Policies, Yield
<1>4. updating' \subseteq loose' /\ loose' \subseteq Role
  BY DEF IInv, TypeOK
<1> QED BY <1>1, <1>2, <1>3, <1>4, AdministratorStep

\* The rows of the request, whatever they are: the role becomes loose.
LEMMA UpdateRoleStep ==
  ASSUME CatalogAssumption, IInv, NEW ms \in SUBSET Menu, NEW pick \in SUBSET Func,
         NEW q \in Role, UpdateRole(q, ms, pick)
  PROVE  IInv'
<1> DEFINE d == [db EXCEPT !.roles = db.roles \cup {q}, !.shown[q] = ms, !.sel[q] = pick]
<1>1. db \in Rows /\ Consistent(db) /\ rules \in [Role -> SUBSET Api] /\ open \in SUBSET Api
  BY DEF IInv, TypeOK
<1>2. /\ Administered(d) /\ UNCHANGED <<rules, open>>
      /\ pick \subseteq FuncsOf(ms)
      /\ updating' = updating \cup {q} /\ loose' = loose \cup {q}
  BY <1>1 DEF UpdateRole, Rows
<1>3. d \in Rows
  BY <1>1 DEF Rows
<1>4. /\ d.shown = [db.shown EXCEPT ![q] = ms] /\ d.sel = [db.sel EXCEPT ![q] = pick]
      /\ d.row = db.row /\ d.must = db.must /\ d.live = db.live
      /\ d.funcs = db.funcs /\ d.opens = db.opens
      /\ d.granted = db.granted /\ d.grants = db.grants
  BY <1>1 DEF Rows
<1> HIDE DEF d
<1>5. \A r \in Role : /\ d.shown[r] = IF r = q THEN ms ELSE db.shown[r]
                      /\ d.sel[r] = IF r = q THEN pick ELSE db.sel[r]
  BY <1>1, <1>4 DEF Rows
<1>6. Consistent(d)
  BY <1>1, <1>2, <1>4, <1>5 DEF Consistent
<1>7. \A r \in Role : r # q => Policies(db, r) = Policies(d, r)
  BY <1>4, <1>5 DEF Policies, Yield
<1>8. \A r \in Role \ loose' : (r \notin loose => rules[r] \subseteq Policies(db, r))
                                => rules'[r] \subseteq Policies(d, r)
  BY <1>2, <1>7
<1>9. updating' \subseteq loose' /\ loose' \subseteq Role
  BY <1>2 DEF IInv, TypeOK
<1> QED BY <1>1, <1>2, <1>3, <1>6, <1>8, <1>9, AdministratorStep

\* Whatever it writes, it writes for a loose role.
LEMMA UpdateRoleAuthStep ==
  ASSUME CatalogAssumption, IInv, NEW q \in Role, UpdateRoleAuth(q)
  PROVE  IInv'
<1>1. db \in Rows /\ Consistent(db) /\ rules \in [Role -> SUBSET Api] /\ open \in SUBSET Api
      /\ changes \in 0..MaxChanges
  BY DEF IInv, TypeOK
<1>2. PICK new \in {Yield(db, {f \in db.sel[q] : db.row[MenuOf[f]] # "none"}), {}, rules[q]} :
        rules' = [rules EXCEPT ![q] = new]
  BY DEF UpdateRoleAuth
<1>3. q \in updating /\ updating' = updating \ {q} /\ inst' = Interrupted(inst)
      /\ UNCHANGED <<isolated, db, open, last, applied, changes, loose>>
  BY DEF UpdateRoleAuth
<1>4. new \subseteq Api
  BY <1>1, <1>2 DEF Yield, Rows
<1>5. rules' \in [Role -> SUBSET Api] /\ \A r \in Role : r # q => rules'[r] = rules[r]
  BY <1>1, <1>2, <1>4
<1>6. q \in loose /\ updating' \subseteq loose' /\ loose' \subseteq Role
  BY <1>3 DEF IInv, TypeOK
<1>7. \A r \in Role \ loose' : (r \notin loose => rules[r] \subseteq Policies(db, r))
                                => rules'[r] \subseteq Policies(db, r)
  BY <1>3, <1>5, <1>6
<1> QED BY <1>1, <1>3, <1>5, <1>6, <1>7, ChangeStep

LEMMA Step ==
  ASSUME CatalogAssumption, IInv, [Next]_vars
  PROVE  IInv'
<1>1. CASE UNCHANGED vars
  <2>1. TypeOK'
    BY <1>1, Zenon DEF IInv, TypeOK, vars
  <2> QED BY <1>1, <2>1 DEF IInv, RulesFollowGrants, SnapInv, vars
<1>2. ASSUME NEW i \in Instance, NEW v \in Version, Begin(i, v) PROVE IInv'
  BY <1>2, BeginStep
<1>3. ASSUME NEW i \in Instance, Commit(i) PROVE IInv'
  BY <1>3, CommitStep
<1>4. ASSUME NEW i \in Instance, Fail(i) PROVE IInv'
  <2>1. open' \in SUBSET Api
    BY <1>4 DEF Fail, IInv, TypeOK
  <2> QED BY <1>4, <2>1, InstancesOnly DEF Fail
<1>5. ASSUME NEW i \in Instance, OpenRules(i) PROVE IInv'
  <2>1. open' \in SUBSET Api
    BY <1>5 DEF OpenRules
  <2> QED BY <1>5, <2>1, InstancesOnly DEF OpenRules
<1>6. ASSUME NEW ms \in SUBSET Menu, NEW pick \in SUBSET Func, NEW r \in Role,
             PublishRole(r, ms, pick)
      PROVE  IInv'
  BY <1>6, PublishRoleStep
<1>7. ASSUME NEW ms \in SUBSET Menu, NEW pick \in SUBSET Func, PublishTenant(ms, pick)
      PROVE  IInv'
  BY <1>7, PublishTenantStep
<1>8. ASSUME NEW x \in Api, EnableApi(x) PROVE IInv'
  BY <1>8, EnableApiStep
<1>9. ASSUME NEW r \in Role, NEW to \in {"none", "edited"}, ChangePolicy(r, to) PROVE IInv'
  <2> DEFINE d == [db EXCEPT !.abac[r] = to]
  <2>1. db \in Rows
    BY DEF IInv, TypeOK
  <2>2. d \in Rows
    BY <2>1 DEF Rows
  <2>3. /\ d.live = db.live /\ d.row = db.row /\ d.must = db.must /\ d.funcs = db.funcs
        /\ d.opens = db.opens /\ d.granted = db.granted /\ d.grants = db.grants
        /\ d.shown = db.shown /\ d.sel = db.sel
    BY <2>1 DEF Rows
  <2>4. Administered(d) /\ UNCHANGED <<rules, open, updating, loose>>
    BY <1>9 DEF ChangePolicy
  <2> HIDE DEF d
  <2> QED BY <2>2, <2>3, <2>4, OtherRows
<1>10. ASSUME NEW ms \in SUBSET Menu, NEW pick \in SUBSET Func, NEW r \in Role,
              UpdateRole(r, ms, pick)
       PROVE  IInv'
  BY <1>10, UpdateRoleStep
<1>12. ASSUME NEW r \in Role, UpdateRoleAuth(r) PROVE IInv'
  BY <1>12, UpdateRoleAuthStep
<1>11. ASSUME NEW u \in User, NEW rs \in SUBSET Role, AssignRoles(u, rs) PROVE IInv'
  <2> DEFINE d == [db EXCEPT !.holds[u] = rs]
  <2>1. db \in Rows
    BY DEF IInv, TypeOK
  <2>2. d \in Rows
    BY <2>1 DEF Rows
  <2>3. /\ d.live = db.live /\ d.row = db.row /\ d.must = db.must /\ d.funcs = db.funcs
        /\ d.opens = db.opens /\ d.granted = db.granted /\ d.grants = db.grants
        /\ d.shown = db.shown /\ d.sel = db.sel
    BY <2>1 DEF Rows
  <2>4. Administered(d) /\ UNCHANGED <<rules, open, updating, loose>>
    BY <1>11 DEF AssignRoles
  <2> HIDE DEF d
  <2> QED BY <2>2, <2>3, <2>4, OtherRows
<1> QED
  BY <1>1, <1>2, <1>3, <1>4, <1>5, <1>6, <1>7, <1>8, <1>9, <1>10, <1>11, <1>12 DEF Next

----------------------------------------------------------------------------
\* Every version that is being applied is valid, and in an isolated database no
\* transaction writes what it did not read.
THEOREM InductiveInvariant == Spec => []IInv
<1>1. Init => IInv
  BY Start, CatalogAssumption
<1>2. IInv /\ [Next]_vars => IInv'
  BY Step, CatalogAssumption
<1> QED BY <1>1, <1>2, PTL DEF Spec

\* The rows refer to each other as they should, whatever is applied and changed.
THEOREM TypeCorrect == Spec => []TypeOK
<1>1. IInv => TypeOK
  BY DEF IInv
<1> QED BY <1>1, InductiveInvariant, PTL

\* In either kind of database, the rules of a role stay within its grants unless
\* UpdateRole or an application that overlaps a change has written to it since a
\* publication: other applications add no other rules, and what administrators
\* publish or disable rebuilds the rules of all the roles it narrows.
THEOREM RulesWithinGrants == Spec => []RulesFollowGrants
<1>1. IInv => RulesFollowGrants
  BY DEF IInv
<1> QED BY <1>1, InductiveInvariant, PTL

----------------------------------------------------------------------------
\* What is seeded, and when

\* Rows are created once and keep their kind, so a transaction still finds those
\* it has read; only an application creates a row with the catalogue's ID.
RowInv ==
  /\ \A v \in applied : \A t \in Items(Product[v]) : db.row[t] # "none"
  /\ applied = {} => \A t \in Item : db.row[t] # "own"
  /\ \A i \in Instance : inst[i].pc = "tx" =>
       \A t \in Item : inst[i].snap.row[t] # "none" => db.row[t] = inst[i].snap.row[t]

LEMMA AppliedRow ==
  ASSUME CatalogAssumption, NEW d \in Rows, NEW s \in Rows, NEW c \in Catalogs
  PROVE  Applied(d, s, c).row =
           [t \in Item |-> IF t \in Items(c) /\ d.row[t] = "none" THEN "own" ELSE d.row[t]]
<1> DEFINE seed == ~PreviouslyApplied(s, c)
           u == Upserted(d, c)
           g == IF seed THEN Seeded(u, s, c) ELSE u
           e == Backfilled(WithPolicies(g, c, seed), s, c)
           R == [t \in Item |-> IF t \in Items(c) /\ d.row[t] = "none" THEN "own" ELSE d.row[t]]
<1>1. Applied(d, s, c) = e
  BY DEF Applied
<1> HIDE DEF R
<1>2. u \in Rows /\ u.row = R
  BY UpsertedRows DEF R
<1> HIDE DEF u
<1>3. g \in Rows /\ g.row = R
  <2>1. CASE seed
    <3>1. g = Seeded(u, s, c)
      BY <2>1
    <3>2. IsSeeded(g, u, s, c)
      BY <1>2, <3>1, SeededRows
    <3> HIDE DEF g
    <3> QED BY <1>2, <3>2 DEF IsSeeded
  <2>2. CASE ~seed
    BY <1>2, <2>2
  <2> QED BY <2>1, <2>2
<1> HIDE DEF g
<1>4. seed \in BOOLEAN
  BY DEF PreviouslyApplied
<1> HIDE DEF seed
<1>5. e.row = g.row
  <2>1. IsFinished(e, g, s, c, seed)
    BY <1>3, <1>4, LastRows
  <2> HIDE DEF e
  <2> QED BY <2>1 DEF IsFinished
<1> QED BY <1>1, <1>3, <1>5 DEF R

LEMMA RowInvStart ==
  ASSUME Init
  PROVE  RowInv
<1>1. PICK old \in SUBSET Item : db.row = [t \in Item |-> IF t \in old THEN "other" ELSE "none"]
  <2>1. PICK old \in SUBSET Item, checked \in SUBSET Api :
          db = [row |-> [t \in Item |-> IF t \in old THEN "other" ELSE "none"],
                must |-> {}, roles |-> {}, live |-> old \cap Api, checked |-> checked,
                funcs |-> {}, opens |-> [f \in Func |-> {}],
                granted |-> {}, grants |-> {},
                shown |-> [r \in Role |-> {}], sel |-> [r \in Role |-> {}],
                abac |-> [r \in Role |-> "none"],
                holds |-> [u \in User |-> {}]]
    BY DEF Init
  <2> QED BY <2>1
<1>2. \A i \in Instance : inst[i].pc = "idle"
  BY IdleType DEF Init
<1>3. applied = {}
  BY DEF Init
<1> QED BY <1>1, <1>2, <1>3 DEF RowInv

\* A step that creates no row.
LEMMA NoNewRow ==
  ASSUME RowInv, db'.row = db.row, applied' = applied,
         \A i \in Instance : inst'[i].pc = "tx" =>
           inst'[i] = inst[i] \/ inst'[i].snap = db
  PROVE  RowInv'
<1>1. \A i \in Instance : inst'[i].pc = "tx" =>
        \A t \in Item : inst'[i].snap.row[t] # "none" => db'.row[t] = inst'[i].snap.row[t]
  BY DEF RowInv
<1> QED BY <1>1 DEF RowInv

LEMMA AdministeredRow ==
  ASSUME IInv, RowInv, NEW d, Administered(d), d.row = db.row
  PROVE  RowInv'
<1>1. db' = d /\ inst' = Interrupted(inst) /\ applied' = applied
  BY DEF Administered
<1>2. \A i \in Instance : inst'[i] \in {inst[i], Idle}
  BY <1>1, InterruptedJobs DEF IInv, TypeOK
<1> QED BY <1>1, <1>2, IdleType, NoNewRow

LEMMA CommitRow ==
  ASSUME CatalogAssumption, IInv, RowInv, NEW i \in Instance, Commit(i)
  PROVE  RowInv'
<1> DEFINE v == inst[i].v
           c == Product[v]
           s == inst[i].snap
           J == [pc |-> "rules", v |-> v, snap |-> None]
           jobs == [inst EXCEPT ![i] = J]
<1>1. /\ inst[i].pc = "tx"
      /\ db' = Applied(db, s, c)
      /\ applied' = applied \cup {v}
      /\ inst' = Interrupted(jobs)
  BY DEF Commit
<1>2. v \in Version /\ c \in Catalogs /\ s \in Rows /\ db \in Rows
  BY <1>1, Instances DEF IInv, TypeOK
<1>3. J \in Job /\ J.pc = "rules"
  BY <1>2 DEF Job
<1> HIDE DEF J
<1>4. jobs \in [Instance -> Job] /\ \A j \in Instance : jobs[j] = IF j = i THEN J ELSE inst[j]
  BY <1>3 DEF IInv, TypeOK
<1> HIDE DEF jobs, s
<1>5. \A j \in Instance : inst'[j].pc = "tx" => inst'[j] = inst[j]
  <2>1. \A j \in Instance : inst'[j] \in {jobs[j], Idle}
    BY <1>1, <1>4, InterruptedJobs
  <2> QED BY <1>3, <1>4, <2>1, IdleType
<1>6. db'.row = [t \in Item |-> IF t \in Items(c) /\ db.row[t] = "none" THEN "own" ELSE db.row[t]]
  BY <1>1, <1>2, AppliedRow
<1>7. \A w \in Version : Items(Product[w]) \subseteq Item
  BY DEF Items, Item, Catalogs, CatalogAssumption
<1>8. applied \subseteq Version
  BY DEF IInv, TypeOK
<1>9. \A w \in applied' : \A t \in Items(Product[w]) : db'.row[t] # "none"
  BY <1>1, <1>2, <1>6, <1>7, <1>8 DEF RowInv
<1>10. \A j \in Instance : inst'[j].pc = "tx" =>
         \A t \in Item : inst'[j].snap.row[t] # "none" => db'.row[t] = inst'[j].snap.row[t]
  BY <1>5, <1>6 DEF RowInv
<1> QED BY <1>1, <1>9, <1>10 DEF RowInv

LEMMA RowStep ==
  ASSUME CatalogAssumption, IInv, RowInv, [Next]_vars
  PROVE  RowInv'
<1>1. db \in Rows
  BY DEF IInv, TypeOK
<1>2. CASE UNCHANGED vars
  BY <1>2 DEF RowInv, vars
<1>3. ASSUME NEW i \in Instance, NEW v \in Version, Begin(i, v) PROVE RowInv'
  <2>1. /\ db' = db /\ applied' = applied
        /\ inst' = [inst EXCEPT ![i] = [pc |-> "tx", v |-> v, snap |-> db]]
    BY <1>3 DEF Begin
  <2>2. inst \in [Instance -> Job]
    BY DEF IInv, TypeOK
  <2> QED BY <2>1, <2>2, NoNewRow
<1>4. ASSUME NEW i \in Instance, Commit(i) PROVE RowInv'
  BY <1>4, CommitRow
<1>5. ASSUME NEW i \in Instance, Fail(i) \/ OpenRules(i) PROVE RowInv'
  <2>1. db' = db /\ applied' = applied /\ inst' = [inst EXCEPT ![i] = Idle]
    BY <1>5 DEF Fail, OpenRules
  <2>2. inst \in [Instance -> Job]
    BY DEF IInv, TypeOK
  <2> QED BY <2>1, <2>2, IdleType, NoNewRow
<1>6. ASSUME NEW ms \in SUBSET Menu, NEW pick \in SUBSET Func, NEW r \in Role,
             PublishRole(r, ms, pick)
      PROVE  RowInv'
  <2> DEFINE d == [db EXCEPT !.shown[r] = ms, !.sel[r] = pick]
  <2>1. Administered(d) /\ d.row = db.row
    BY <1>1, <1>6 DEF PublishRole, Rows
  <2> HIDE DEF d
  <2> QED BY <2>1, AdministeredRow
<1>7. ASSUME NEW ms \in SUBSET Menu, NEW pick \in SUBSET Func, PublishTenant(ms, pick)
      PROVE  RowInv'
  <2> DEFINE d == [db EXCEPT !.granted = ms, !.grants = pick,
                             !.shown = [r \in Role |-> @[r] \cap ms],
                             !.sel = [r \in Role |-> @[r] \cap pick]]
  <2>1. Administered(d) /\ d.row = db.row
    BY <1>1, <1>7 DEF PublishTenant, Rows
  <2> HIDE DEF d
  <2> QED BY <2>1, AdministeredRow
<1>8. ASSUME NEW x \in Api, EnableApi(x) PROVE RowInv'
  <2> DEFINE d == [db EXCEPT !.live = IF x \in @ THEN @ \ {x} ELSE @ \cup {x}]
  <2>1. Administered(d) /\ d.row = db.row
    BY <1>1, <1>8 DEF EnableApi, Rows
  <2> HIDE DEF d
  <2> QED BY <2>1, AdministeredRow
<1>9. ASSUME NEW r \in Role, NEW to \in {"none", "edited"}, ChangePolicy(r, to) PROVE RowInv'
  <2> DEFINE d == [db EXCEPT !.abac[r] = to]
  <2>1. Administered(d) /\ d.row = db.row
    BY <1>1, <1>9 DEF ChangePolicy, Rows
  <2> HIDE DEF d
  <2> QED BY <2>1, AdministeredRow
<1>10. ASSUME NEW ms \in SUBSET Menu, NEW pick \in SUBSET Func, NEW r \in Role,
              UpdateRole(r, ms, pick)
       PROVE  RowInv'
  <2> DEFINE d == [db EXCEPT !.roles = @ \cup {r}, !.shown[r] = ms, !.sel[r] = pick]
  <2>1. Administered(d) /\ d.row = db.row
    BY <1>1, <1>10 DEF UpdateRole, Rows
  <2> HIDE DEF d
  <2> QED BY <2>1, AdministeredRow
<1>12. ASSUME NEW r \in Role, UpdateRoleAuth(r) PROVE RowInv'
  <2>1. db' = db /\ applied' = applied /\ inst' = Interrupted(inst)
    BY <1>12 DEF UpdateRoleAuth
  <2>2. \A i \in Instance : inst'[i] \in {inst[i], Idle}
    BY <2>1, InterruptedJobs DEF IInv, TypeOK
  <2> QED BY <2>1, <2>2, IdleType, NoNewRow
<1>11. ASSUME NEW u \in User, NEW rs \in SUBSET Role, AssignRoles(u, rs) PROVE RowInv'
  <2> DEFINE d == [db EXCEPT !.holds[u] = rs]
  <2>1. Administered(d) /\ d.row = db.row
    BY <1>1, <1>11 DEF AssignRoles, Rows
  <2> HIDE DEF d
  <2> QED BY <2>1, AdministeredRow
<1> QED
  BY <1>2, <1>3, <1>4, <1>5, <1>6, <1>7, <1>8, <1>9, <1>10, <1>11, <1>12 DEF Next

\* A version that has been applied and has rows of its own is recognised.
LEMMA Recognised ==
  ASSUME CatalogAssumption, IInv, RowInv, NEW i \in Instance, Commit(i),
         inst[i].v \in applied, ~Adopted(inst[i].v)
  PROVE  PreviouslyApplied(inst[i].snap, Product[inst[i].v])
<1> DEFINE c == Product[inst[i].v]
           s == inst[i].snap
<1>1. inst[i].pc = "tx" /\ ~Clash(db, s, c)
  BY DEF Commit
<1>2. c \in Catalogs /\ db \in Rows
  BY <1>1, Instances DEF IInv, TypeOK
<1>3. PICK t \in Items(c) : db.row[t] # "other"
  BY DEF Adopted
<1>4. t \in Item /\ db.row[t] = "own"
  <2>1. t \in Item
    BY <1>2 DEF Items, Item, Catalogs
  <2> QED BY <1>2, <1>3, <2>1 DEF RowInv, Rows
<1>5. s.row[t] # "none"
  BY <1>1, <1>4 DEF Clash
<1>6. s.row[t] = "own"
  BY <1>1, <1>4, <1>5 DEF RowInv
<1> QED BY <1>6 DEF PreviouslyApplied

\* Before the first application nothing is recognised.
LEMMA Unrecognised ==
  ASSUME CatalogAssumption, IInv, RowInv, NEW i \in Instance, Commit(i), applied = {},
         Product[inst[i].v].bounds # {}
  PROVE  ~PreviouslyApplied(inst[i].snap, Product[inst[i].v])
<1> DEFINE c == Product[inst[i].v]
           s == inst[i].snap
<1>1. inst[i].pc = "tx"
  BY DEF Commit
<1>2. c \in Catalogs /\ Valid(c)
  BY <1>1, Instances
<1>3. \A t \in Items(c) : s.row[t] # "own"
  <2>1. Items(c) \subseteq Item
    BY <1>2 DEF Items, Item, Catalogs
  <2> QED BY <1>1, <2>1 DEF RowInv
<1>4. Items(c) # {}
  BY <1>2 DEF Valid, Items, MenusOf
<1> QED BY <1>3, <1>4 DEF PreviouslyApplied, Items

LEMMA CommitDecisions ==
  ASSUME CatalogAssumption, IInv, RowInv, NEW i \in Instance, Commit(i)
  PROVE  Decisions(i)
<1> DEFINE v == inst[i].v
           c == Product[v]
           s == inst[i].snap
           seed == ~PreviouslyApplied(s, c)
           u == Upserted(db, c)
           g == IF seed THEN Seeded(u, s, c) ELSE u
           e == Backfilled(WithPolicies(g, c, seed), s, c)
<1>1. inst[i].pc = "tx" /\ db' = e
  BY DEF Commit, Applied
<1>2. c \in Catalogs /\ s \in Rows /\ db \in Rows /\ (isolated => s = db)
  BY <1>1, Instances DEF IInv, TypeOK
<1>3. v \in applied /\ ~Adopted(v) => ~seed
  BY Recognised
<1>4. applied = {} => c.bounds = {} \/ seed
  BY Unrecognised
<1> HIDE DEF s
<1>5. /\ u \in Rows
      /\ u.granted = db.granted /\ u.grants = db.grants
      /\ u.shown = db.shown /\ u.sel = db.sel
      /\ u.abac = db.abac /\ u.holds = db.holds
  BY <1>2, UpsertedRows
<1> HIDE DEF u, c, v
<1>6. CASE seed
  <2>1. g = Seeded(u, s, c)
    BY <1>6
  <2>2. IsSeeded(g, u, s, c)
    BY <1>2, <1>5, <2>1, SeededRows
  <2> HIDE DEF g
  <2>3. /\ g \in Rows /\ g.holds = u.holds
        /\ g.grants = u.grants \cup (c.bounds \cap FuncsOf(MenusOf(c.bounds) \ s.granted))
    BY <2>2 DEF IsSeeded
  <2>4. /\ e.grants = g.grants
        /\ \A w \in User : e.holds[w] = IF s.holds[w] = {} THEN g.holds[w] \cup {c.default}
                                                           ELSE g.holds[w]
    <3>1. seed \in BOOLEAN
      BY <1>6
    <3> HIDE DEF seed
    <3>2. IsFinished(e, g, s, c, seed)
      BY <1>2, <2>3, <3>1, LastRows
    <3> HIDE DEF e
    <3> QED BY <3>2 DEF IsFinished
  <2>5. ASSUME s.granted = {} PROVE c.bounds \subseteq e.grants
    <3>1. c.bounds \subseteq Func
      BY <1>2 DEF Catalogs
    <3> QED BY <2>3, <2>4, <2>5, <3>1 DEF FuncsOf, MenusOf
  <2> HIDE DEF e
  <2> QED BY <1>1, <1>2, <1>3, <1>5, <1>6, <2>3, <2>4, <2>5 DEF Decisions, c, v, s
<1>7. CASE ~seed
  <2>1. g = u
    BY <1>7
  <2> HIDE DEF g
  <2>2. seed = FALSE
    BY <1>7
  <2> HIDE DEF seed
  <2>3. /\ e.granted = g.granted /\ e.grants = g.grants
        /\ e.shown = g.shown /\ e.sel = g.sel
        /\ \A r \in Role : e.abac[r] = IF r \in c.abac /\ (seed \/ g.abac[r] = "none")
                                         THEN "product" ELSE g.abac[r]
        /\ \A w \in User : e.holds[w] = IF s.holds[w] = {} THEN g.holds[w] \cup {c.default}
                                                           ELSE g.holds[w]
    <3>1. IsFinished(e, g, s, c, seed)
      BY <1>2, <1>5, <2>1, <2>2, LastRows
    <3> HIDE DEF e
    <3> QED BY <3>1 DEF IsFinished
  <2> HIDE DEF e
  <2> QED BY <1>1, <1>2, <1>4, <1>5, <1>7, <2>1, <2>2, <2>3 DEF Decisions, c, v, s
<1> QED BY <1>6, <1>7

\* Only a commit ends a transaction with rules to rebuild.
LEMMA OnlyCommit ==
  ASSUME IInv, NEW i \in Instance, inst[i].pc = "tx", inst'[i].pc = "rules", [Next]_vars
  PROVE  Commit(i)
<1>1. inst \in [Instance -> Job]
  BY DEF IInv, TypeOK
<1>2. inst' # Interrupted(inst) /\ \A d : ~Administered(d)
  <2> SUFFICES ASSUME inst' = Interrupted(inst) PROVE FALSE
    BY DEF Administered
  <2>1. inst'[i] \in {inst[i], Idle}
    BY <1>1, InterruptedJobs
  <2> QED BY <2>1, IdleType
<1>3. ~UNCHANGED vars
  BY DEF vars
<1>4. ASSUME NEW j \in Instance, NEW v \in Version, Begin(j, v) PROVE FALSE
  BY <1>1, <1>4 DEF Begin
<1>5. ASSUME NEW j \in Instance, Commit(j), j # i PROVE FALSE
  <2> DEFINE J == [pc |-> "rules", v |-> inst[j].v, snap |-> None]
             jobs == [inst EXCEPT ![j] = J]
  <2>1. inst' = Interrupted(jobs) /\ inst[j].pc = "tx"
    BY <1>5 DEF Commit
  <2>2. J \in Job
    BY <1>1 DEF Job
  <2> HIDE DEF J
  <2>3. jobs \in [Instance -> Job] /\ jobs[i] = inst[i]
    BY <1>1, <1>5, <2>2
  <2> HIDE DEF jobs
  <2>4. inst'[i] \in {jobs[i], Idle}
    BY <2>1, <2>3, InterruptedJobs
  <2> QED BY <2>3, <2>4, IdleType
<1>6. ASSUME NEW j \in Instance, Fail(j) \/ OpenRules(j) PROVE FALSE
  <2>1. inst' = [inst EXCEPT ![j] = Idle]
    BY <1>6 DEF Fail, OpenRules
  <2> QED BY <1>1, <2>1, IdleType
<1>7. ASSUME NEW ms \in SUBSET Menu, NEW pick \in SUBSET Func, NEW r \in Role,
             PublishRole(r, ms, pick)
      PROVE  FALSE
  BY <1>2, <1>7 DEF PublishRole
<1>8. ASSUME NEW ms \in SUBSET Menu, NEW pick \in SUBSET Func, PublishTenant(ms, pick)
      PROVE  FALSE
  BY <1>2, <1>8 DEF PublishTenant
<1>9. ASSUME NEW x \in Api, EnableApi(x) PROVE FALSE
  BY <1>2, <1>9 DEF EnableApi
<1>10. ASSUME NEW r \in Role, NEW to \in {"none", "edited"}, ChangePolicy(r, to) PROVE FALSE
  BY <1>2, <1>10 DEF ChangePolicy
<1>11. ASSUME NEW ms \in SUBSET Menu, NEW pick \in SUBSET Func, NEW r \in Role,
              UpdateRole(r, ms, pick) \/ UpdateRoleAuth(r)
       PROVE  FALSE
  BY <1>2, <1>11 DEF UpdateRole, UpdateRoleAuth
<1>12. ASSUME NEW w \in User, NEW rs \in SUBSET Role, AssignRoles(w, rs) PROVE FALSE
  BY <1>2, <1>12 DEF AssignRoles
<1> QED
  BY <1>3, <1>4, <1>5, <1>6, <1>7, <1>8, <1>9, <1>10, <1>11, <1>12 DEF Next

\* An application seeds a tenant that has not seen the catalogue and takes back
\* nothing of what has been decided since: rows keep their IDs, so a later one
\* recognises them, and one that has read too early meets the ID it wants to use.
THEOREM SeedsOnce == Spec => SeededOnce
<1>1. Init => RowInv
  BY RowInvStart
<1>2. IInv /\ RowInv /\ [Next]_vars => RowInv'
  BY RowStep, CatalogAssumption
<1>3. IInv /\ RowInv /\ [Next]_vars =>
        [\A i \in Instance : inst[i].pc = "tx" /\ inst'[i].pc = "rules" => Decisions(i)]_vars
  BY OnlyCommit, CommitDecisions, CatalogAssumption
<1> QED BY <1>1, <1>2, <1>3, InductiveInvariant, PTL DEF Spec, SeededOnce
=============================================================================
