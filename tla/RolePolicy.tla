------------------------------ MODULE RolePolicy ------------------------------
(***************************************************************************)
(* How a change to a role becomes decisions: internal/permission/casbin.go *)
(* and internal/permission/role.go, for one role.  The database has the    *)
(* role, what its menu selection yields, and its casbin_rule rows; every   *)
(* process has an enforcer, which holds the rows of its last LoadPolicy,   *)
(* and a cache of decisions, which is flushed after a LoadPolicy, in a     *)
(* step of its own: requests are decided in between.                       *)
(*                                                                         *)
(* The older operations rebuild the rules of the role in statements of     *)
(* their own, after the transaction that changes the role (updateRoleAuth: *)
(* read, clear, clear, create); the newer ones replace them inside it.     *)
(* Only the process of the call loads the result: InitCasbin registers a   *)
(* callback with redisWatcher, but nothing in the repository publishes.    *)
(*                                                                         *)
(* Abstracted: users and their sessions (TokenSession), the selections     *)
(* behind the rules (RoleGrants), the rules of other roles, and the time   *)
(* to live of a cached decision, which may end at any time.  The row lock  *)
(* of a transaction makes it one step.                                     *)
(***************************************************************************)
EXTENDS Naturals, FiniteSets

CONSTANTS
  Rule,        \* what a role can be allowed: a path and a method
  Proc,        \* processes that share the database
  Change,      \* concurrent administrative calls
  Home,        \* Home[c]: the process that serves c
  Yields,      \* what the selections an instance considers yield
  Request,     \* concurrent authorization requests of a process
  MaxChanges,  \* bound: administrative calls of a behaviour
  MaxFaults    \* bound: database errors and crashes of a behaviour

ASSUME RolePolicyAssumption ==
  /\ IsFiniteSet(Rule) /\ IsFiniteSet(Request)
  /\ Home \in [Change -> Proc]
  /\ Yields \subseteq SUBSET Rule
  /\ MaxChanges \in Nat /\ MaxFaults \in Nat

VARIABLES
  role,     \* the roles row, and the rules its role_menus rows yield
  rules,    \* the casbin_rule rows of the role
  policy,   \* policy[p]: the rules of the role in the enforcer of p
  cached,   \* cached[p][x]: authResultCache of p
  change,   \* change[c]: what the goroutine of call c is doing
  request,  \* request[p][q]: a decision taken and not stored yet
  left,     \* calls that may still start
  faults,   \* errors and crashes that may still happen
  settled   \* history: the process of the last change to end, if that change
            \* ran without an error while no other one was running

vars ==
  <<role, rules, policy, cached, change, request, left, faults, settled>>

Row == [here: BOOLEAN, enable: BOOLEAN, yields: SUBSET Rule]

\* round 1: the first ClearCasbin of updateRoleAuth; round 2: the one inside
\* UpdateCasbin; round 3: the LoadPolicy after the rules are written.
Job == [pc: {"idle", "read", "delete", "load", "swap", "flush", "create"},
        round: 1..3, list: SUBSET Rule, snap: SUBSET Rule, alone: BOOLEAN]

Asked == [rule: Rule, ok: BOOLEAN]

NoRequest == [idle |-> TRUE]

TypeOK ==
  /\ role \in Row
  /\ rules \subseteq Rule
  /\ policy \in [Proc -> SUBSET Rule]
  /\ cached \in [Proc -> [Rule -> {"none", "allow", "deny"}]]
  /\ change \in [Change -> Job]
  /\ request \in [Proc -> [Request -> Asked \cup {NoRequest}]]
  /\ left \in 0..MaxChanges /\ faults \in 0..MaxFaults
  /\ settled \subseteq Proc

IdleJob ==
  [pc |-> "idle", round |-> 1, list |-> {}, snap |-> {}, alone |-> FALSE]

Nothing == [x \in Rule |-> "none"]

Absent == [here |-> FALSE, enable |-> FALSE, yields |-> {}]

Init ==
  /\ role = Absent
  /\ rules = {}
  /\ policy = [p \in Proc |-> {}]
  /\ cached = [p \in Proc |-> Nothing]
  /\ change = [c \in Change |-> IdleJob]
  /\ request = [p \in Proc |-> [q \in Request |-> NoRequest]]
  /\ left = MaxChanges /\ faults = MaxFaults
  /\ settled = {}

\* The rules the role should have.
Due == IF role.here /\ role.enable THEN role.yields ELSE {}

At(c, pc) == change[c].pc = pc

Goto(c, pc, round) ==
  change' = [change EXCEPT ![c].pc = pc, ![c].round = round]

----------------------------------------------------------------------------
\* Administrative calls

\* The first step of a call, which leads to pc.
Start(c, pc) ==
  LET others == {d \in Change : ~At(d, "idle")}
  IN  /\ At(c, "idle")
      /\ left > 0
      /\ left' = left - 1
      /\ change' = [d \in Change |->
                     IF d = c
                     THEN [IdleJob EXCEPT !.pc = pc, !.alone = others = {},
                                          !.round = IF pc = "load" THEN 3 ELSE 1]
                     ELSE [change[d] EXCEPT !.alone = FALSE]]
      /\ settled' = {}

\* The end of a call.
End(c, ok) ==
  /\ change' = [change EXCEPT ![c] = IdleJob]
  /\ settled' = IF ok /\ change[c].alone THEN {Home[c]} ELSE {}

\* The transactions that are followed by updateRoleAuth.  The database errors
\* of the transaction itself leave nothing behind, and are left out.
CreateRole(c, y) ==
  /\ ~role.here
  /\ role' = [here |-> TRUE, enable |-> TRUE, yields |-> y]
  /\ Start(c, "read")
  /\ UNCHANGED <<rules, policy, cached, request, faults>>

UpdateRole(c, y) ==
  /\ role.here
  /\ role' = [role EXCEPT !.yields = y]
  /\ Start(c, "read")
  /\ UNCHANGED <<rules, policy, cached, request, faults>>

SetRoleEnabled(c, enable) ==
  /\ role.here
  /\ role' = [role EXCEPT !.enable = enable]
  /\ Start(c, "read")
  /\ UNCHANGED <<rules, policy, cached, request, faults>>

\* The transactions that write the rules too: publishing the authorization of
\* the role or of its tenant, and changes to the menus, functions and APIs it
\* has selected.
Publish(c, y) ==
  /\ role.here
  /\ role' = [role EXCEPT !.yields = y]
  /\ rules' = IF role.enable THEN y ELSE {}
  /\ Start(c, "load")
  /\ UNCHANGED <<policy, cached, request, faults>>

DeleteRole(c) ==
  /\ role.here
  /\ role' = Absent
  /\ rules' = {}
  /\ Start(c, "load")
  /\ UNCHANGED <<policy, cached, request, faults>>

----------------------------------------------------------------------------
\* updateRoleAuth and UpdateCasbin

GetFullRole(c) ==
  /\ At(c, "read")
  /\ IF role.here
     THEN /\ change' = [change EXCEPT ![c].pc = "delete", ![c].list = Due]
          /\ UNCHANGED settled
     ELSE End(c, TRUE)
  /\ UNCHANGED <<role, rules, policy, cached, request, left, faults>>

\* ClearCasbin, up to its LoadPolicy.
ClearCasbin(c) ==
  /\ At(c, "delete")
  /\ rules' = {}
  /\ Goto(c, "load", change[c].round)
  /\ UNCHANGED <<role, policy, cached, request, left, faults, settled>>

\* LoadPolicy reads the rows ...
LoadPolicy(c) ==
  /\ At(c, "load")
  /\ change' = [change EXCEPT ![c].pc = "swap", ![c].snap = rules]
  /\ UNCHANGED <<role, rules, policy, cached, request, left, faults, settled>>

\* Mutant: the rules are cleared again after they have been created.
ContinueOnceMore(c) ==
  IF change[c].round = 1 /\ change[c].list = {}
  THEN End(c, TRUE)
  ELSE Goto(c, "delete", change[c].round + 1) /\ UNCHANGED settled

\* What follows the flush.
Continue(c) ==
  CASE change[c].round = 1 /\ change[c].list # {} ->
         Goto(c, "delete", 2) /\ UNCHANGED settled
    [] change[c].round = 2 -> Goto(c, "create", 2) /\ UNCHANGED settled
    [] OTHER -> End(c, TRUE)

\* ... and makes them the policy.
Swap(c) ==
  /\ At(c, "swap")
  /\ policy' = [policy EXCEPT ![Home[c]] = change[c].snap]
  /\ Goto(c, "flush", change[c].round)
  /\ UNCHANGED <<role, rules, cached, request, left, faults, settled>>

\* Mutant: the cached decisions stay.
FlushNothing(c) ==
  /\ At(c, "flush")
  /\ Continue(c)
  /\ UNCHANGED <<role, rules, policy, cached, request, left, faults>>

\* InvalidateAuthCache.
Flush(c) ==
  /\ At(c, "flush")
  /\ cached' = [cached EXCEPT ![Home[c]] = Nothing]
  /\ Continue(c)
  /\ UNCHANGED <<role, rules, policy, request, left, faults>>

\* Mutant: UpdateCasbin returns once the rules are written.
CreateRulesOnly(c) ==
  /\ At(c, "create")
  /\ rules' = rules \cup change[c].list
  /\ End(c, TRUE)
  /\ UNCHANGED <<role, policy, cached, request, left, faults>>

\* One INSERT of all the rules; a rule that is there already, by the unique
\* index of casbin_rule, makes it fail.
CreateRules(c) ==
  /\ At(c, "create")
  /\ IF rules \cap change[c].list = {}
     THEN /\ rules' = rules \cup change[c].list
          /\ Goto(c, "load", 3)
          /\ UNCHANGED settled
     ELSE End(c, FALSE) /\ UNCHANGED rules
  /\ UNCHANGED <<role, policy, cached, request, left, faults>>

\* A statement of a call fails.  updateRoleAuth goes on when the first
\* ClearCasbin has failed and there are rules to create.
Fail(c) ==
  /\ faults > 0
  /\ change[c].pc \in {"read", "delete", "load", "create"}
  /\ IF /\ change[c].pc \in {"delete", "load"}
        /\ change[c].round = 1
        /\ change[c].list # {}
     THEN Goto(c, "delete", 2) /\ UNCHANGED settled
     ELSE End(c, FALSE)
  /\ faults' = faults - 1
  /\ UNCHANGED <<role, rules, policy, cached, request, left>>

\* Process p stops and starts again: InitCasbin loads the rows.
Crash(p) ==
  LET lost == {c \in Change : Home[c] = p /\ ~At(c, "idle")}
  IN  /\ faults > 0
      /\ faults' = faults - 1
      /\ change' = [c \in Change |->
                     IF c \in lost THEN IdleJob ELSE change[c]]
      /\ policy' = [policy EXCEPT ![p] = rules]
      /\ cached' = [cached EXCEPT ![p] = Nothing]
      /\ request' = [request EXCEPT ![p] = [q \in Request |-> NoRequest]]
      /\ UNCHANGED <<role, rules, left, settled>>

----------------------------------------------------------------------------
\* EnforceCached

\* A decision that is not cached is taken from the policy ...
Enforce(p, q, x) ==
  /\ request[p][q] = NoRequest
  /\ cached[p][x] = "none"
  /\ request' = [request EXCEPT ![p][q] = [rule |-> x, ok |-> x \in policy[p]]]
  /\ UNCHANGED <<role, rules, policy, cached, change, left, faults, settled>>

\* ... and stored.
SetDefault(p, q) ==
  /\ request[p][q] # NoRequest
  /\ cached' = [cached EXCEPT ![p][request[p][q].rule] =
                  IF request[p][q].ok THEN "allow" ELSE "deny"]
  /\ request' = [request EXCEPT ![p][q] = NoRequest]
  /\ UNCHANGED <<role, rules, policy, change, left, faults, settled>>

\* Mutant: a cached decision stays until the next flush.
ExpireNever(p, x) ==
  /\ cached[p][x] # "none"
  /\ UNCHANGED vars

\* Two minutes have passed.
Expire(p, x) ==
  /\ cached[p][x] # "none"
  /\ cached' = [cached EXCEPT ![p][x] = "none"]
  /\ UNCHANGED <<role, rules, policy, change, request, left, faults, settled>>

----------------------------------------------------------------------------
Work(c) ==
  \/ GetFullRole(c)
  \/ ClearCasbin(c)
  \/ LoadPolicy(c)
  \/ Swap(c)
  \/ Flush(c)
  \/ CreateRules(c)

Next ==
  \/ \E c \in Change :
       \/ \E y \in Yields : \/ CreateRole(c, y)
                            \/ UpdateRole(c, y)
                            \/ Publish(c, y)
       \/ \E enable \in BOOLEAN : SetRoleEnabled(c, enable)
       \/ DeleteRole(c)
       \/ Work(c)
       \/ Fail(c)
  \/ \E p \in Proc :
       \/ Crash(p)
       \/ \E q \in Request : SetDefault(p, q) \/ \E x \in Rule : Enforce(p, q, x)
       \/ \E x \in Rule : Expire(p, x)

Spec == Init /\ [][Next]_vars

\* Calls and requests are goroutines, which the runtime runs in the end, and a
\* cached decision is dropped when its time to live is over.
Fairness ==
  /\ \A c \in Change : WF_vars(Work(c))
  /\ \A p \in Proc : \A q \in Request : WF_vars(SetDefault(p, q))
  /\ \A p \in Proc : \A x \in Rule : WF_vars(Expire(p, x))

FairSpec == Spec /\ Fairness

----------------------------------------------------------------------------
\* Properties

\* Whatever overlapping changes, database errors and crashes have left behind,
\* a change that runs by itself and without an error repairs it: once it has
\* ended, the rows are the rules that are due to the role, and the enforcer
\* of its process has them.
AloneRepairs ==
  \A p \in settled : rules = Due /\ policy[p] = rules

\* Decisions that differ from the policy: cached ones, and ones on their way.
Wrong(p, x, ok) == ok # (x \in policy[p])

Kept(p) ==
  {x \in Rule : \/ cached[p][x] = "allow" /\ Wrong(p, x, TRUE)
                \/ cached[p][x] = "deny" /\ Wrong(p, x, FALSE)}

Coming(p) ==
  {q \in Request : /\ request[p][q] # NoRequest
                   /\ Wrong(p, request[p][q].rule, request[p][q].ok)}

\* A policy that has been assigned and not followed by its flush yet.
Flushing(p) == \E c \in Change : At(c, "flush") /\ Home[c] = p

\* Between the assignment of a policy and its flush every cached decision may
\* be one of the policy before (casbin.go:58-62).  Outside of that window, a
\* cached decision differs from the policy only if it was on its way when the
\* cache was flushed (casbin.go:269-275): there are never more of them than
\* requests that can be on their way, however many changes overlap.
StaleIsBounded ==
  \A p \in Proc :
    Flushing(p)
    \/ Cardinality(Kept(p)) + Cardinality(Coming(p)) <= Cardinality(Request)

\* When no more changes come, the process of the last one decides by the role
\* as it is in the end, if that change had the role for itself.
DecisionsSettle ==
  <>[](\A p \in settled : \A x \in Rule :
         cached[p][x] \in {"none", IF x \in Due THEN "allow" ELSE "deny"})
=============================================================================
