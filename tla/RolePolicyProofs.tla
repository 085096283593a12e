-------------------------- MODULE RolePolicyProofs --------------------------
(***************************************************************************)
(* Proofs about RolePolicy for any rules, processes and calls.  That a     *)
(* change which runs alone repairs everything is inductive with what such  *)
(* a change has reached: the rules it has read are those due, the rows are *)
(* gone after a clear and complete after the insert, and so is what it has *)
(* loaded of them.                                                         *)
(***************************************************************************)
EXTENDS RolePolicy, FiniteSetTheorems, TLAPS

\* How far a change that runs alone has come.
Reached(c) ==
  /\ At(c, "read") => role.here /\ change[c].round = 1
  /\ ~At(c, "read") /\ ~At(c, "idle") /\ change[c].round < 3
       => change[c].list = Due
  /\ At(c, "delete") => change[c].round < 3
  /\ At(c, "create") => change[c].round = 2
  /\ change[c].pc \in {"load", "swap", "flush", "create"} /\ change[c].round < 3
       => rules = {}
  /\ change[c].pc \in {"load", "swap", "flush"} /\ change[c].round = 3
       => rules = Due
  /\ At(c, "swap") => change[c].snap = rules
  /\ At(c, "flush") => policy[Home[c]] = rules

AloneInv ==
  \A c \in Change :
    ~At(c, "idle") =>
      /\ settled = {}
      /\ change[c].alone =>
           /\ \A d \in Change : ~At(d, "idle") => d = c
           /\ Reached(c)

IInv == TypeOK /\ AloneInv /\ AloneRepairs

----------------------------------------------------------------------------

LEMMA IdleJobType == IdleJob \in Job /\ IdleJob.pc = "idle"
BY DEF IdleJob, Job

LEMMA InitIInv == Init => IInv
<1> SUFFICES ASSUME Init PROVE IInv
  OBVIOUS
<1>1. TypeOK
  <2>1. NoRequest \in Asked \cup {NoRequest}
    OBVIOUS
  <2>2. request \in [Proc -> [Request -> Asked \cup {NoRequest}]]
    BY <2>1 DEF Init
  <2>3. change \in [Change -> Job]
    BY IdleJobType DEF Init
  <2>4. left \in 0..MaxChanges /\ faults \in 0..MaxFaults
    BY RolePolicyAssumption DEF Init
  <2>5. role \in Row
    BY DEF Init, Absent, Row
  <2> QED BY <2>2, <2>3, <2>4, <2>5 DEF Init, TypeOK, Nothing
<1>2. AloneInv /\ AloneRepairs
  BY DEF Init, AloneInv, AloneRepairs, At, IdleJob
<1> QED BY <1>1, <1>2 DEF IInv

----------------------------------------------------------------------------
\* The beginning and the end of a call

\* A call that starts is alone or nobody is.
LEMMA Starting ==
  ASSUME IInv, NEW c \in Change, NEW pc \in {"read", "load"}, Start(c, pc),
         role' \in Row, rules' \in SUBSET Rule,
         pc = "read" => role'.here,
         pc = "load" => rules' = Due',
         UNCHANGED <<policy, cached, request, faults>>
  PROVE  IInv'
<1>1. TypeOK'
  <2>1. [IdleJob EXCEPT !.pc = pc,
                        !.alone = {d \in Change : ~At(d, "idle")} = {},
                        !.round = IF pc = "load" THEN 3 ELSE 1] \in Job
    <3>1. /\ ({d \in Change : ~At(d, "idle")} = {}) \in BOOLEAN
          /\ (IF pc = "load" THEN 3 ELSE 1) \in 1..3
      OBVIOUS
    <3>2. \A a \in BOOLEAN : \A r \in 1..3 :
            [IdleJob EXCEPT !.pc = pc, !.alone = a, !.round = r] \in Job
      BY DEF IdleJob, Job
    <3> QED BY <3>1, <3>2
  <2>2. \A d \in Change : [change[d] EXCEPT !.alone = FALSE] \in Job
    BY DEF IInv, TypeOK, Job
  <2>3. change' \in [Change -> Job]
    BY <2>1, <2>2 DEF Start
  <2>4. left' \in 0..MaxChanges
    <3>1. left > 0 /\ left' = left - 1
      BY DEF Start
    <3>2. left \in 0..MaxChanges
      BY DEF IInv, TypeOK
    <3> QED BY <3>1, <3>2, RolePolicyAssumption
  <2>5. settled' = {}
    BY DEF Start
  <2> QED BY <2>3, <2>4, <2>5 DEF IInv, TypeOK
<1>2. AloneInv'
  <2> SUFFICES ASSUME NEW d \in Change, ~At(d, "idle")'
               PROVE  /\ settled' = {}
                      /\ change'[d].alone =>
                           /\ \A e \in Change : ~At(e, "idle")' => e = d
                           /\ Reached(d)'
    BY DEF AloneInv
  <2>1. settled' = {}
    BY DEF Start
  <2>2. CASE d # c
    <3>1. change'[d] = [change[d] EXCEPT !.alone = FALSE]
      BY <2>2 DEF Start
    <3>2. change'[d].alone = FALSE
      BY <3>1 DEF IInv, TypeOK, Job
    <3> QED BY <2>1, <3>2
  <2>3. CASE d = c
    <3> SUFFICES ASSUME change'[c].alone
                 PROVE  /\ \A e \in Change : ~At(e, "idle")' => e = c
                        /\ Reached(c)'
      BY <2>1, <2>3
    <3>1. /\ change'[c].pc = pc
          /\ change'[c].round = IF pc = "load" THEN 3 ELSE 1
          /\ change'[c].alone = ({e \in Change : ~At(e, "idle")} = {})
      BY DEF Start, IdleJob
    <3>2. \A e \in Change : e # c => change'[e].pc = "idle"
      <4> SUFFICES ASSUME NEW e \in Change, e # c
                   PROVE  change'[e].pc = "idle"
        OBVIOUS
      <4>1. change[e].pc = "idle"
        BY <3>1 DEF At
      <4>2. change'[e] = [change[e] EXCEPT !.alone = FALSE]
        BY DEF Start
      <4> QED BY <4>1, <4>2 DEF IInv, TypeOK, Job
    <3>3. Reached(c)'
      BY <3>1 DEF Reached, At, Due
    <3> QED BY <3>2, <3>3 DEF At
  <2> QED BY <2>2, <2>3
<1>3. AloneRepairs'
  BY DEF Start, AloneRepairs
<1> QED BY <1>1, <1>2, <1>3 DEF IInv

\* A call that ends well leaves its process in order if it was alone.
LEMMA Ending ==
  ASSUME IInv, NEW c \in Change, NEW ok \in BOOLEAN, ~At(c, "idle"), End(c, ok),
         TypeOK', role' = role,
         ok /\ change[c].alone =>
           rules' = Due /\ policy'[Home[c]] = rules'
  PROVE  AloneInv' /\ AloneRepairs'
<1>1. \A d \in Change : d # c => change'[d] = change[d]
  BY DEF End
<1>2. change'[c].pc = "idle"
  BY IdleJobType DEF End, IInv, TypeOK
<1>3. CASE change[c].alone
  <2>1. \A d \in Change : At(d, "idle")'
    BY <1>1, <1>2, <1>3 DEF IInv, AloneInv, At
  <2>2. AloneRepairs'
    BY <1>3 DEF End, AloneRepairs, Due
  <2> QED BY <2>1, <2>2 DEF AloneInv
<1>4. CASE ~change[c].alone
  <2>1. settled' = {}
    BY <1>4 DEF End
  <2>2. \A d \in Change : ~At(d, "idle")' => ~change'[d].alone
    BY <1>1, <1>2, <1>4 DEF IInv, AloneInv, At
  <2> QED BY <2>1, <2>2 DEF AloneInv, AloneRepairs
<1> QED BY <1>3, <1>4

\* A call goes on: if it is alone, it has reached what its new place says.
LEMMA GoingOn ==
  ASSUME IInv, NEW c \in Change, ~At(c, "idle"), TypeOK',
         \A d \in Change : d # c => change'[d] = change[d],
         change'[c].alone = change[c].alone, ~At(c, "idle")',
         change[c].alone => Reached(c)',
         role' = role, settled' = settled
  PROVE  AloneInv' /\ AloneRepairs'
<1>1. settled' = {}
  BY DEF IInv, AloneInv
<1>2. ASSUME NEW d \in Change, ~At(d, "idle")', change'[d].alone
      PROVE  /\ \A e \in Change : ~At(e, "idle")' => e = d
             /\ Reached(d)'
  <2>1. d = c
    BY <1>2 DEF IInv, AloneInv, At
  <2>2. \A e \in Change : ~At(e, "idle")' => e = c
    BY <1>2, <2>1 DEF IInv, AloneInv, At
  <2> QED BY <1>2, <2>1, <2>2
<1> QED BY <1>1, <1>2 DEF AloneInv, AloneRepairs

----------------------------------------------------------------------------
\* The administrative calls

LEMMA StartsKeepIInv ==
  ASSUME IInv, NEW c \in Change,
         \/ \E y \in Yields : \/ CreateRole(c, y)
                              \/ UpdateRole(c, y)
                              \/ Publish(c, y)
         \/ \E enable \in BOOLEAN : SetRoleEnabled(c, enable)
         \/ DeleteRole(c)
  PROVE  IInv'
<1> USE RolePolicyAssumption
<1>1. ASSUME NEW y \in Yields, CreateRole(c, y) PROVE IInv'
  <2>1. role' \in Row /\ role'.here
    BY <1>1 DEF CreateRole, Row
  <2> QED BY <1>1, <2>1, Starting DEF CreateRole, IInv, TypeOK
<1>2. ASSUME NEW y \in Yields, UpdateRole(c, y) PROVE IInv'
  <2>1. role' \in Row /\ role'.here
    BY <1>2 DEF UpdateRole, Row, IInv, TypeOK
  <2> QED BY <1>2, <2>1, Starting DEF UpdateRole, IInv, TypeOK
<1>3. ASSUME NEW y \in Yields, Publish(c, y) PROVE IInv'
  <2>1. role' \in Row /\ role'.here /\ role'.enable = role.enable /\ role'.yields = y
    BY <1>3 DEF Publish, Row, IInv, TypeOK
  <2>2. rules' = Due' /\ rules' \in SUBSET Rule
    BY <1>3, <2>1 DEF Publish, Due
  <2> QED BY <1>3, <2>1, <2>2, Starting DEF Publish
<1>4. ASSUME NEW enable \in BOOLEAN, SetRoleEnabled(c, enable) PROVE IInv'
  <2>1. role' \in Row /\ role'.here
    BY <1>4 DEF SetRoleEnabled, Row, IInv, TypeOK
  <2> QED BY <1>4, <2>1, Starting DEF SetRoleEnabled, IInv, TypeOK
<1>5. ASSUME DeleteRole(c) PROVE IInv'
  <2>1. role' \in Row /\ rules' = Due' /\ rules' \in SUBSET Rule
    BY <1>5 DEF DeleteRole, Absent, Row, Due
  <2> QED BY <1>5, <2>1, Starting DEF DeleteRole
<1> QED BY <1>1, <1>2, <1>3, <1>4, <1>5

----------------------------------------------------------------------------
\* The steps of a call

LEMMA GetFullRoleKeepsIInv ==
  ASSUME IInv, NEW c \in Change, GetFullRole(c)
  PROVE  IInv'
<1>1. ~At(c, "idle")
  BY DEF GetFullRole, At
<1>2. TypeOK'
  <2>1. Due \in SUBSET Rule
    BY DEF Due, IInv, TypeOK, Row
  <2>2. [change[c] EXCEPT !.pc = "delete", !.list = Due] \in Job
    BY <2>1 DEF IInv, TypeOK, Job
  <2>3. change' \in [Change -> Job]
    BY <2>2, IdleJobType DEF GetFullRole, End, IInv, TypeOK
  <2>4. settled' \in SUBSET Proc
    BY RolePolicyAssumption DEF GetFullRole, End, IInv, TypeOK
  <2> QED BY <2>3, <2>4 DEF GetFullRole, IInv, TypeOK
<1>3. CASE role.here
  <2>1. /\ change'[c].pc = "delete" /\ change'[c].list = Due
        /\ change'[c].alone = change[c].alone
        /\ change'[c].round = change[c].round
    BY <1>3 DEF GetFullRole, IInv, TypeOK, Job
  <2>2. change[c].alone => Reached(c)'
    BY <1>1, <2>1 DEF GetFullRole, IInv, AloneInv, Reached, At, Due
  <2>3. /\ \A d \in Change : d # c => change'[d] = change[d]
        /\ role' = role /\ settled' = settled
    BY <1>3 DEF GetFullRole, IInv, TypeOK
  <2>4. ~At(c, "idle")'
    BY <2>1 DEF At
  <2>5. AloneInv' /\ AloneRepairs'
    BY <1>1, <1>2, <2>1, <2>2, <2>3, <2>4, GoingOn
  <2> QED BY <1>2, <2>5 DEF IInv
<1>4. CASE ~role.here
  <2>1. End(c, TRUE) /\ ~change[c].alone
    BY <1>1, <1>4 DEF GetFullRole, IInv, AloneInv, Reached
  <2> QED BY <1>1, <1>2, <2>1, Ending DEF GetFullRole, IInv
<1> QED BY <1>3, <1>4

LEMMA ClearCasbinKeepsIInv ==
  ASSUME IInv, NEW c \in Change, ClearCasbin(c)
  PROVE  IInv'
<1>1. ~At(c, "idle")
  BY DEF ClearCasbin, At
<1>2. [change[c] EXCEPT !.pc = "load", !.round = change[c].round] \in Job
  BY DEF IInv, TypeOK, Job
<1>3. /\ change' \in [Change -> Job]
      /\ change'[c] = [change[c] EXCEPT !.pc = "load", !.round = change[c].round]
      /\ \A d \in Change : d # c => change'[d] = change[d]
  BY <1>2 DEF ClearCasbin, Goto, IInv, TypeOK
<1>4. TypeOK'
  BY <1>3 DEF ClearCasbin, IInv, TypeOK
<1>5. /\ change'[c].pc = "load" /\ change'[c].round = change[c].round
      /\ change'[c].alone = change[c].alone /\ change'[c].list = change[c].list
  BY <1>3 DEF IInv, TypeOK, Job
<1>6. change[c].alone => Reached(c)'
  BY <1>1, <1>5 DEF ClearCasbin, IInv, AloneInv, Reached, At, Due
<1>7. AloneInv' /\ AloneRepairs'
  BY <1>1, <1>3, <1>4, <1>5, <1>6, GoingOn DEF ClearCasbin, At, IInv
<1> QED BY <1>4, <1>7 DEF IInv

LEMMA LoadPolicyKeepsIInv ==
  ASSUME IInv, NEW c \in Change, LoadPolicy(c)
  PROVE  IInv'
<1>1. ~At(c, "idle")
  BY DEF LoadPolicy, At
<1>2. [change[c] EXCEPT !.pc = "swap", !.snap = rules] \in Job
  BY DEF IInv, TypeOK, Job
<1>3. /\ change' \in [Change -> Job]
      /\ change'[c] = [change[c] EXCEPT !.pc = "swap", !.snap = rules]
      /\ \A d \in Change : d # c => change'[d] = change[d]
  BY <1>2 DEF LoadPolicy, IInv, TypeOK
<1>4. TypeOK'
  BY <1>3 DEF LoadPolicy, IInv, TypeOK
<1>5. /\ change'[c].pc = "swap" /\ change'[c].round = change[c].round
      /\ change'[c].alone = change[c].alone /\ change'[c].list = change[c].list
      /\ change'[c].snap = rules
  BY <1>3 DEF IInv, TypeOK, Job
<1>6. change[c].alone => Reached(c)'
  BY <1>1, <1>5 DEF LoadPolicy, IInv, AloneInv, Reached, At, Due
<1>7. AloneInv' /\ AloneRepairs'
  BY <1>1, <1>3, <1>4, <1>5, <1>6, GoingOn DEF LoadPolicy, At, IInv
<1> QED BY <1>4, <1>7 DEF IInv

\* Going to another place keeps the rest of the call.
LEMMA GotoType ==
  ASSUME TypeOK, NEW c \in Change,
         NEW pc \in {"idle", "read", "delete", "load", "swap", "flush", "create"},
         NEW round \in 1..3, Goto(c, pc, round)
  PROVE  /\ change' \in [Change -> Job]
         /\ change'[c].pc = pc /\ change'[c].round = round
         /\ change'[c].list = change[c].list /\ change'[c].snap = change[c].snap
         /\ change'[c].alone = change[c].alone
         /\ \A d \in Change : d # c => change'[d] = change[d]
<1>1. [change[c] EXCEPT !.pc = pc, !.round = round] \in Job
  BY DEF TypeOK, Job
<1>2. change' = [change EXCEPT ![c] = [change[c] EXCEPT !.pc = pc, !.round = round]]
  BY DEF Goto, TypeOK
<1> QED BY <1>1, <1>2 DEF TypeOK, Job

LEMMA EndType ==
  ASSUME TypeOK, NEW c \in Change, NEW ok \in BOOLEAN, End(c, ok)
  PROVE  change' \in [Change -> Job] /\ settled' \in SUBSET Proc
BY IdleJobType, RolePolicyAssumption DEF End, TypeOK

LEMMA SwapKeepsIInv ==
  ASSUME IInv, NEW c \in Change, Swap(c)
  PROVE  IInv'
<1>1. ~At(c, "idle") /\ change[c] \in Job /\ Home[c] \in Proc
  BY RolePolicyAssumption DEF Swap, At, IInv, TypeOK
<1>2. /\ policy' \in [Proc -> SUBSET Rule]
      /\ policy'[Home[c]] = change[c].snap
  BY <1>1 DEF Swap, IInv, TypeOK, Job
<1>3. Goto(c, "flush", change[c].round) /\ UNCHANGED settled /\ change[c].round \in 1..3
  BY <1>1 DEF Swap, Job
<1>4. TypeOK'
  BY <1>2, <1>3, GotoType DEF Swap, IInv, TypeOK
<1>5. change[c].alone => Reached(c)'
  BY <1>1, <1>2, <1>3, GotoType DEF Swap, IInv, AloneInv, Reached, At, Due
<1>6. AloneInv' /\ AloneRepairs'
  BY <1>1, <1>3, <1>4, <1>5, GotoType, GoingOn DEF Swap, At, IInv
<1> QED BY <1>4, <1>6 DEF IInv

LEMMA FlushKeepsIInv ==
  ASSUME IInv, NEW c \in Change, Flush(c)
  PROVE  IInv'
<1>1. ~At(c, "idle") /\ change[c] \in Job /\ Home[c] \in Proc
  BY RolePolicyAssumption DEF Flush, At, IInv, TypeOK
<1>2. /\ cached' \in [Proc -> [Rule -> {"none", "allow", "deny"}]]
      /\ UNCHANGED policy
  BY <1>1 DEF Flush, IInv, TypeOK, Job, Nothing
<1>3. CASE change[c].round = 1 /\ change[c].list # {}
  <2>1. Goto(c, "delete", 2) /\ UNCHANGED settled
    BY <1>3 DEF Flush, Continue
  <2>2. TypeOK'
    BY <1>2, <2>1, GotoType DEF Flush, IInv, TypeOK
  <2>3. change[c].alone => Reached(c)'
    BY <1>1, <1>3, <2>1, GotoType
    DEF Flush, IInv, AloneInv, Reached, At, Due
  <2>4. AloneInv' /\ AloneRepairs'
    BY <1>1, <2>1, <2>2, <2>3, GotoType, GoingOn DEF Flush, At, IInv
  <2> QED BY <2>2, <2>4 DEF IInv
<1>4. CASE change[c].round = 2
  <2>1. Goto(c, "create", 2) /\ UNCHANGED settled
    BY <1>4 DEF Flush, Continue
  <2>2. TypeOK'
    BY <1>2, <2>1, GotoType DEF Flush, IInv, TypeOK
  <2>3. change[c].alone => Reached(c)'
    BY <1>1, <1>4, <2>1, GotoType
    DEF Flush, IInv, AloneInv, Reached, At, Due
  <2>4. AloneInv' /\ AloneRepairs'
    BY <1>1, <2>1, <2>2, <2>3, GotoType, GoingOn DEF Flush, At, IInv
  <2> QED BY <2>2, <2>4 DEF IInv
<1>5. CASE /\ ~(change[c].round = 1 /\ change[c].list # {})
           /\ change[c].round # 2
  <2>1. End(c, TRUE)
    BY <1>5 DEF Flush, Continue
  <2>2. TypeOK'
    BY <1>2, <2>1, EndType DEF Flush, IInv, TypeOK
  <2>3. change[c].alone => rules' = Due /\ policy'[Home[c]] = rules'
    <3>1. change[c].round = 3 \/ (change[c].round = 1 /\ change[c].list = {})
      BY <1>1, <1>5 DEF Job
    <3>2. rules' = rules /\ At(c, "flush")
      BY DEF Flush
    <3>3. change[c].alone => Reached(c)
      BY <1>1 DEF IInv, AloneInv
    <3>4. change[c].alone => rules = Due
      BY <3>1, <3>2, <3>3 DEF Reached, At
    <3>5. change[c].alone => policy[Home[c]] = rules
      BY <3>2, <3>3 DEF Reached
    <3> QED BY <1>2, <3>2, <3>4, <3>5
  <2>4. AloneInv' /\ AloneRepairs'
    BY <1>1, <2>1, <2>2, <2>3, Ending DEF Flush
  <2> QED BY <2>2, <2>4 DEF IInv
<1> QED BY <1>3, <1>4, <1>5

LEMMA CreateRulesKeepsIInv ==
  ASSUME IInv, NEW c \in Change, CreateRules(c)
  PROVE  IInv'
<1>1. ~At(c, "idle") /\ change[c] \in Job
  BY DEF CreateRules, At, IInv, TypeOK
<1>2. CASE rules \cap change[c].list = {}
  <2>1. Goto(c, "load", 3) /\ UNCHANGED settled /\ rules' = rules \cup change[c].list
    BY <1>2 DEF CreateRules
  <2>2. TypeOK'
    BY <1>1, <2>1, GotoType DEF CreateRules, IInv, TypeOK, Job
  <2>3. change[c].alone => Reached(c)'
    BY <1>1, <2>1, GotoType DEF CreateRules, IInv, AloneInv, Reached, At, Due
  <2>4. AloneInv' /\ AloneRepairs'
    BY <1>1, <2>1, <2>2, <2>3, GotoType, GoingOn DEF CreateRules, At, IInv
  <2> QED BY <2>2, <2>4 DEF IInv
<1>3. CASE rules \cap change[c].list # {}
  <2>1. End(c, FALSE) /\ rules' = rules
    BY <1>3 DEF CreateRules
  <2>2. TypeOK'
    BY <2>1, EndType DEF CreateRules, IInv, TypeOK
  <2>3. AloneInv' /\ AloneRepairs'
    BY <1>1, <2>1, <2>2, Ending DEF CreateRules
  <2> QED BY <2>2, <2>3 DEF IInv
<1> QED BY <1>2, <1>3

----------------------------------------------------------------------------
\* Errors and crashes

LEMMA FailKeepsIInv ==
  ASSUME IInv, NEW c \in Change, Fail(c)
  PROVE  IInv'
<1>1. ~At(c, "idle") /\ change[c] \in Job
  BY DEF Fail, At, IInv, TypeOK
<1>2. faults' \in 0..MaxFaults
  BY RolePolicyAssumption DEF Fail, IInv, TypeOK
<1>3. CASE /\ change[c].pc \in {"delete", "load"}
           /\ change[c].round = 1
           /\ change[c].list # {}
  <2>1. Goto(c, "delete", 2) /\ UNCHANGED settled
    BY <1>3 DEF Fail
  <2>2. TypeOK'
    BY <1>2, <2>1, GotoType DEF Fail, IInv, TypeOK
  <2>3. change[c].alone => Reached(c)'
    BY <1>1, <1>3, <2>1, GotoType DEF Fail, IInv, AloneInv, Reached, At, Due
  <2>4. AloneInv' /\ AloneRepairs'
    BY <1>1, <2>1, <2>2, <2>3, GotoType, GoingOn DEF Fail, At, IInv
  <2> QED BY <2>2, <2>4 DEF IInv
<1>4. CASE ~(/\ change[c].pc \in {"delete", "load"}
             /\ change[c].round = 1
             /\ change[c].list # {})
  <2>1. End(c, FALSE)
    BY <1>4 DEF Fail
  <2>2. TypeOK'
    BY <1>2, <2>1, EndType DEF Fail, IInv, TypeOK
  <2>3. AloneInv' /\ AloneRepairs'
    BY <1>1, <2>1, <2>2, Ending DEF Fail
  <2> QED BY <2>2, <2>3 DEF IInv
<1> QED BY <1>3, <1>4

LEMMA CrashKeepsIInv ==
  ASSUME IInv, NEW p \in Proc, Crash(p)
  PROVE  IInv'
<1>1. TypeOK'
  <2>1. NoRequest \in Asked \cup {NoRequest}
    OBVIOUS
  <2>2. request' \in [Proc -> [Request -> Asked \cup {NoRequest}]]
    BY <2>1 DEF Crash, IInv, TypeOK
  <2>3. change' \in [Change -> Job]
    BY IdleJobType DEF Crash, IInv, TypeOK
  <2>4. faults' \in 0..MaxFaults
    BY RolePolicyAssumption DEF Crash, IInv, TypeOK
  <2>5. /\ policy' \in [Proc -> SUBSET Rule]
        /\ cached' \in [Proc -> [Rule -> {"none", "allow", "deny"}]]
    BY DEF Crash, IInv, TypeOK, Nothing
  <2> QED BY <2>2, <2>3, <2>4, <2>5 DEF Crash, IInv, TypeOK
<1>2. \A c \in Change : ~At(c, "idle")' => ~At(c, "idle") /\ change'[c] = change[c]
  BY IdleJobType DEF Crash, At, IInv, TypeOK
<1>3. AloneInv'
  <2> SUFFICES ASSUME NEW c \in Change, ~At(c, "idle")'
               PROVE  /\ settled' = {}
                      /\ change'[c].alone =>
                           /\ \A d \in Change : ~At(d, "idle")' => d = c
                           /\ Reached(c)'
    BY DEF AloneInv
  <2>1. ~At(c, "idle") /\ change'[c] = change[c]
    BY <1>2
  <2>2. Reached(c) => Reached(c)'
    BY <2>1 DEF Crash, Reached, At, Due
  <2>3. settled' = {}
    BY <2>1 DEF Crash, IInv, AloneInv
  <2>4. change'[c].alone => \A d \in Change : ~At(d, "idle")' => d = c
    BY <1>2, <2>1 DEF IInv, AloneInv
  <2> QED BY <2>1, <2>2, <2>3, <2>4 DEF IInv, AloneInv
<1>4. AloneRepairs'
  BY DEF Crash, IInv, AloneRepairs, Due, TypeOK
<1> QED BY <1>1, <1>3, <1>4 DEF IInv

----------------------------------------------------------------------------
\* Decisions change nothing of this

LEMMA DecisionsKeepIInv ==
  ASSUME IInv, NEW p \in Proc,
         \/ \E q \in Request : \/ SetDefault(p, q)
                               \/ \E x \in Rule : Enforce(p, q, x)
         \/ \E x \in Rule : Expire(p, x)
  PROVE  IInv'
<1>1. UNCHANGED <<role, rules, policy, change, left, faults, settled>>
  BY DEF SetDefault, Enforce, Expire
<1>2. TypeOK'
  <2>1. ASSUME NEW q \in Request, SetDefault(p, q) PROVE TypeOK'
    <3>1. NoRequest \in Asked \cup {NoRequest}
      OBVIOUS
    <3>2. request' \in [Proc -> [Request -> Asked \cup {NoRequest}]]
      BY <2>1, <3>1 DEF SetDefault, IInv, TypeOK
    <3>3. request[p][q] \in Asked
      BY <2>1 DEF SetDefault, IInv, TypeOK
    <3>4. request[p][q].rule \in Rule
      BY <3>3 DEF Asked
    <3>5. [cached[p] EXCEPT ![request[p][q].rule] =
             IF request[p][q].ok THEN "allow" ELSE "deny"]
            \in [Rule -> {"none", "allow", "deny"}]
      BY <3>4 DEF IInv, TypeOK
    <3>6. cached' \in [Proc -> [Rule -> {"none", "allow", "deny"}]]
      BY <2>1, <3>5 DEF SetDefault, IInv, TypeOK
    <3> QED BY <1>1, <3>2, <3>6 DEF IInv, TypeOK
  <2>2. ASSUME NEW q \in Request, NEW x \in Rule, Enforce(p, q, x) PROVE TypeOK'
    <3>1. [rule |-> x, ok |-> x \in policy[p]] \in Asked \cup {NoRequest}
      BY DEF Asked
    <3>2. request' \in [Proc -> [Request -> Asked \cup {NoRequest}]]
      BY <2>2, <3>1 DEF Enforce, IInv, TypeOK
    <3> QED BY <1>1, <2>2, <3>2 DEF Enforce, IInv, TypeOK
  <2>3. ASSUME NEW x \in Rule, Expire(p, x) PROVE TypeOK'
    <3>1. [cached[p] EXCEPT ![x] = "none"] \in [Rule -> {"none", "allow", "deny"}]
      BY DEF IInv, TypeOK
    <3>2. cached' \in [Proc -> [Rule -> {"none", "allow", "deny"}]]
      BY <2>3, <3>1 DEF Expire, IInv, TypeOK
    <3> QED BY <1>1, <2>3, <3>2 DEF Expire, IInv, TypeOK
  <2> QED BY <2>1, <2>2, <2>3
<1>3. AloneInv' /\ AloneRepairs'
  BY <1>1 DEF IInv, AloneInv, AloneRepairs, Reached, At, Due
<1> QED BY <1>2, <1>3 DEF IInv

----------------------------------------------------------------------------

LEMMA NextKeepsIInv == IInv /\ [Next]_vars => IInv'
<1> SUFFICES ASSUME IInv, [Next]_vars PROVE IInv'
  OBVIOUS
<1>1. CASE UNCHANGED vars
  BY <1>1 DEF vars, IInv, TypeOK, AloneInv, AloneRepairs, Reached, At, Due
<1>2. ASSUME NEW c \in Change,
             \/ \E y \in Yields : \/ CreateRole(c, y)
                                  \/ UpdateRole(c, y)
                                  \/ Publish(c, y)
             \/ \E enable \in BOOLEAN : SetRoleEnabled(c, enable)
             \/ DeleteRole(c)
      PROVE  IInv'
  BY <1>2, StartsKeepIInv
<1>3. ASSUME NEW c \in Change, Work(c) PROVE IInv'
  BY <1>3, GetFullRoleKeepsIInv, ClearCasbinKeepsIInv, LoadPolicyKeepsIInv,
     SwapKeepsIInv, FlushKeepsIInv, CreateRulesKeepsIInv DEF Work
<1>4. ASSUME NEW c \in Change, Fail(c) PROVE IInv'
  BY <1>4, FailKeepsIInv
<1>5. ASSUME NEW p \in Proc,
             \/ Crash(p)
             \/ \E q \in Request : \/ SetDefault(p, q)
                                   \/ \E x \in Rule : Enforce(p, q, x)
             \/ \E x \in Rule : Expire(p, x)
      PROVE  IInv'
  BY <1>5, CrashKeepsIInv, DecisionsKeepIInv
<1> QED BY <1>1, <1>2, <1>3, <1>4, <1>5 DEF Next

\* The strengthened invariant holds in every reachable state.
THEOREM InductiveInvariant == Spec => []IInv
BY InitIInv, NextKeepsIInv, PTL DEF Spec

\* Every variable keeps its type, whatever calls, errors and crashes come.
THEOREM TypeCorrect == Spec => []TypeOK
<1>1. IInv => TypeOK
  BY DEF IInv
<1> QED BY <1>1, InductiveInvariant, PTL

\* A change that runs alone and without an error leaves rows and policy as
\* they are due, whatever overlapping changes and errors there were before.
THEOREM AloneRepairsAlways == Spec => []AloneRepairs
<1>1. IInv => AloneRepairs
  BY DEF IInv
<1> QED BY <1>1, InductiveInvariant, PTL

----------------------------------------------------------------------------
\* Stale decisions

LEMMA Finite ==
  ASSUME NEW A \in SUBSET Rule, NEW B \in SUBSET Request
  PROVE  /\ IsFiniteSet(A) /\ IsFiniteSet(B)
         /\ Cardinality(A) \in Nat /\ Cardinality(B) \in Nat
         /\ Cardinality(Request) \in Nat
         /\ Cardinality(B) <= Cardinality(Request)
BY RolePolicyAssumption, FS_Subset, FS_CardinalityType

\* The bound of StaleIsBounded, outside of the window.
Bounded(p) ==
  Cardinality(Kept(p)) + Cardinality(Coming(p)) <= Cardinality(Request)

\* Fewer of both keep the bound.
LEMMA FewerKeep ==
  ASSUME NEW p \in Proc,
         Bounded(p),
         Kept(p)' \subseteq Kept(p), Coming(p)' \subseteq Coming(p)
  PROVE  Bounded(p)'
<1>1. /\ Kept(p) \in SUBSET Rule /\ Coming(p) \in SUBSET Request
      /\ Kept(p)' \in SUBSET Rule /\ Coming(p)' \in SUBSET Request
  BY DEF Kept, Coming
<1>2. Cardinality(Kept(p)') <= Cardinality(Kept(p))
  BY <1>1, Finite, FS_Subset
<1>3. Cardinality(Coming(p)') <= Cardinality(Coming(p))
  BY <1>1, Finite, FS_Subset
<1>4. /\ Cardinality(Kept(p)) \in Nat /\ Cardinality(Coming(p)) \in Nat
      /\ Cardinality(Kept(p)') \in Nat /\ Cardinality(Coming(p)') \in Nat
      /\ Cardinality(Request) \in Nat
  BY <1>1, Finite
<1> QED BY <1>2, <1>3, <1>4 DEF Bounded

\* A cache that has just been flushed keeps it.
LEMMA FlushKeeps ==
  ASSUME NEW p \in Proc, cached'[p] = Nothing
  PROVE  Bounded(p)'
<1>1. Kept(p)' = {}
  BY DEF Kept, Nothing
<1>2. Coming(p)' \in SUBSET Request
  BY DEF Coming
<1>3. Cardinality(Kept(p)') = 0
  BY <1>1, FS_EmptySet
<1> QED BY <1>2, <1>3, Finite DEF Bounded

\* Storing a decision moves it from those on their way to those kept.
LEMMA StoringKeeps ==
  ASSUME TypeOK, NEW p \in Proc, Bounded(p), NEW q \in Request, SetDefault(p, q)
  PROVE  Bounded(p)'
<1>1. request[p][q] \in Asked /\ request[p][q].rule \in Rule
      /\ request[p][q].ok \in BOOLEAN
  BY DEF SetDefault, TypeOK, Asked
<1>2. policy' = policy
  BY DEF SetDefault
<1>3. /\ request'[p][q] = NoRequest
      /\ \A r \in Request : r # q => request'[p][r] = request[p][r]
  BY DEF SetDefault, TypeOK
<1>4. /\ cached'[p][request[p][q].rule] =
             IF request[p][q].ok THEN "allow" ELSE "deny"
      /\ \A x \in Rule : x # request[p][q].rule => cached'[p][x] = cached[p][x]
  BY <1>1 DEF SetDefault, TypeOK
<1>6. CASE q \in Coming(p)
  <2>1. Coming(p)' = Coming(p) \ {q}
    BY <1>2, <1>3 DEF Coming, Wrong
  <2>2. Kept(p)' \subseteq Kept(p) \cup {request[p][q].rule}
    BY <1>2, <1>4 DEF Kept, Wrong
  <2>3. /\ Kept(p) \in SUBSET Rule /\ Coming(p) \in SUBSET Request
        /\ Kept(p)' \in SUBSET Rule /\ Coming(p)' \in SUBSET Request
        /\ Kept(p) \cup {request[p][q].rule} \in SUBSET Rule
    BY <1>1 DEF Kept, Coming
  <2>4. Cardinality(Coming(p)') = Cardinality(Coming(p)) - 1
    BY <1>6, <2>1, <2>3, Finite, FS_RemoveElement
  <2>5. Cardinality(Kept(p) \cup {request[p][q].rule}) <= Cardinality(Kept(p)) + 1
    <3>1. /\ IsFiniteSet(Kept(p)) /\ Cardinality(Kept(p)) \in Nat
      BY <2>3, Finite
    <3>2. Cardinality(Kept(p) \cup {request[p][q].rule})
            = IF request[p][q].rule \in Kept(p) THEN Cardinality(Kept(p))
                                                ELSE Cardinality(Kept(p)) + 1
      BY <3>1, FS_AddElement
    <3> QED BY <3>1, <3>2
  <2>6. Cardinality(Kept(p)') <= Cardinality(Kept(p) \cup {request[p][q].rule})
    BY <2>2, <2>3, Finite, FS_Subset
  <2>7. /\ Cardinality(Kept(p)) \in Nat /\ Cardinality(Coming(p)) \in Nat
        /\ Cardinality(Kept(p)') \in Nat /\ Cardinality(Request) \in Nat
        /\ Cardinality(Kept(p) \cup {request[p][q].rule}) \in Nat
    BY <2>3, Finite
  <2> QED BY <2>4, <2>5, <2>6, <2>7 DEF Bounded
<1>7. CASE q \notin Coming(p)
  <2>1. Coming(p)' \subseteq Coming(p)
    BY <1>2, <1>3 DEF Coming, Wrong
  <2>2. ~Wrong(p, request[p][q].rule, request[p][q].ok)
    BY <1>7 DEF Coming, SetDefault
  <2>3. request[p][q].rule \notin Kept(p)'
    BY <1>1, <1>2, <1>4, <2>2 DEF Kept, Wrong
  <2>4. Kept(p)' \subseteq Kept(p)
    BY <1>2, <1>4, <2>3 DEF Kept, Wrong
  <2> QED BY <2>1, <2>4, FewerKeep
<1> QED BY <1>6, <1>7

\* What neither changes the policy nor adds a decision keeps the bound.
LEMMA OthersKeep ==
  ASSUME TypeOK, NEW p \in Proc, Bounded(p), policy'[p] = policy[p],
         \A x \in Rule : cached'[p][x] \in {"none", cached[p][x]},
         \A q \in Request :
           \/ request'[p][q] \in {NoRequest, request[p][q]}
           \/ /\ request'[p][q].ok = (request'[p][q].rule \in policy[p])
  PROVE  Bounded(p)'
<1>1. Kept(p)' \subseteq Kept(p)
  BY DEF Kept, Wrong
<1>2. Coming(p)' \subseteq Coming(p)
  BY DEF Coming, Wrong
<1> QED BY <1>1, <1>2, FewerKeep

\* The window closes with a flush or a crash.
LEMMA FlushingStays ==
  ASSUME TypeOK, [Next]_vars, NEW p \in Proc, Flushing(p), ~Flushing(p)'
  PROVE  (\E c \in Change : Flush(c) /\ Home[c] = p) \/ Crash(p)
<1>1. PICK c \in Change : At(c, "flush") /\ Home[c] = p
  BY DEF Flushing
<1>2. change'[c].pc # "flush"
  BY <1>1 DEF Flushing, At
<1>3. ASSUME NEW d \in Change, NEW pc \in {"read", "load"}, Start(d, pc) PROVE FALSE
  <2>1. d # c /\ change'[c] = [change[c] EXCEPT !.alone = FALSE]
    BY <1>1, <1>3 DEF Start, At
  <2>2. change'[c].pc = change[c].pc
    BY <2>1 DEF TypeOK, Job
  <2> QED BY <1>1, <1>2, <2>2 DEF At
<1>4. ASSUME NEW d \in Change, change'[c] # change[c],
             GetFullRole(d) \/ ClearCasbin(d) \/ LoadPolicy(d) \/ Swap(d)
             \/ CreateRules(d) \/ Fail(d)
      PROVE  FALSE
  <2>1. d # c
    BY <1>1, <1>4 DEF GetFullRole, ClearCasbin, LoadPolicy, Swap, CreateRules, Fail, At
  <2> QED BY <1>4, <2>1
          DEF GetFullRole, ClearCasbin, LoadPolicy, Swap, CreateRules, Fail,
              Goto, End, TypeOK
<1>5. ASSUME NEW d \in Change, Flush(d) PROVE d = c
  BY <1>1, <1>2, <1>5 DEF Flush, Continue, Goto, End, TypeOK, At
<1>6. ASSUME NEW r \in Proc, Crash(r) PROVE r = p
  BY <1>1, <1>2, <1>6 DEF Crash, TypeOK, At
<1>7. CASE UNCHANGED change
  BY <1>1, <1>2, <1>7 DEF At
<1> QED BY <1>1, <1>2, <1>3, <1>4, <1>5, <1>6, <1>7
        DEF Next, Work, vars, CreateRole, UpdateRole, SetRoleEnabled, Publish,
            DeleteRole, SetDefault, Enforce, Expire, At

LEMMA NextKeepsStaleIsBounded ==
  TypeOK /\ StaleIsBounded /\ [Next]_vars => StaleIsBounded'
<1> SUFFICES ASSUME TypeOK, StaleIsBounded, [Next]_vars, NEW p \in Proc,
                    ~Flushing(p)'
             PROVE  Bounded(p)'
  BY DEF StaleIsBounded, Bounded
<1>0. \/ Bounded(p)
      \/ \E c \in Change : Flush(c) /\ Home[c] = p
      \/ Crash(p)
  BY FlushingStays DEF StaleIsBounded, Bounded
<1>8. ASSUME NEW c \in Change, Flush(c), Home[c] = p PROVE Bounded(p)'
  BY <1>8, FlushKeeps DEF Flush, TypeOK
<1>9. CASE Crash(p)
  <2>1. cached'[p] = Nothing
    BY <1>9 DEF Crash, TypeOK
  <2> QED BY <2>1, FlushKeeps
<1> SUFFICES ASSUME Bounded(p), \A c \in Change : Flush(c) => Home[c] # p,
                    ~Crash(p)
             PROVE  Bounded(p)'
  BY <1>0, <1>8, <1>9
<1>1. CASE UNCHANGED <<policy, cached, request>>
  BY <1>1, OthersKeep
<1>2. ASSUME NEW c \in Change, Swap(c) \/ Flush(c)
      PROVE  Bounded(p)'
  <2>1. Home[c] # p
    <3>1. ASSUME Swap(c), Home[c] = p PROVE FALSE
      <4>1. change'[c].pc = "flush"
        BY <3>1 DEF Swap, Goto, TypeOK, Job
      <4> QED BY <3>1, <4>1 DEF Flushing, At
    <3> QED BY <1>2, <3>1
  <2>2. policy'[p] = policy[p] /\ cached'[p] = cached[p] /\ request' = request
    BY <1>2, <2>1 DEF Swap, Flush, TypeOK
  <2> QED BY <2>2, OthersKeep
<1>3. ASSUME NEW r \in Proc, Crash(r)
      PROVE  Bounded(p)'
  <2>1. /\ policy'[p] = policy[p] /\ cached'[p] = cached[p]
        /\ request'[p] = request[p]
    BY <1>3 DEF Crash, TypeOK
  <2> QED BY <2>1, OthersKeep
<1>4. ASSUME NEW r \in Proc, NEW q \in Request, SetDefault(r, q)
      PROVE  Bounded(p)'
  <2>1. CASE r = p
    BY <1>4, <2>1, StoringKeeps
  <2>2. CASE r # p
    <3>1. /\ policy'[p] = policy[p] /\ cached'[p] = cached[p]
          /\ request'[p] = request[p]
      BY <1>4, <2>2 DEF SetDefault, TypeOK
    <3> QED BY <3>1, OthersKeep
  <2> QED BY <2>1, <2>2
<1>5. ASSUME NEW r \in Proc, NEW q \in Request, NEW x \in Rule, Enforce(r, q, x)
      PROVE  Bounded(p)'
  <2>1. policy' = policy /\ cached' = cached
    BY <1>5 DEF Enforce
  <2>2. \A s \in Request :
          \/ request'[p][s] = request[p][s]
          \/ request'[p][s] = [rule |-> x, ok |-> x \in policy[p]]
    BY <1>5 DEF Enforce, TypeOK
  <2>3. \A s \in Request :
          \/ request'[p][s] = request[p][s]
          \/ request'[p][s].ok = (request'[p][s].rule \in policy[p])
    BY <2>2
  <2> QED BY <2>1, <2>3, OthersKeep
<1>6. ASSUME NEW r \in Proc, NEW x \in Rule, Expire(r, x)
      PROVE  Bounded(p)'
  <2>1. policy' = policy /\ request' = request
    BY <1>6 DEF Expire
  <2>2. \A y \in Rule : cached'[p][y] \in {"none", cached[p][y]}
    BY <1>6 DEF Expire, TypeOK
  <2> QED BY <2>1, <2>2, OthersKeep
<1> QED BY <1>1, <1>2, <1>3, <1>4, <1>5, <1>6
    DEF Next, Work, vars, CreateRole, UpdateRole, SetRoleEnabled, Publish,
        DeleteRole, GetFullRole, ClearCasbin, LoadPolicy, CreateRules, Fail

LEMMA InitStaleIsBounded == Init => StaleIsBounded
<1> SUFFICES ASSUME Init, NEW p \in Proc PROVE Bounded(p)
  BY DEF StaleIsBounded, Bounded
<1>1. Kept(p) = {} /\ Coming(p) = {}
  BY DEF Init, Kept, Coming, Nothing
<1>2. Cardinality({}) = 0 /\ Cardinality(Request) \in Nat
  BY Finite, FS_EmptySet
<1> QED BY <1>1, <1>2 DEF Bounded

\* But for the window between an assignment and its flush, there are never
\* more stale decisions than requests under way (casbin.go:58-62).
THEOREM StaleBounded == Spec => []StaleIsBounded
BY TypeCorrect, InitStaleIsBounded, NextKeepsStaleIsBounded, PTL DEF Spec
=============================================================================
