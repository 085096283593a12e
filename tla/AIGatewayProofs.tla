-------------------------- MODULE AIGatewayProofs --------------------------
(***************************************************************************)
(* Proofs about AIGateway for any keys, calls, attempts, rounds and        *)
(* limits.  The bound on the overshoot is not inductive: what is, counts   *)
(* the calls in flight, each of which may still add the tokens of one      *)
(* answer.  The exhaustion of the failover rests on what a round knows of  *)
(* the keys: those owed to it are in reach and have not been tried.        *)
(***************************************************************************)
EXTENDS AIGateway, FiniteSetTheorems, TLAPS

\* Calls that have passed the budget and are not recorded yet.
InFlight == {c \in Call : ~At(c, "idle") /\ call[c].read # "none"}

\* The other calls: those in flight may still add the tokens of an answer each.
Slack == Cardinality(Call) - Cardinality(InFlight)

\* What the budget is for has been recorded, as long as it can be told apart.
SpentInv == used <= spent \/ spent >= DailyLimit

BoundInv == used <= DailyLimit - 1 + MaxTokens * Slack

\* A call has a key where it needs one; the counters leave room for what its
\* place in the loop does next.
LoopInv ==
  \A c \in Call :
    /\ call[c].pc \in {"upstream", "cool"} => call[c].key \in Key
    /\ call[c].pc \in {"select", "upstream", "cool"} => call[c].tries < Attempts
    /\ At(c, "backoff") => call[c].round < Rounds

OwedInv ==
  \A c \in Call : owed[c] \subseteq InReach \ call[c].tried

IInv ==
  /\ TypeOK /\ SpentInv /\ BoundInv
  /\ LoopInv /\ OwedInv /\ FailoverIsExhausted

----------------------------------------------------------------------------
\* Arithmetic of the bound

LEMMA MoreSlack ==
  ASSUME NEW m \in Nat, NEW a \in Nat, NEW b \in Nat, a <= b
  PROVE  m * a <= m * b
<1>1. PICK d \in Nat : b = a + d
  <2>1. b - a \in Nat /\ b = a + (b - a)
    OBVIOUS
  <2> QED BY <2>1
<1>2. m * b = m * a + m * d /\ m * d \in Nat /\ m * a \in Nat
  BY <1>1
<1> QED BY <1>2

LEMMA OneMore ==
  ASSUME NEW m \in Nat, NEW a \in Nat
  PROVE  m * (a + 1) = m * a + m /\ m * a \in Nat
OBVIOUS

LEMMA SlackType ==
  ASSUME NEW T \in SUBSET Call
  PROVE  /\ IsFiniteSet(T)
         /\ Cardinality(T) \in Nat /\ Cardinality(Call) \in Nat
         /\ Cardinality(Call) - Cardinality(T) \in Nat
         /\ Cardinality(Call) - Cardinality(T) <= Cardinality(Call)
BY AIGatewayAssumption, FS_Subset, FS_CardinalityType

\* The bound stays while calls only leave.
LEMMA LeavingKeepsBound ==
  ASSUME TypeOK, BoundInv, used' = used, InFlight' \subseteq InFlight
  PROVE  BoundInv'
<1>1. InFlight \in SUBSET Call /\ InFlight' \in SUBSET InFlight
  BY DEF InFlight
<1>2. IsFiniteSet(InFlight) /\ Slack \in Nat /\ Slack' \in Nat
  BY <1>1, SlackType DEF Slack
<1>3. /\ Cardinality(InFlight') <= Cardinality(InFlight)
      /\ Cardinality(InFlight') \in Nat /\ Cardinality(InFlight) \in Nat
      /\ Cardinality(Call) \in Nat
  BY <1>1, <1>2, FS_Subset, FS_CardinalityType, SlackType
<1>4. Slack <= Slack'
  BY <1>3 DEF Slack
<1>5. MaxTokens * Slack <= MaxTokens * Slack'
  BY <1>2, <1>4, MoreSlack, AIGatewayAssumption
<1>6. MaxTokens * Slack \in Nat /\ MaxTokens * Slack' \in Nat
  BY <1>2, OneMore, AIGatewayAssumption
<1> QED BY <1>5, <1>6, AIGatewayAssumption DEF BoundInv, TypeOK

\* So does it while nothing, or less than the limit, has been used.
LEMMA LowUseIsBounded ==
  ASSUME used' \in Nat, used' <= DailyLimit - 1
  PROVE  BoundInv'
<1>1. Slack' \in Nat
  BY SlackType DEF Slack, InFlight
<1>2. MaxTokens * Slack' \in Nat
  BY <1>1, OneMore, AIGatewayAssumption
<1> QED BY <1>2, AIGatewayAssumption DEF BoundInv

----------------------------------------------------------------------------

LEMMA IdleJobType == IdleJob \in Job
<1>1. 0 \in 0..Attempts /\ 0 \in 0..Rounds
  BY AIGatewayAssumption
<1>2. "none" \in Read
  BY DEF Read
<1> QED BY <1>1, <1>2 DEF IdleJob, Job, Pcs

LEMMA InitIInv == Init => IInv
<1> SUFFICES ASSUME Init PROVE IInv
  OBVIOUS
<1>1. TypeOK
  <2>1. key \in [Key -> Row]
    <3>1. [enable: BOOLEAN, cooling: {FALSE}, readable: BOOLEAN]
           \subseteq Row
      BY DEF Row
    <3> QED BY <3>1 DEF Init
  <2>2. IdleJob \in Job
    BY IdleJobType
  <2>3. spent \in Nat /\ earlier \in 0..MonthLimit /\ used \in Nat
    BY AIGatewayAssumption DEF Init
  <2>4. call \in [Call -> Job]
    BY <2>2 DEF Init
  <2> QED BY <2>1, <2>3, <2>4 DEF Init, TypeOK
<1>2. SpentInv
  BY DEF Init, SpentInv
<1>3. BoundInv
  <2>1. Slack \in Nat
    BY SlackType DEF Slack, InFlight
  <2>2. MaxTokens * Slack \in Nat
    BY <2>1, OneMore, AIGatewayAssumption
  <2> QED BY <2>2, AIGatewayAssumption DEF BoundInv, Init
<1>4. LoopInv /\ OwedInv /\ FailoverIsExhausted
  BY DEF Init, LoopInv, OwedInv, FailoverIsExhausted, IdleJob, At
<1> QED BY <1>1, <1>2, <1>3, <1>4 DEF IInv

----------------------------------------------------------------------------
\* One lemma per action, or per actions that change the same

\* A step that records nothing and starts no call leaves the budget alone.
LEMMA NotRecording ==
  ASSUME IInv, UNCHANGED <<spent, used>>,
         \A c \in Call : ~At(c, "idle")' =>
           ~At(c, "idle") /\ call'[c].read \in {call[c].read, "none"}
  PROVE  SpentInv' /\ BoundInv'
<1>1. InFlight' \subseteq InFlight
  BY DEF InFlight, At
<1> QED BY <1>1, LeavingKeepsBound DEF IInv, SpentInv

LEMMA StartKeeps ==
  ASSUME IInv, NEW c \in Call, NEW kind \in Kind, NEW read \in Read,
         Start(c, kind, read)
  PROVE  IInv'
<1> USE DEF IInv, At
<1> DEFINE new == [IdleJob EXCEPT !.pc = "select", !.kind = kind, !.read = read]
<1>1. new \in Job
  <2>1. [IdleJob EXCEPT !.pc = "select", !.read = read] \in Job
    BY IdleJobType DEF Job, Pcs
  <2> QED BY <2>1 DEF Job
<1>2. call' = [call EXCEPT ![c] = new]
  BY DEF Start
<1>3. TypeOK'
  <2>1. call' \in [Call -> Job]
    BY <1>1, <1>2 DEF TypeOK
  <2>2. owed' \in [Call -> SUBSET Key]
    BY DEF Start, TypeOK, Selectable, InReach
  <2> QED BY <2>1, <2>2 DEF Start, TypeOK
<1>4. SpentInv' /\ BoundInv'
  <2>1. CASE read = "none"
    <3>1. InFlight' \subseteq InFlight
      BY <1>2, <2>1 DEF InFlight, TypeOK, IdleJob
    <3> QED BY <3>1, LeavingKeepsBound DEF Start, SpentInv
  <2>2. CASE read # "none"
    <3>1. spent < DailyLimit /\ UNCHANGED <<spent, used>>
      BY <2>2 DEF Start, Allowed
    <3>2. used' <= DailyLimit - 1
      BY <3>1, AIGatewayAssumption DEF TypeOK, SpentInv
    <3> QED BY <3>1, <3>2, LowUseIsBounded DEF TypeOK, SpentInv
  <2> QED BY <2>1, <2>2
<1>5. LoopInv'
  BY <1>2, AIGatewayAssumption DEF TypeOK, LoopInv, IdleJob
<1>6. OwedInv'
  BY <1>2 DEF Start, TypeOK, OwedInv, IdleJob, InReach, Selectable
<1>7. FailoverIsExhausted'
  BY <1>2 DEF Start, TypeOK, FailoverIsExhausted, IdleJob
<1> QED BY <1>3, <1>4, <1>5, <1>6, <1>7

LEMMA RecordedType ==
  ASSUME spent \in Nat, NEW n \in Nat
  PROVE  /\ Recorded(n) \in Nat
         /\ Recorded(n) >= DailyLimit \/ Recorded(n) = spent + n
BY AIGatewayAssumption DEF Recorded

LEMMA CacheHitKeeps ==
  ASSUME IInv, NEW c \in Call, NEW n \in 0..MaxTokens, CacheHit(c, n)
  PROVE  IInv'
<1> USE DEF IInv
<1>1. n \in Nat /\ spent' = Recorded(n) /\ UNCHANGED <<key, call, earlier, used, owed>>
  BY AIGatewayAssumption DEF CacheHit
<1>2. TypeOK'
  BY <1>1, RecordedType DEF TypeOK
<1>3. SpentInv'
  BY <1>1, RecordedType, AIGatewayAssumption DEF SpentInv, TypeOK, Recorded
<1>4. BoundInv'
  BY <1>1 DEF BoundInv, Slack, InFlight, At
<1>5. LoopInv' /\ OwedInv' /\ FailoverIsExhausted'
  BY <1>1 DEF LoopInv, OwedInv, FailoverIsExhausted, At, Selectable, InReach
<1> QED BY <1>2, <1>3, <1>4, <1>5

LEMMA RecordUsageKeeps ==
  ASSUME IInv, NEW c \in Call, NEW n \in 0..MaxTokens, RecordUsage(c, n)
  PROVE  IInv'
<1> USE DEF IInv, At
<1>1. /\ n \in Nat /\ n <= MaxTokens /\ spent' = Recorded(n)
      /\ At(c, "record")
      /\ call' = [call EXCEPT ![c] = IdleJob]
      /\ used' = IF call[c].read = "none" THEN used ELSE used + n
      /\ UNCHANGED <<key, earlier, owed>>
  BY AIGatewayAssumption DEF RecordUsage
<1>2. TypeOK'
  BY <1>1, RecordedType, IdleJobType DEF TypeOK
<1>3. SpentInv'
  <2>1. spent \in Nat /\ used \in Nat /\ DailyLimit \in Nat /\ MonthLimit \in Nat
    BY AIGatewayAssumption DEF TypeOK
  <2>2. used' <= used + n
    BY <1>1, <2>1
  <2> QED BY <1>1, <2>1, <2>2, RecordedType DEF SpentInv, Recorded
<1>4. BoundInv'
  <2>1. CASE call[c].read = "none"
    <3>1. InFlight' \subseteq InFlight
      BY <1>1 DEF InFlight, TypeOK, IdleJob
    <3> QED BY <1>1, <2>1, <3>1, LeavingKeepsBound
  <2>2. CASE call[c].read # "none"
    <3>1. c \in InFlight /\ InFlight' = InFlight \ {c}
      BY <1>1, <2>2 DEF InFlight, TypeOK, IdleJob
    <3>2. /\ IsFiniteSet(InFlight) /\ Slack \in Nat
          /\ Cardinality(InFlight) \in Nat /\ Cardinality(Call) \in Nat
      BY SlackType DEF Slack, InFlight
    <3>3. Slack' = Slack + 1
      BY <3>1, <3>2, FS_RemoveElement DEF Slack
    <3>4. MaxTokens * Slack' = MaxTokens * Slack + MaxTokens /\ MaxTokens * Slack \in Nat
      BY <3>2, <3>3, OneMore, AIGatewayAssumption
    <3> QED BY <1>1, <2>2, <3>4, AIGatewayAssumption DEF BoundInv, TypeOK
  <2> QED BY <2>1, <2>2
<1>5. LoopInv'
  BY <1>1 DEF TypeOK, LoopInv, IdleJob
<1>6. OwedInv'
  BY <1>1 DEF TypeOK, OwedInv, IdleJob, Selectable, InReach
<1>7. FailoverIsExhausted'
  BY <1>1 DEF TypeOK, FailoverIsExhausted, IdleJob
<1> QED BY <1>2, <1>3, <1>4, <1>5, <1>6, <1>7

LEMMA DayKeeps ==
  ASSUME IInv, NewDay \/ NewMonth
  PROVE  IInv'
<1> USE DEF IInv
<1>1. /\ spent' = 0 /\ used' = 0 /\ UNCHANGED <<key, call, owed>>
      /\ earlier' \in 0..MonthLimit
  BY AIGatewayAssumption DEF NewDay, NewMonth, TypeOK
<1>2. TypeOK'
  BY <1>1 DEF TypeOK
<1>3. SpentInv' /\ BoundInv'
  BY <1>1, LowUseIsBounded, AIGatewayAssumption DEF SpentInv
<1>4. LoopInv' /\ OwedInv' /\ FailoverIsExhausted'
  BY <1>1 DEF LoopInv, OwedInv, FailoverIsExhausted, At, Selectable, InReach
<1> QED BY <1>2, <1>3, <1>4

LEMMA SelectKeyKeeps ==
  ASSUME IInv, NEW c \in Call, SelectKey(c)
  PROVE  IInv'
<1> USE DEF IInv, At
<1>1. PICK r \in 1..Routes : \E k \in Offer(c, r) :
        /\ call' = [call EXCEPT ![c].pc = "upstream", ![c].key = k,
                                ![c].tried = @ \cup {k}]
        /\ owed' = [owed EXCEPT ![c] = @ \ {k}]
  BY Zenon DEF SelectKey
<1>2. PICK k \in Offer(c, r) :
        /\ call' = [call EXCEPT ![c].pc = "upstream", ![c].key = k,
                                ![c].tried = @ \cup {k}]
        /\ owed' = [owed EXCEPT ![c] = @ \ {k}]
  BY <1>1
<1>3. /\ k \in Key /\ call[c].pc = "select"
      /\ UNCHANGED <<key, spent, earlier, used>>
  BY <1>2 DEF SelectKey, Offer, Best, Free, Selectable
<1>4. TypeOK'
  <2>1. call' \in [Call -> Job]
    <3>1. [call[c] EXCEPT !.pc = "upstream", !.key = k] \in Job
      BY <1>3 DEF TypeOK, Job, Pcs
    <3>2. call[c].tried \cup {k} \in SUBSET Key
      BY <1>3 DEF TypeOK, Job
    <3> QED BY <1>2, <3>1, <3>2 DEF TypeOK, Job
  <2> QED BY <1>2, <1>3, <2>1 DEF TypeOK
<1>5. SpentInv' /\ BoundInv'
  BY <1>2, <1>3, NotRecording DEF TypeOK
<1>6. LoopInv'
  BY <1>2, <1>3 DEF TypeOK, LoopInv
<1>7. OwedInv'
  BY <1>2, <1>3 DEF TypeOK, OwedInv, Selectable, InReach
<1>8. FailoverIsExhausted'
  BY <1>2, <1>3 DEF TypeOK, FailoverIsExhausted
<1> QED BY <1>4, <1>5, <1>6, <1>7, <1>8

LEMMA AfterRoundType ==
  ASSUME TypeOK, NEW c \in Call
  PROVE  \/ AfterRound(c) = "backoff" /\ call[c].round < Rounds
         \/ /\ AfterRound(c) = "failed"
            /\ call[c].kind = "multipart" \/ call[c].round = Rounds
BY AIGatewayAssumption DEF AfterRound, TypeOK, Job

\* A key in reach that a call has not tried is one a route can offer, unless
\* the route could not be read.
LEMMA NothingIsOwed ==
  ASSUME IInv, NEW c \in Call, \A r \in 1..Routes : Passed(c, r, {})
  PROVE  owed[c] = {}
<1> SUFFICES ASSUME NEW k \in owed[c] PROVE FALSE
  OBVIOUS
<1>1. k \in InReach /\ k \notin call[c].tried
  BY DEF IInv, OwedInv
<1>2. PICK r \in 1..Routes :
        /\ k \in KeysOf[r]
        /\ \A j \in Selectable \cap KeysOf[r] :
             Rank[j] <= Rank[k] => key[j].readable
  BY <1>1 DEF InReach
<1>3. k \in Free(c) \cap KeysOf[r]
  BY <1>1, <1>2 DEF InReach, Free
<1>4. PICK j \in Offer(c, r) : ~key[j].readable
  BY <1>3 DEF Passed
<1>5. j \in Free(c) \cap KeysOf[r] /\ Rank[j] <= Rank[k]
  BY <1>3 DEF Offer, Best
<1>6. j \in Selectable
  BY <1>5 DEF Free
<1> QED BY <1>2, <1>4, <1>5, <1>6

LEMMA NoKeyLeftKeeps ==
  ASSUME IInv, NEW c \in Call, NoKeyLeft(c)
  PROVE  IInv'
<1> USE DEF IInv, At
<1> DEFINE p == IF call[c].failed THEN AfterRound(c) ELSE "failed"
<1>1. PICK unread \in SUBSET (1..Routes) :
        /\ \A r \in 1..Routes : Passed(c, r, unread)
        /\ call' = [call EXCEPT ![c].pc = p,
                     ![c].err = IF unread = {} THEN "none" ELSE "read"]
  BY DEF NoKeyLeft
<1> DEFINE e == IF unread = {} THEN "none" ELSE "read"
<1>2. /\ call[c].pc = "select"
      /\ call' = [call EXCEPT ![c].pc = p, ![c].err = e]
      /\ UNCHANGED <<key, spent, earlier, used, owed>>
  BY <1>1 DEF NoKeyLeft
<1>3. \/ p = "backoff" /\ call[c].round < Rounds
      \/ /\ p = "failed"
         /\ call[c].failed => call[c].kind = "multipart" \/ call[c].round = Rounds
  BY AfterRoundType
<1>4. e \in {"none", "read"} /\ (e = "none" => owed[c] = {})
  BY <1>1, NothingIsOwed
<1> HIDE DEF p, e
<1>5. TypeOK'
  <2>1. p \in Pcs
    BY <1>3 DEF Pcs
  <2>2. [call[c] EXCEPT !.pc = p] \in Job
    BY <2>1 DEF TypeOK, Job
  <2>3. [call[c] EXCEPT !.pc = p, !.err = e] \in Job
    BY <1>4, <2>2 DEF Job
  <2> QED BY <1>2, <2>3 DEF TypeOK
<1>6. SpentInv' /\ BoundInv'
  BY <1>2, NotRecording DEF TypeOK
<1>7. LoopInv'
  BY <1>2, <1>3 DEF TypeOK, LoopInv
<1>8. OwedInv'
  BY <1>2 DEF TypeOK, OwedInv, Selectable, InReach
<1>9. FailoverIsExhausted'
  BY <1>2, <1>3, <1>4 DEF TypeOK, FailoverIsExhausted
<1> QED BY <1>5, <1>6, <1>7, <1>8, <1>9

\* The next attempt of a call, whatever has become of the keys.
LEMMA TryAgainKeeps ==
  ASSUME IInv, NEW c \in Call, call[c].pc \in {"upstream", "cool"}, TryAgain(c)
  PROVE  /\ call' \in [Call -> Job]
         /\ LoopInv'
         /\ \A d \in Call : call'[d].tried = call[d].tried
         /\ \A d \in Call : ~At(d, "idle")' =>
              ~At(d, "idle") /\ call'[d].read = call[d].read
         /\ (\A d \in Call : owed'[d] \subseteq owed[d]) => FailoverIsExhausted'
<1> USE DEF IInv, At
<1> DEFINE n == call[c].tries + 1
           p == IF n < Attempts THEN "select" ELSE AfterRound(c)
<1>1. call' = [call EXCEPT ![c].key = NoKey, ![c].failed = TRUE,
                           ![c].tries = n, ![c].pc = p]
  BY DEF TryAgain
<1>2. n \in 0..Attempts /\ call[c].tries < Attempts /\ NoKey \in Key \cup {NoKey}
  BY AIGatewayAssumption DEF TypeOK, Job, LoopInv
<1>3. \/ p = "select" /\ n < Attempts
      \/ p = "backoff" /\ call[c].round < Rounds
      \/ /\ p = "failed" /\ n = Attempts
         /\ call[c].kind = "multipart" \/ call[c].round = Rounds
  BY <1>2, AfterRoundType, AIGatewayAssumption
<1> HIDE DEF n, p
<1>4. call' \in [Call -> Job]
  BY <1>1, <1>2, <1>3 DEF TypeOK, Job, Pcs
<1>5. LoopInv'
  BY <1>1, <1>2, <1>3 DEF TypeOK, LoopInv
<1>6. /\ \A d \in Call : call'[d].tried = call[d].tried
      /\ \A d \in Call : ~At(d, "idle")' =>
           ~At(d, "idle") /\ call'[d].read = call[d].read
  BY <1>1 DEF TypeOK
<1>7. ASSUME \A d \in Call : owed'[d] \subseteq owed[d]
      PROVE  FailoverIsExhausted'
  BY <1>1, <1>2, <1>3, <1>7 DEF TypeOK, FailoverIsExhausted
<1> QED BY <1>4, <1>5, <1>6, <1>7

LEMMA UpstreamFailsKeeps ==
  ASSUME IInv, NEW c \in Call, UpstreamFails(c)
  PROVE  IInv'
<1> USE DEF IInv, At
<1>1. /\ call[c].pc = "upstream" /\ TryAgain(c)
      /\ UNCHANGED <<key, spent, earlier, used, owed>>
  BY DEF UpstreamFails
<1>2. TypeOK'
  BY <1>1, TryAgainKeeps DEF TypeOK
<1>3. SpentInv' /\ BoundInv'
  BY <1>1, TryAgainKeeps, NotRecording
<1>4. OwedInv'
  BY <1>1, TryAgainKeeps DEF OwedInv, Selectable, InReach
<1>5. LoopInv' /\ FailoverIsExhausted'
  BY <1>1, TryAgainKeeps
<1> QED BY <1>2, <1>3, <1>4, <1>5

LEMMA MarkCooldownKeeps ==
  ASSUME IInv, NEW c \in Call, MarkCooldown(c)
  PROVE  IInv'
<1> USE DEF IInv, At
<1>1. /\ call[c].pc = "cool" /\ TryAgain(c)
      /\ UNCHANGED <<spent, earlier, used>>
      /\ owed' = [d \in Call |-> owed[d] \cap InReach']
      /\ key' \in {key, [key EXCEPT ![call[c].key].cooling = TRUE]}
  BY DEF MarkCooldown, KeepOwed
<1>2. TypeOK'
  <2>1. key' \in [Key -> Row]
    <3>1. call[c].key \in Key
      BY <1>1 DEF LoopInv
    <3>2. \A k \in Key, b \in BOOLEAN : [key[k] EXCEPT !.cooling = b] \in Row
      BY DEF TypeOK, Row
    <3> QED BY <1>1, <3>1, <3>2 DEF TypeOK
  <2>2. owed' \in [Call -> SUBSET Key]
    BY <1>1 DEF TypeOK
  <2> QED BY <1>1, <2>1, <2>2, TryAgainKeeps DEF TypeOK
<1>3. SpentInv' /\ BoundInv'
  BY <1>1, TryAgainKeeps, NotRecording
<1>4. OwedInv'
  BY <1>1, TryAgainKeeps DEF OwedInv
<1>5. \A d \in Call : owed'[d] \subseteq owed[d]
  BY <1>1
<1>6. LoopInv' /\ FailoverIsExhausted'
  BY <1>1, <1>5, TryAgainKeeps
<1> QED BY <1>2, <1>3, <1>4, <1>6

\* A call leaves the loop: to be recorded, with an error, or altogether.
LEMMA LeaveKeeps ==
  ASSUME IInv, NEW c \in Call,
         \/ UpstreamAnswers(c) \/ Fail(c) \/ Crash(c)
         \/ BuildFails(c) \/ Abandon(c)
  PROVE  IInv'
<1> USE DEF IInv, At
<1> DEFINE new == call'[c]
<1>1. /\ ~At(c, "idle") /\ UNCHANGED <<key, spent, earlier, used>>
      /\ owed' = [owed EXCEPT ![c] = {}]
  BY DEF UpstreamAnswers, Fail, Crash, BuildFails, Abandon, GiveUp
<1>2. PICK j \in Job :
        /\ call' = [call EXCEPT ![c] = j]
        /\ j.tried = {} /\ j.read \in {call[c].read, "none"}
        /\ \/ j.pc \in {"idle", "record"}
           \/ j.pc = "failed" /\ j.err \in {"build", "gone"}
  <2>1. CASE Fail(c) \/ Crash(c)
    BY <2>1, IdleJobType DEF Fail, Crash, IdleJob
  <2>2. CASE UpstreamAnswers(c)
    <3> DEFINE j == [IdleJob EXCEPT !.pc = "record", !.read = call[c].read]
    <3>1. call[c].read \in Read
      BY DEF TypeOK, Job
    <3>2. j \in Job
      BY <3>1, IdleJobType DEF Job, Pcs
    <3>3. j.tried = {} /\ j.read = call[c].read /\ j.pc = "record"
      BY DEF IdleJob
    <3> QED BY <2>2, <3>2, <3>3 DEF UpstreamAnswers
  <2>3. CASE BuildFails(c) \/ Abandon(c)
    <3>1. PICK why \in {"build", "gone"} : GiveUp(c, why)
      BY <2>3 DEF BuildFails, Abandon
    <3> DEFINE j == [IdleJob EXCEPT !.pc = "failed", !.err = why]
    <3>2. j \in Job
      BY IdleJobType DEF Job, Pcs
    <3>3. j.tried = {} /\ j.read = "none" /\ j.pc = "failed" /\ j.err = why
      BY DEF IdleJob
    <3> QED BY <3>1, <3>2, <3>3 DEF GiveUp
  <2> QED BY <2>1, <2>2, <2>3
<1>3. TypeOK'
  BY <1>1, <1>2 DEF TypeOK
<1>4. SpentInv' /\ BoundInv'
  BY <1>1, <1>2, NotRecording DEF TypeOK
<1>5. LoopInv'
  BY <1>1, <1>2 DEF TypeOK, LoopInv
<1>6. OwedInv'
  BY <1>1, <1>2 DEF TypeOK, OwedInv, Selectable, InReach
<1>7. FailoverIsExhausted'
  BY <1>1, <1>2 DEF TypeOK, FailoverIsExhausted
<1> QED BY <1>3, <1>4, <1>5, <1>6, <1>7

LEMMA Upstream429Keeps ==
  ASSUME IInv, NEW c \in Call, Upstream429(c)
  PROVE  IInv'
<1> USE DEF IInv, At
<1>1. /\ call[c].pc = "upstream" /\ call' = [call EXCEPT ![c].pc = "cool"]
      /\ UNCHANGED <<key, spent, earlier, used, owed>>
  BY DEF Upstream429, Goto
<1>2. TypeOK'
  <2>1. call' \in [Call -> Job]
    BY <1>1 DEF TypeOK, Job, Pcs
  <2> QED BY <1>1, <2>1 DEF TypeOK
<1>3. SpentInv' /\ BoundInv'
  BY <1>1, NotRecording DEF TypeOK
<1>4. LoopInv'
  BY <1>1 DEF TypeOK, LoopInv
<1>5. OwedInv'
  BY <1>1 DEF TypeOK, OwedInv, Selectable, InReach
<1>6. FailoverIsExhausted'
  BY <1>1 DEF TypeOK, FailoverIsExhausted
<1> QED BY <1>2, <1>3, <1>4, <1>5, <1>6

LEMMA BackoffKeeps ==
  ASSUME IInv, NEW c \in Call, Backoff(c)
  PROVE  IInv'
<1> USE DEF IInv, At
<1>1. /\ At(c, "backoff") /\ UNCHANGED <<key, spent, earlier, used>>
      /\ call' = [call EXCEPT ![c].pc = "select", ![c].round = @ + 1,
                              ![c].tries = 0, ![c].tried = {},
                              ![c].err = "none"]
      /\ owed' = [owed EXCEPT ![c] = InReach]
  BY DEF Backoff
<1>2. call[c].round + 1 \in 0..Rounds /\ 0 \in 0..Attempts /\ 0 < Attempts
  BY <1>1, AIGatewayAssumption DEF LoopInv, TypeOK, Job
<1>3. TypeOK'
  <2>1. call' \in [Call -> Job]
    BY <1>1, <1>2 DEF TypeOK, Job, Pcs
  <2>2. owed' \in [Call -> SUBSET Key]
    BY <1>1 DEF TypeOK, Selectable, InReach
  <2> QED BY <1>1, <2>1, <2>2 DEF TypeOK
<1>4. SpentInv' /\ BoundInv'
  BY <1>1, NotRecording DEF TypeOK
<1>5. LoopInv'
  BY <1>1, <1>2 DEF TypeOK, LoopInv
<1>6. OwedInv'
  BY <1>1 DEF TypeOK, OwedInv, Selectable, InReach
<1>7. FailoverIsExhausted'
  BY <1>1 DEF TypeOK, FailoverIsExhausted
<1> QED BY <1>3, <1>4, <1>5, <1>6, <1>7

\* An administrator, or time, changes a key.
LEMMA KeyKeeps ==
  ASSUME IInv, NEW k \in Key,
         \/ TestKey(k) \/ CooldownEnds(k) \/ RotateKey(k)
         \/ \E e \in BOOLEAN : UpdateAIKey(k, e)
  PROVE  IInv'
<1> USE DEF IInv, At
<1>1. PICK row \in Row : SetKey(k, row)
  <2>1. /\ \A b \in BOOLEAN : [key[k] EXCEPT !.cooling = b] \in Row
        /\ \A b \in BOOLEAN : [key[k] EXCEPT !.enable = b] \in Row
        /\ [key[k] EXCEPT !.cooling = FALSE, !.readable = TRUE] \in Row
    BY DEF TypeOK, Row
  <2> QED BY <2>1 DEF TestKey, CooldownEnds, RotateKey, UpdateAIKey
<1>2. /\ key' = [key EXCEPT ![k] = row]
      /\ owed' = [d \in Call |-> owed[d] \cap InReach']
      /\ UNCHANGED <<call, spent, earlier, used>>
  BY <1>1 DEF SetKey, KeepOwed
<1>3. TypeOK'
  BY <1>2 DEF TypeOK
<1>4. SpentInv' /\ BoundInv'
  BY <1>2, NotRecording
<1>5. LoopInv' /\ OwedInv' /\ FailoverIsExhausted'
  BY <1>2 DEF LoopInv, OwedInv, FailoverIsExhausted
<1> QED BY <1>3, <1>4, <1>5

----------------------------------------------------------------------------

LEMMA NextIInv == IInv /\ [Next]_vars => IInv'
<1> SUFFICES ASSUME IInv, [Next]_vars PROVE IInv'
  OBVIOUS
<1>1. ASSUME NEW c \in Call, Serve(c) PROVE IInv'
  BY <1>1, SelectKeyKeeps, NoKeyLeftKeeps, LeaveKeeps, UpstreamFailsKeeps,
     Upstream429Keeps, MarkCooldownKeeps, BackoffKeeps, RecordUsageKeeps DEF Serve
<1>2. ASSUME NEW c \in Call, NEW kind \in Kind, NEW read \in Read,
             Start(c, kind, read)
      PROVE  IInv'
  BY <1>2, StartKeeps
<1>3. ASSUME NEW c \in Call, NEW n \in 0..MaxTokens, CacheHit(c, n) PROVE IInv'
  BY <1>3, CacheHitKeeps
<1>4. ASSUME NEW c \in Call, Crash(c) PROVE IInv'
  BY <1>4, LeaveKeeps
<1>5. ASSUME NEW k \in Key,
             \/ TestKey(k) \/ CooldownEnds(k) \/ RotateKey(k)
             \/ \E e \in BOOLEAN : UpdateAIKey(k, e)
      PROVE IInv'
  BY <1>5, KeyKeeps
<1>6. ASSUME NewDay \/ NewMonth PROVE IInv'
  BY <1>6, DayKeeps
<1>7. CASE UNCHANGED vars
  BY <1>7 DEF vars, IInv, TypeOK, SpentInv, BoundInv, Slack, InFlight, LoopInv,
              OwedInv, FailoverIsExhausted, At, Selectable, InReach
<1> QED BY <1>1, <1>2, <1>3, <1>4, <1>5, <1>6, <1>7 DEF Next

\* The budget's overshoot and what rounds know of the keys, together.
THEOREM InductiveInvariant == Spec => []IInv
BY InitIInv, NextIInv, PTL DEF Spec

\* The types of keys, calls and sums (aigateway.go:480).
THEOREM TypeCorrect == Spec => []TypeOK
<1>1. IInv => TypeOK
  BY DEF IInv
<1> QED BY <1>1, InductiveInvariant, PTL

\* Calls in flight pass a limit together by at most one answer each
\* (usage.go:160), for any number of calls and any limits.
THEOREM OvershootBounded == Spec => []OvershootIsBounded
<1>1. IInv => OvershootIsBounded
  <2> SUFFICES ASSUME IInv PROVE OvershootIsBounded
    OBVIOUS
  <2>1. Slack \in Nat /\ Slack <= Cardinality(Call) /\ Cardinality(Call) \in Nat
    BY SlackType DEF Slack, InFlight
  <2>2. /\ MaxTokens * Slack <= MaxTokens * Cardinality(Call)
        /\ MaxTokens * Slack \in Nat /\ MaxTokens * Cardinality(Call) \in Nat
    BY <2>1, MoreSlack, OneMore, AIGatewayAssumption
  <2> QED BY <2>2, AIGatewayAssumption
          DEF IInv, BoundInv, OvershootIsBounded, TypeOK
<1> QED BY <1>1, InductiveInvariant, PTL

\* A call fails only after the failover has used what it had
\* (aigateway.go:480), for any keys, attempts and rounds.
THEOREM FailoverExhausted == Spec => []FailoverIsExhausted
<1>1. IInv => FailoverIsExhausted
  BY DEF IInv
<1> QED BY <1>1, InductiveInvariant, PTL
=============================================================================
