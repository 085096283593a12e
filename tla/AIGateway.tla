------------------------------ MODULE AIGateway ------------------------------
(***************************************************************************)
(* The AI gateway: http/aigateway.go, http/aigateway_ext.go,               *)
(* internal/apikey and internal/usage, for one principal.  A call is       *)
(* checked against the budget, forwarded with a key of the pool, retried   *)
(* with other keys, and recorded.  Budget queries, key selection, the      *)
(* upstream call, the cooldown and the usage record are a step each.       *)
(*                                                                         *)
(* Abstracted: providers and tenants, of which KeysOf and Rank keep what   *)
(* SelectKey visits for a tenant, and in which order; changes to routes;   *)
(* costs, which are bounded like tokens; time, of which a cooldown keeps   *)
(* whether it has ended and a usage record whether it is from today; the   *)
(* response cache, which may have an answer at any time; content           *)
(* moderation and embedding inside a call, neither checked nor recorded.   *)
(***************************************************************************)
EXTENDS Naturals, FiniteSets

CONSTANTS
  Key,         \* keys of the pool
  NoKey,       \* "no key", before the first selection
  Call,        \* concurrent calls
  Asks,        \* Asks[c]: the endpoints call c may be of, each with what its
               \* budget check can read: "all", "day" (the sum of the month
               \* fails), or "none"
  Routes,      \* number of the routes of the model, the tenant's first
  KeysOf,      \* KeysOf[r]: keys of the provider of route r
  Rank,        \* Rank[k]: place of k among them: the tenant's, by priority
  Attempts,    \* maxAttempts, 3 in the code
  Rounds,      \* maxBackoffRounds, 2 in the code
  MaxTokens,   \* most tokens of an answer
  DailyLimit,  \* UsageBudget.DailyTokenLimit
  MonthLimit   \* UsageBudget.MonthlyTokenLimit, 0 for none

Kind == {"chat", "json", "multipart", "moderations"}

Read == {"none", "day", "all"}

ASSUME AIGatewayAssumption ==
  /\ NoKey \notin Key
  /\ IsFiniteSet(Call)
  /\ Asks \in [Call -> SUBSET (Kind \X Read)]
  /\ Routes \in Nat /\ KeysOf \in [1..Routes -> SUBSET Key]
  /\ \A k \in Key : Rank[k] \in Nat
  /\ Attempts \in Nat \ {0} /\ Rounds \in Nat
  /\ MaxTokens \in Nat
  /\ DailyLimit \in Nat \ {0} /\ MonthLimit \in Nat

VARIABLES
  key,      \* the ai_key rows: enabled, on cooldown, can be decrypted
  call,     \* call[c]: what the goroutine of call c is doing
  spent,    \* tokens of today's usage records, up to the greater limit
  earlier,  \* tokens of this month's usage records before today, up to
            \* MonthLimit, beyond which they are not told apart
  used,     \* history: tokens recorded today by calls whose check has read
            \* the day's sum
  owed      \* history: owed[c]: keys that have been in reach ever since the
            \* round of c began, and that c has not called in it

vars == <<key, call, spent, earlier, used, owed>>

Pcs == {"idle", "select", "upstream", "cool", "backoff", "record", "failed"}

Row == [enable: BOOLEAN, cooling: BOOLEAN, readable: BOOLEAN]

\* read: what CheckBudget has read; err: the round has ended in a selection
\* that could not read a route, or the call in a request that could not be
\* built, or because its client has left.
Job == [pc: Pcs, kind: Kind \cup {"none"}, read: Read,
        key: Key \cup {NoKey}, tried: SUBSET Key,
        tries: 0..Attempts, round: 0..Rounds, failed: BOOLEAN,
        err: {"none", "read", "build", "gone"}]

TypeOK ==
  /\ key \in [Key -> Row]
  /\ call \in [Call -> Job]
  /\ spent \in Nat /\ earlier \in 0..MonthLimit /\ used \in Nat
  /\ owed \in [Call -> SUBSET Key]

IdleJob ==
  [pc |-> "idle", kind |-> "none", read |-> "none",
   key |-> NoKey, tried |-> {}, tries |-> 0, round |-> 0, failed |-> FALSE,
   err |-> "none"]

Init ==
  /\ key \in [Key -> [enable: BOOLEAN, cooling: {FALSE}, readable: BOOLEAN]]
  /\ call = [c \in Call |-> IdleJob]
  /\ spent = 0 /\ earlier = 0 /\ used = 0
  /\ owed = [c \in Call |-> {}]

At(c, pc) == call[c].pc = pc

Goto(c, pc) == call' = [call EXCEPT ![c].pc = pc]

Selectable == {k \in Key : key[k].enable /\ ~key[k].cooling}

\* Keys a selection can come to: of a provider it looks at one key only, and
\* one that cannot be decrypted hides those behind it.
InReach ==
  {k \in Selectable : \E r \in 1..Routes :
     /\ k \in KeysOf[r]
     /\ \A j \in Selectable \cap KeysOf[r] : Rank[j] <= Rank[k] => key[j].readable}

\* History: a key that is not in reach any more is owed to nobody.
KeepOwed == owed' = [c \in Call |-> owed[c] \cap InReach']

----------------------------------------------------------------------------
\* The budget

\* The sum CheckBudget compares with the monthly limit: the query is built on
\* the one for the day, whose condition stays in it.
MonthlyTokens == spent

\* Mutant: the limit itself is still allowed.
AllowedAtLimit(read) ==
  read # "none" =>
    /\ spent <= DailyLimit
    /\ read = "all" /\ MonthLimit > 0 => MonthlyTokens <= MonthLimit

\* CheckBudget drops the errors of its queries.  Without the budget or the
\* day's sum, whose error the month's query inherits, everything is allowed;
\* a month's sum that cannot be read is 0.
Allowed(read) ==
  read # "none" =>
    /\ spent < DailyLimit
    /\ read = "all" /\ MonthLimit > 0 => MonthlyTokens < MonthLimit

\* Today's tokens with a record of n more; they are not told apart where
\* neither limit can tell them apart.
Recorded(n) ==
  LET cap == IF DailyLimit > MonthLimit THEN DailyLimit ELSE MonthLimit
  IN  IF spent + n < cap THEN spent + n ELSE cap

\* A call passes the budget; one that does not leaves a record of no tokens.
\* /v1/moderations does not ask.
Start(c, kind, read) ==
  /\ At(c, "idle")
  /\ <<kind, read>> \in Asks[c]
  /\ kind = "moderations" => read = "none"
  /\ Allowed(read)
  /\ call' = [call EXCEPT ![c] = [IdleJob EXCEPT !.pc = "select",
                                                 !.kind = kind,
                                                 !.read = read]]
  /\ owed' = [owed EXCEPT ![c] = InReach]
  /\ UNCHANGED <<key, spent, earlier, used>>

\* A chat whose answer is cached is recorded, and never checked.
CacheHit(c, n) ==
  /\ At(c, "idle")
  /\ \E read \in Read : <<"chat", read>> \in Asks[c]
  /\ spent' = Recorded(n)
  /\ UNCHANGED <<key, call, earlier, used, owed>>

\* The tokens of the answer, 0 when it has no usage or cannot be recorded.
RecordUsage(c, n) ==
  /\ At(c, "record")
  /\ spent' = Recorded(n)
  /\ used' = IF call[c].read = "none" THEN used ELSE used + n
  /\ call' = [call EXCEPT ![c] = IdleJob]
  /\ UNCHANGED <<key, earlier, owed>>

NewDay ==
  /\ earlier' = IF earlier + spent < MonthLimit THEN earlier + spent
                                                ELSE MonthLimit
  /\ spent' = 0 /\ used' = 0
  /\ UNCHANGED <<key, call, owed>>

NewMonth ==
  /\ earlier' = 0 /\ spent' = 0 /\ used' = 0
  /\ UNCHANGED <<key, call, owed>>

----------------------------------------------------------------------------
\* Forwarding: forwardWithRetry, and forwardMultipart, which does not exclude
\* the keys it has tried and has no rounds

Free(c) ==
  IF call[c].kind = "multipart" THEN Selectable
                                ELSE Selectable \ call[c].tried

\* What follows the last attempt of a round.
AfterRound(c) ==
  IF call[c].kind # "multipart" /\ call[c].round < Rounds THEN "backoff"
                                                          ELSE "failed"

Best(S) == {k \in S : \A j \in S : Rank[k] <= Rank[j]}

Offer(c, r) == Best(Free(c) \cap KeysOf[r])

\* A route yields nothing: a query of it has failed, all its keys are used, or
\* the best of them cannot be decrypted.
Passed(c, r, unread) ==
  \/ r \in unread
  \/ Free(c) \cap KeysOf[r] = {}
  \/ \E k \in Offer(c, r) : ~key[k].readable

\* unread: the routes whose queries fail; all of them when the list itself
\* cannot be read.
SelectKey(c) ==
  /\ At(c, "select")
  /\ \E unread \in SUBSET (1..Routes), r \in 1..Routes :
       /\ r \notin unread
       /\ \A q \in 1..Routes : q < r => Passed(c, q, unread)
       /\ \E k \in Offer(c, r) :
            /\ key[k].readable
            /\ call' = [call EXCEPT ![c].pc = "upstream", ![c].key = k,
                                    ![c].tried = @ \cup {k}]
            /\ owed' = [owed EXCEPT ![c] = @ \ {k}]
  /\ UNCHANGED <<key, spent, earlier, used>>

\* Mutant: the selection ends at the first route with a key it cannot decrypt.
NoKeyLeftUndecrypted(c) ==
  /\ At(c, "select")
  /\ \E unread \in SUBSET (1..Routes) :
       /\ \/ \A r \in 1..Routes : Passed(c, r, unread)
          \/ \E r \in 1..Routes : \E k \in Offer(c, r) : ~key[k].readable
       /\ call' = [call EXCEPT
            ![c].pc = IF call[c].failed THEN AfterRound(c) ELSE "failed",
            ![c].err = IF unread = {} THEN "none" ELSE "read"]
  /\ UNCHANGED <<key, spent, earlier, used, owed>>

\* No route yields a key: an error at once, unless an attempt has failed
\* earlier.
NoKeyLeft(c) ==
  /\ At(c, "select")
  /\ \E unread \in SUBSET (1..Routes) :
       /\ \A r \in 1..Routes : Passed(c, r, unread)
       /\ call' = [call EXCEPT
            ![c].pc = IF call[c].failed THEN AfterRound(c) ELSE "failed",
            ![c].err = IF unread = {} THEN "none" ELSE "read"]
  /\ UNCHANGED <<key, spent, earlier, used, owed>>

\* The call ends at once, whatever is left to try.
GiveUp(c, why) ==
  /\ call' = [call EXCEPT ![c] = [IdleJob EXCEPT !.pc = "failed", !.err = why]]
  /\ owed' = [owed EXCEPT ![c] = {}]
  /\ UNCHANGED <<key, spent, earlier, used>>

\* The request to the provider cannot be built.
BuildFails(c) ==
  /\ At(c, "upstream")
  /\ GiveUp(c, "build")

\* Mutant: the attempts of a round are counted from 0 and up to the limit.
TryAgainOnceMore(c) ==
  LET n == call[c].tries + 1
  IN  call' = [call EXCEPT ![c].key = NoKey, ![c].failed = TRUE,
                 ![c].tries = n,
                 ![c].pc = IF n <= Attempts THEN "select" ELSE AfterRound(c)]

\* The next attempt, if the round has one.
TryAgain(c) ==
  LET n == call[c].tries + 1
  IN  call' = [call EXCEPT ![c].key = NoKey, ![c].failed = TRUE,
                 ![c].tries = n,
                 ![c].pc = IF n < Attempts THEN "select" ELSE AfterRound(c)]

UpstreamAnswers(c) ==
  /\ At(c, "upstream")
  /\ call' = [call EXCEPT ![c] = [IdleJob EXCEPT !.pc = "record",
                                                 !.read = call[c].read]]
  /\ owed' = [owed EXCEPT ![c] = {}]
  /\ UNCHANGED <<key, spent, earlier, used>>

\* Mutant: a transport error is not counted as an attempt.
UpstreamFailsUncounted(c) ==
  /\ At(c, "upstream")
  /\ call' = [call EXCEPT ![c].failed = TRUE, ![c].pc = "select"]
  /\ UNCHANGED <<key, spent, earlier, used, owed>>

\* A transport error, a timeout, a client that has left, or a status >= 500.
UpstreamFails(c) ==
  /\ At(c, "upstream")
  /\ TryAgain(c)
  /\ UNCHANGED <<key, spent, earlier, used, owed>>

Upstream429(c) ==
  /\ At(c, "upstream")
  /\ Goto(c, "cool")
  /\ UNCHANGED <<key, spent, earlier, used, owed>>

\* The UPDATE is by key, whatever has become of it; its error is dropped.
MarkCooldown(c) ==
  /\ At(c, "cool")
  /\ key' \in {key, [key EXCEPT ![call[c].key].cooling = TRUE]}
  /\ TryAgain(c)
  /\ KeepOwed
  /\ UNCHANGED <<spent, earlier, used>>

Backoff(c) ==
  /\ At(c, "backoff")
  /\ call' = [call EXCEPT ![c].pc = "select", ![c].round = @ + 1,
                          ![c].tries = 0, ![c].tried = {}, ![c].err = "none"]
  /\ owed' = [owed EXCEPT ![c] = InReach]
  /\ UNCHANGED <<key, spent, earlier, used>>

\* The client has left, as the request's context says, which is looked at
\* between attempts and while waiting.  One that leaves while upstream works
\* makes the attempt fail first.  forwardMultipart does not look: its attempts
\* fail one by one.
Abandon(c) ==
  /\ call[c].pc \in {"select", "backoff"}
  /\ call[c].kind # "multipart"
  /\ GiveUp(c, "gone")

\* The error is answered and recorded with no tokens.
Fail(c) ==
  /\ At(c, "failed")
  /\ call' = [call EXCEPT ![c] = IdleJob]
  /\ owed' = [owed EXCEPT ![c] = {}]
  /\ UNCHANGED <<key, spent, earlier, used>>

----------------------------------------------------------------------------
\* The environment

\* The process stops: nothing is recorded.
Crash(c) ==
  /\ ~At(c, "idle")
  /\ call' = [call EXCEPT ![c] = IdleJob]
  /\ owed' = [owed EXCEPT ![c] = {}]
  /\ UNCHANGED <<key, spent, earlier, used>>

SetKey(k, row) ==
  /\ key' = [key EXCEPT ![k] = row]
  /\ KeepOwed
  /\ UNCHANGED <<call, spent, earlier, used>>

\* An administrator's test call is answered 429.
TestKey(k) == SetKey(k, [key[k] EXCEPT !.cooling = TRUE])

CooldownEnds(k) == key[k].cooling /\ SetKey(k, [key[k] EXCEPT !.cooling = FALSE])

RotateKey(k) ==
  SetKey(k, [key[k] EXCEPT !.cooling = FALSE, !.readable = TRUE])

UpdateAIKey(k, e) == SetKey(k, [key[k] EXCEPT !.enable = e])

----------------------------------------------------------------------------

Serve(c) ==
  \/ SelectKey(c) \/ NoKeyLeft(c) \/ BuildFails(c)
  \/ UpstreamAnswers(c) \/ UpstreamFails(c) \/ Upstream429(c)
  \/ MarkCooldown(c) \/ Backoff(c) \/ Abandon(c) \/ Fail(c)
  \/ \E n \in 0..MaxTokens : RecordUsage(c, n)

Next ==
  \/ \E c \in Call :
       \/ \E kind \in Kind, read \in Read : Start(c, kind, read)
       \/ \E n \in 0..MaxTokens : CacheHit(c, n)
       \/ Serve(c)
       \/ Crash(c)
  \/ \E k \in Key :
       \/ TestKey(k) \/ CooldownEnds(k) \/ RotateKey(k)
       \/ \E e \in BOOLEAN : UpdateAIKey(k, e)
  \/ NewDay \/ NewMonth

Spec == Init /\ [][Next]_vars

\* A goroutine goes on: the HTTP client and the timer have time limits.
FairSpec == Spec /\ \A c \in Call : WF_vars(Serve(c))

----------------------------------------------------------------------------
\* The budget is checked before a call and charged after it, so calls in
\* flight may pass it together (usage.go:160): by at most the tokens of one
\* answer each, however calls, failures, cache hits and days interleave.  That
\* is of the calls whose check could read the day's sum: the others, which
\* CheckBudget lets through, come on top without a bound.
OvershootIsBounded ==
  used <= DailyLimit - 1 + MaxTokens * Cardinality(Call)

\* A call whose client waits is failed only when its last round has used all
\* its attempts or has left no key uncalled that was in reach all the time,
\* and, if it has been forwarded at all, only after the last round
\* (aigateway.go:479): failover is exhausted first.  The code knows two ways
\* around this.  A query of the selection that fails counts as a route without
\* keys (err = "read"), and a provider whose request cannot be built ends the
\* call while others are left (aigateway.go:514).
FailoverIsExhausted ==
  \A c \in Call : At(c, "failed") /\ call[c].err \notin {"build", "gone"} =>
    /\ call[c].err = "read" \/ call[c].tries = Attempts \/ owed[c] = {}
    /\ call[c].failed => call[c].kind = "multipart" \/ call[c].round = Rounds

\* Every call is answered, whatever upstream, administrators and other calls
\* do to the keys (aigateway.go:479, aigateway_ext.go:419).
EveryCallEnds == \A c \in Call : ~At(c, "idle") ~> At(c, "idle")

\* No call whose check has read both sums starts once the month's tokens have
\* reached the monthly limit (docs/USAGE.md:899).
MonthlyLimitHolds ==
  [][\A c \in Call :
       At(c, "idle") /\ call'[c].pc = "select" /\ call'[c].read = "all"
       => MonthLimit = 0 \/ earlier + spent < MonthLimit]_vars

=============================================================================
