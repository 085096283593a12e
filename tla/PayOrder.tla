------------------------------ MODULE PayOrder ------------------------------
(***************************************************************************)
(* WeChat JSAPI payment orders: internal/wechatpay/{service,model,         *)
(* reconcile}.go.  Goroutines (HTTP requests and reconciliation loops)     *)
(* read the order row, talk to WeChat Pay, and write the row with guarded  *)
(* UPDATEs; no lock spans the three.  Each database statement and each     *)
(* upstream call is one step, so other goroutines run in between.          *)
(*                                                                         *)
(* Abstracted: tenant and user ownership checks (the caller owns the       *)
(* order), openID, prepay and transaction ids (a row has a prepay id from  *)
(* its insert), trade_state columns (kept for display), alerts and audit   *)
(* rows.  An order is refunded only after its row is PAID, so no query of  *)
(* a CREATED one is answered REFUND; refunds made on the merchant platform *)
(* are left out.  A failed database statement is the same as the goroutine *)
(* stopping there (Crash), except where the code goes on after the failure *)
(* (ApplyWriteFails).                                                      *)
(***************************************************************************)
EXTENDS Integers, FiniteSets

CONSTANTS
  Order,       \* merchant order numbers (out_trade_no)
  NoOrder,     \* "no order", for idle goroutines
  Request,     \* goroutines serving HTTP requests
  Loop,        \* reconciliation loops, one per process
  Amounts,     \* amounts a caller may ask for
  Opened,      \* amounts of the orders that are open at the start, 0 for none
  Configs,     \* what an operator may make of a configuration
  Ttl,         \* lifetime of an order, in clock ticks
  ScanAge,     \* age at which the loop considers an order stale
  BatchSize,   \* orders per reconciliation round
  MaxTime      \* bound of the model: the clock stops here

ASSUME PayOrderAssumption ==
  /\ NoOrder \notin Order
  /\ Amounts \subseteq Nat \ {0}
  /\ Opened \subseteq Nat
  /\ Configs \subseteq {"enabled", "disabled", "deleted"}
  /\ Ttl \in Nat
  /\ ScanAge \in Nat
  /\ BatchSize \in 1..1000
  /\ MaxTime \in Nat

VARIABLES
  now,       \* the clock
  row,       \* row[o]: the PayOrder row of o
  wx,        \* wx[o]: the order as WeChat Pay has it (external)
  offered,   \* orders whose wx.requestPayment parameters reached a client
  notices,   \* orders for which WeChat Pay sends payment notifications
  config,    \* config[o]: the merchant configuration the order belongs to
  job,       \* job[p]: what goroutine p is doing
  todo       \* todo[l]: rest of the batch loop l has scanned

vars == <<now, row, wx, offered, notices, config, job, todo>>

Proc == Request \cup Loop

Time == 0..MaxTime

Row == [status: {"NONE", "CREATED", "PAID", "CLOSED"}, amount: Nat,
        createdAt: Nat, expireAt: Nat,
        reason: {"", "merchant", "expired", "upstream"}]

\* WeChat answers REVOKED and PAYERROR are handled as CLOSED by the code.
WxOrder == [state: {"NONE", "NOTPAY", "SUCCESS", "CLOSED"}, amount: Nat,
            deadline: Nat]

Pcs == {"idle", "prepay_new", "prepay_reuse", "insert", "extend", "query",
        "apply", "close_expired", "mark_expired", "close", "mark_merchant"}

Job == [pc: Pcs, order: Order \cup {NoOrder}, amount: Nat, expireAt: Nat,
        tx: {"NONE", "NOTPAY", "SUCCESS", "CLOSED"}]

\* An order as ListStaleCreatedOrders returned it: the expiry is a snapshot.
Scanned == [order: Order, expireAt: Nat]

TypeOK ==
  /\ now \in Time
  /\ row \in [Order -> Row]
  /\ wx \in [Order -> WxOrder]
  /\ offered \subseteq Order
  /\ notices \subseteq Order
  /\ config \in [Order -> {"enabled", "disabled", "deleted"}]
  /\ job \in [Proc -> Job]
  /\ todo \in [Loop -> SUBSET Scanned]

IdleJob == [pc |-> "idle", order |-> NoOrder, amount |-> 0, expireAt |-> 0,
            tx |-> "NONE"]

Init ==
  \E opened \in [Order -> Opened] :
    LET IsOpen(o) == opened[o] # 0 IN
    /\ now = 0
    /\ row = [o \in Order |->
                [status |-> IF IsOpen(o) THEN "CREATED" ELSE "NONE",
                 amount |-> opened[o], createdAt |-> 0,
                 expireAt |-> IF IsOpen(o) THEN Ttl ELSE 0, reason |-> ""]]
    /\ wx = [o \in Order |->
                [state |-> IF IsOpen(o) THEN "NOTPAY" ELSE "NONE",
                 amount |-> opened[o],
                 deadline |-> IF IsOpen(o) THEN Ttl ELSE 0]]
    /\ offered = {o \in Order : IsOpen(o)}
    /\ notices = {}
    /\ config = [o \in Order |-> "enabled"]
    /\ job = [p \in Proc |-> IdleJob]
    /\ todo = [l \in Loop |-> {}]

At(p, pc) == job[p].pc = pc

Goto(p, pc) == job' = [job EXCEPT ![p].pc = pc]

Return(p) == job' = [job EXCEPT ![p] = IdleJob]

----------------------------------------------------------------------------
(* CreateJSAPIPayment.                                                     *)

\* Mutant: a client receives its payment parameters as soon as the upstream
\* order exists, before the local row is written.
PrepayAcceptedOfferEarly(p) ==
  LET o == job[p].order IN
  /\ job[p].pc \in {"prepay_new", "prepay_reuse"}
  /\ \/ wx[o].state = "NONE"
     \/ wx[o].state = "NOTPAY" /\ wx[o].amount = job[p].amount
  /\ wx' = [wx EXCEPT ![o] = [state |-> "NOTPAY", amount |-> job[p].amount,
                              deadline |-> job[p].expireAt]]
  /\ offered' = offered \cup {o}
  /\ Goto(p, IF At(p, "prepay_new") THEN "insert" ELSE "extend")
  /\ UNCHANGED <<now, row, notices, config, todo>>

\* The order is looked up once; PAID and CLOSED orders are refused.  The
\* expiry is computed here, before the upstream call.
CreateRead(p, o, a) ==
  /\ At(p, "idle")
  /\ config[o] = "enabled"
  /\ row[o].status \in {"NONE", "CREATED"}
  /\ now + Ttl < MaxTime
  /\ job' = [job EXCEPT ![p] =
       [pc |-> IF row[o].status = "NONE" THEN "prepay_new" ELSE "prepay_reuse",
        order |-> o, amount |-> a, expireAt |-> now + Ttl, tx |-> "NONE"]]
  /\ UNCHANGED <<now, row, wx, offered, notices, config, todo>>

\* External: a repeated prepay must carry the amount of the first one; paid
\* and closed orders are refused.
PrepayAccepted(p) ==
  LET o == job[p].order IN
  /\ job[p].pc \in {"prepay_new", "prepay_reuse"}
  /\ \/ wx[o].state = "NONE"
     \/ wx[o].state = "NOTPAY" /\ wx[o].amount = job[p].amount
  /\ wx' = [wx EXCEPT ![o] = [state |-> "NOTPAY", amount |-> job[p].amount,
                              deadline |-> job[p].expireAt]]
  /\ Goto(p, IF At(p, "prepay_new") THEN "insert" ELSE "extend")
  /\ UNCHANGED <<now, row, offered, notices, config, todo>>

\* An answer that is lost after the call took effect is PrepayAccepted, then
\* Crash; likewise for the other calls.
PrepayFails(p) ==
  /\ job[p].pc \in {"prepay_new", "prepay_reuse"}
  /\ Return(p)
  /\ UNCHANGED <<now, row, wx, offered, notices, config, todo>>

\* out_trade_no is unique: the loser of two concurrent inserts gets an error.
\* MaxTime bounds the model: an order is inserted early enough to go stale.
InsertOrder(p) ==
  LET o == job[p].order IN
  /\ At(p, "insert")
  /\ now + ScanAge < MaxTime
  /\ IF row[o].status = "NONE"
     THEN /\ row' = [row EXCEPT ![o] =
                [status |-> "CREATED", amount |-> job[p].amount,
                 createdAt |-> now, expireAt |-> job[p].expireAt,
                 reason |-> ""]]
          /\ offered' = offered \cup {o}
     ELSE UNCHANGED <<row, offered>>
  /\ Return(p)
  /\ UNCHANGED <<now, wx, notices, config, todo>>

\* Reusing a CREATED order writes expire_at with no guard on the status.
ExtendOrder(p) ==
  LET o == job[p].order IN
  /\ At(p, "extend")
  /\ row' = [row EXCEPT ![o].expireAt = job[p].expireAt]
  /\ offered' = offered \cup {o}
  /\ Return(p)
  /\ UNCHANGED <<now, wx, notices, config, todo>>
----------------------------------------------------------------------------
(* MarkOrderPaid and MarkOrderClosed: UPDATE ... WHERE status <> 'PAID'.   *)

\* Mutant: the upstream trade state is stored as the order status.
MarkOrderPaidTradeState(o) ==
  row' = [row EXCEPT ![o] =
            IF @.status = "PAID" THEN @
            ELSE [@ EXCEPT !.status = "SUCCESS", !.reason = ""]]

MarkOrderPaid(o) ==
  row' = [row EXCEPT ![o] =
            IF @.status = "PAID" THEN @
            ELSE [@ EXCEPT !.status = "PAID", !.reason = ""]]

\* Mutant: the UPDATE has lost its guard.
MarkOrderClosedUnguarded(o, why) ==
  row' = [row EXCEPT ![o] = [@ EXCEPT !.status = "CLOSED", !.reason = why]]

MarkOrderClosed(o, why) ==
  row' = [row EXCEPT ![o] =
            IF @.status = "PAID" THEN @
            ELSE [@ EXCEPT !.status = "CLOSED", !.reason = why]]

----------------------------------------------------------------------------
(* SyncOrderStatus, ReconcileStaleOrders and reconcileOrder.               *)

BeginQuery(p, o, expireAt) ==
  job' = [job EXCEPT ![p] = [pc |-> "query", order |-> o, amount |-> 0,
                             expireAt |-> expireAt, tx |-> "NONE"]]

\* SyncOrderStatus answers from the row unless it is CREATED and the
\* configuration is usable.
SyncRead(p, o) ==
  /\ At(p, "idle")
  /\ row[o].status = "CREATED"
  /\ config[o] # "deleted"
  /\ BeginQuery(p, o, row[o].expireAt)
  /\ UNCHANGED <<now, row, wx, offered, notices, config, todo>>

Stale == {o \in Order : /\ row[o].status = "CREATED"
                        /\ row[o].createdAt + ScanAge < now}

\* The BatchSize oldest stale orders, whatever their configuration.
IsBatch(B) ==
  /\ B \subseteq Stale
  /\ Cardinality(B) = IF Cardinality(Stale) <= BatchSize
                      THEN Cardinality(Stale) ELSE BatchSize
  /\ \A b \in B, o \in Stale \ B : row[b].createdAt <= row[o].createdAt

LoopScan(l) ==
  /\ At(l, "idle")
  /\ todo[l] = {}
  /\ Stale # {}
  /\ \E B \in SUBSET Stale :
       /\ IsBatch(B)
       /\ todo' = [todo EXCEPT ![l] =
            {[order |-> o, expireAt |-> row[o].expireAt] : o \in B}]
  /\ UNCHANGED <<now, row, wx, offered, notices, config, job>>

\* An order whose configuration is gone is skipped and stays CREATED.
LoopTake(l, s) ==
  /\ At(l, "idle")
  /\ s \in todo[l]
  /\ todo' = [todo EXCEPT ![l] = @ \ {s}]
  /\ IF config[s.order] = "deleted" THEN UNCHANGED job
                                    ELSE BeginQuery(l, s.order, s.expireAt)
  /\ UNCHANGED <<now, row, wx, offered, notices, config>>

QueryAnswers(p) ==
  /\ At(p, "query")
  /\ wx[job[p].order].state # "NONE"
  /\ job' = [job EXCEPT ![p].pc = "apply", ![p].tx = wx[job[p].order].state]
  /\ UNCHANGED <<now, row, wx, offered, notices, config, todo>>

QueryFails(p) ==
  /\ At(p, "query")
  /\ Return(p)
  /\ UNCHANGED <<now, row, wx, offered, notices, config, todo>>

ApplySuccess(p) ==
  /\ At(p, "apply")
  /\ job[p].tx = "SUCCESS"
  /\ MarkOrderPaid(job[p].order)
  /\ Return(p)
  /\ UNCHANGED <<now, wx, offered, notices, config, todo>>

ApplyClosed(p) ==
  /\ At(p, "apply")
  /\ job[p].tx = "CLOSED"
  /\ MarkOrderClosed(job[p].order, "upstream")
  /\ Return(p)
  /\ UNCHANGED <<now, wx, offered, notices, config, todo>>

\* The copy of the order in memory is still CREATED: closing comes next when
\* its expiry, as it was read, has passed.
CloseIfExpired(p) ==
  IF now > job[p].expireAt THEN Goto(p, "close_expired") ELSE Return(p)

\* Mutant: an unpaid order is never closed by the loop.
ApplyUnpaidKeeps(p) ==
  /\ At(p, "apply")
  /\ job[p].tx = "NOTPAY"
  /\ Return(p)
  /\ UNCHANGED <<now, row, wx, offered, notices, config, todo>>

ApplyUnpaid(p) ==
  /\ At(p, "apply")
  /\ job[p].tx = "NOTPAY"
  /\ CloseIfExpired(p)
  /\ UNCHANGED <<now, row, wx, offered, notices, config, todo>>

\* The write of the upstream answer failed: applyTransaction only logs, the
\* copy in memory stays CREATED and reconcileOrder goes on.
ApplyWriteFails(p) ==
  /\ At(p, "apply")
  /\ job[p].tx \in {"SUCCESS", "CLOSED"}
  /\ CloseIfExpired(p)
  /\ UNCHANGED <<now, row, wx, offered, notices, config, todo>>

\* Upstream close: takes effect only on an unpaid order, and may fail.
UpstreamClosed(o) ==
  /\ wx[o].state = "NOTPAY"
  /\ wx' = [wx EXCEPT ![o].state = "CLOSED"]

\* The result of the upstream close is thrown away.
CloseExpired(p) ==
  /\ At(p, "close_expired")
  /\ UpstreamClosed(job[p].order) \/ UNCHANGED wx
  /\ Goto(p, "mark_expired")
  /\ UNCHANGED <<now, row, offered, notices, config, todo>>

MarkExpired(p) ==
  /\ At(p, "mark_expired")
  /\ MarkOrderClosed(job[p].order, "expired")
  /\ Return(p)
  /\ UNCHANGED <<now, wx, offered, notices, config, todo>>

----------------------------------------------------------------------------
(* ClosePayOrder, also called for each order of BatchCloseOrders.          *)

CloseRead(p, o) ==
  /\ At(p, "idle")
  /\ row[o].status = "CREATED"
  /\ config[o] # "deleted"
  /\ job' = [job EXCEPT ![p] = [IdleJob EXCEPT !.pc = "close", !.order = o]]
  /\ UNCHANGED <<now, row, wx, offered, notices, config, todo>>

\* Mutant: like the reconciliation, the merchant close ignores the answer.
CloseUpstreamIgnored(p) ==
  /\ At(p, "close")
  /\ UpstreamClosed(job[p].order) \/ UNCHANGED wx
  /\ Goto(p, "mark_merchant")
  /\ UNCHANGED <<now, row, offered, notices, config, todo>>

CloseUpstream(p) ==
  LET o == job[p].order IN
  /\ At(p, "close")
  /\ UpstreamClosed(o) \/ (wx[o].state = "CLOSED" /\ UNCHANGED wx)
  /\ Goto(p, "mark_merchant")
  /\ UNCHANGED <<now, row, offered, notices, config, todo>>

CloseFails(p) ==
  /\ At(p, "close")
  /\ Return(p)
  /\ UNCHANGED <<now, row, wx, offered, notices, config, todo>>

MarkMerchant(p) ==
  /\ At(p, "mark_merchant")
  /\ MarkOrderClosed(job[p].order, "merchant")
  /\ Return(p)
  /\ UNCHANGED <<now, wx, offered, notices, config, todo>>

----------------------------------------------------------------------------
(* HandlePayNotify, the payer, the operator, the clock and crashes.        *)

\* Mutant: a notification only settles an order that is still CREATED.
HandlePayNotifyCreatedOnly(o) ==
  /\ o \in notices
  /\ config[o] = "enabled"
  /\ row[o].status = "CREATED"
  /\ MarkOrderPaid(o)
  /\ UNCHANGED <<now, wx, offered, notices, config, job, todo>>

\* WeChat Pay repeats a notification that is not acknowledged, and may repeat
\* it afterwards.
HandlePayNotify(o) ==
  /\ o \in notices
  /\ config[o] = "enabled"
  /\ row[o].status # "NONE"
  /\ MarkOrderPaid(o)
  /\ UNCHANGED <<now, wx, offered, notices, config, job, todo>>

\* External: no notification of the order arrives any more, delivered or not.
LoseNotices(o) ==
  /\ o \in notices
  /\ notices' = notices \ {o}
  /\ UNCHANGED <<now, row, wx, offered, config, job, todo>>

\* External: the payer needs the parameters of an order that is open upstream
\* and not past its time_expire.
UserPays(o) ==
  /\ o \in offered
  /\ wx[o].state = "NOTPAY"
  /\ now <= wx[o].deadline
  /\ wx' = [wx EXCEPT ![o].state = "SUCCESS"]
  /\ notices' = notices \cup {o}
  /\ UNCHANGED <<now, row, offered, config, job, todo>>

\* The operator enables, disables or deletes the merchant configuration;
\* "deleted" also stands for one no client can be built from.
SetConfig(o, c) ==
  /\ config[o] # c
  /\ config' = [config EXCEPT ![o] = c]
  /\ UNCHANGED <<now, row, wx, offered, notices, job, todo>>

Tick ==
  /\ now < MaxTime
  /\ now' = now + 1
  /\ UNCHANGED <<row, wx, offered, notices, config, job, todo>>

\* A statement that fails ends the order, and a process that stops the round.
Crash(p) ==
  /\ ~At(p, "idle")
  /\ Return(p)
  /\ todo' \in {todo, [l \in Loop |-> IF l = p THEN {} ELSE todo[l]]}
  /\ UNCHANGED <<now, row, wx, offered, notices, config>>

Reconcile(p) ==
  \/ QueryAnswers(p) \/ QueryFails(p)
  \/ ApplySuccess(p) \/ ApplyClosed(p) \/ ApplyUnpaid(p) \/ ApplyWriteFails(p)
  \/ CloseExpired(p) \/ MarkExpired(p)

Next ==
  \/ \E p \in Request, o \in Order :
       (\E a \in Amounts : CreateRead(p, o, a)) \/ SyncRead(p, o)
                                                \/ CloseRead(p, o)
  \/ \E p \in Request :
       \/ PrepayAccepted(p) \/ PrepayFails(p) \/ InsertOrder(p)
       \/ ExtendOrder(p)
       \/ CloseUpstream(p) \/ CloseFails(p) \/ MarkMerchant(p)
  \/ \E l \in Loop : LoopScan(l) \/ (\E s \in todo[l] : LoopTake(l, s))
  \/ \E p \in Proc : Reconcile(p) \/ Crash(p)
  \/ \E o \in Order :
       \/ HandlePayNotify(o) \/ LoseNotices(o) \/ UserPays(o)
       \/ \E c \in Configs : SetConfig(o, c)
  \/ Tick

Spec == Init /\ [][Next]_vars
----------------------------------------------------------------------------
(* Fairness.  Time passes; a notification that keeps being sent arrives; a *)
(* reconciliation loop runs on a ticker, and the failures it meets (an     *)
(* upstream error, a failed write, a crash) are transient: a step that is  *)
(* possible again and again is taken, for each order.                      *)

On(l, o) == job[l].order = o

RoundFairness(l, o) ==
  /\ WF_vars(LoopScan(l))
  /\ SF_vars(\E s \in todo[l] : s.order = o /\ LoopTake(l, s))
  /\ SF_vars(On(l, o) /\ QueryAnswers(l))
  /\ SF_vars(On(l, o) /\ (ApplySuccess(l) \/ ApplyClosed(l) \/ ApplyUnpaid(l)))
  /\ SF_vars(On(l, o) /\ CloseExpired(l))
  /\ SF_vars(On(l, o) /\ MarkExpired(l))

Fairness ==
  /\ WF_vars(Tick)
  /\ \A o \in Order : WF_vars(HandlePayNotify(o))
  /\ \A l \in Loop, o \in Order : RoundFairness(l, o)

FairSpec == Spec /\ Fairness

----------------------------------------------------------------------------
(* Properties.                                                             *)

\* The table keeps the promise of PayLedger whatever the interleaving of
\* callbacks, queries, closes and reconciliation: PAID only after the charge
\* and for good, no charge for an order that has no row.
Ledger == INSTANCE PayLedger WITH
  status  <- [o \in Order |-> row[o].status],
  charged <- [o \in Order |-> wx[o].state = "SUCCESS"]

LedgerSpec == Ledger!Spec

\* A payer is charged exactly the amount of the row: parameters are handed
\* out only once the row is written, with the amount WeChat Pay was given.
ChargeIsBooked ==
  \A o \in Order :
    wx[o].state = "SUCCESS" => /\ row[o].status # "NONE"
                               /\ row[o].amount = wx[o].amount

\* ClosePayOrder closes upstream first and stops on an error, so an order the
\* merchant closed can no longer be paid.
MerchantCloseSticks ==
  \A o \in Order : row[o].reason = "merchant" => wx[o].state = "CLOSED"

\* Orders that no round resolves, since their configuration is gone, fill a
\* batch: the scan does not skip them, and the orders behind them wait.
BatchIsFull ==
  Cardinality({o \in Order : row[o].status = "CREATED"
                              /\ config[o] = "deleted"}) >= BatchSize

\* A charge reaches the row, by a notification or by the loop, as long as the
\* configuration is there; a notification also reopens an order that was closed
\* in the meantime.  If all of them are lost (reconcile.go:15), the row may end
\* CLOSED: a SUCCESS answer whose write has failed, or a payment after the last
\* answer, does not stop the close of an expired order (reconcile.go:212).
ChargeReachesRow ==
  \A o \in Order :
    (wx[o].state = "SUCCESS")
      ~> (\/ row[o].status = "PAID" \/ config[o] # "enabled" \/ BatchIsFull
          \/ row[o].status = "CLOSED" /\ o \notin notices)

\* The reconciliation loop leaves no order CREATED for ever: it is paid, closed,
\* its configuration is gone, or others without one are in its way
\* (reconcile.go:200).
OrderIsResolved ==
  \A o \in Order :
    (row[o].status = "CREATED")
      ~> (row[o].status # "CREATED" \/ config[o] = "deleted" \/ BatchIsFull)
=============================================================================
