--------------------------- MODULE PayOrderProofs ---------------------------
(***************************************************************************)
(* Theorems of PayOrder for every set of orders, goroutines and loops.     *)
(* A goroutine acts on what it read earlier, so the invariants of the      *)
(* table hold only together with what each goroutine's copy still implies  *)
(* about WeChat Pay and the row: the copy is stale, but only monotonically *)
(* so (a charge and an upstream close are final, a row never disappears).  *)
(***************************************************************************)
EXTENDS PayOrder, TLAPS

\* What relates the row of an order, WeChat Pay and what was handed out.
OrderInv(o) ==
  /\ o \in notices => wx[o].state = "SUCCESS"
  /\ o \in offered => row[o].status # "NONE"
  /\ wx[o].state = "SUCCESS" => o \in offered
  /\ row[o].status = "PAID" => wx[o].state = "SUCCESS"
  /\ row[o].status # "NONE" =>
       wx[o].state # "NONE" /\ row[o].amount = wx[o].amount
  /\ row[o].reason = "merchant" => wx[o].state = "CLOSED"

RowPcs == {"prepay_reuse", "extend", "query", "apply", "close_expired",
           "mark_expired", "close", "mark_merchant"}

\* What a goroutine may still rely on, however long ago it read the row.
JobInv(p) ==
  /\ job[p].pc # "idle" => job[p].order \in Order
  /\ job[p].tx = "SUCCESS" =>
       job[p].order \in Order /\ wx[job[p].order].state = "SUCCESS"
  /\ job[p].pc = "insert" =>
       /\ wx[job[p].order].state # "NONE"
       /\ wx[job[p].order].amount = job[p].amount
  /\ job[p].pc \in RowPcs => row[job[p].order].status # "NONE"
  /\ job[p].pc = "mark_merchant" => wx[job[p].order].state = "CLOSED"

\* A loop only holds orders it has seen in the table.
TodoInv(l) == \A s \in todo[l] : row[s.order].status # "NONE"

IInv ==
  /\ TypeOK
  /\ \A o \in Order : OrderInv(o)
  /\ \A p \in Proc : JobInv(p)
  /\ \A l \in Loop : TodoInv(l)

----------------------------------------------------------------------------
(* What the helpers of PayOrder do to the state.                           *)

LEMMA TimeIsNat == Time \subseteq Nat
<1>1. MaxTime \in Nat
  BY PayOrderAssumption
<1>2. QED
  BY <1>1 DEF Time

LEMMA IdleJobType == IdleJob \in Job
  BY DEF IdleJob, Job, Pcs

LEMMA ReturnEffect ==
  ASSUME job \in [Proc -> Job], NEW p \in Proc, Return(p)
  PROVE  /\ job' \in [Proc -> Job]
         /\ job'[p] = IdleJob
         /\ \A q \in Proc : q # p => job'[q] = job[q]
  BY IdleJobType DEF Return

LEMMA GotoEffect ==
  ASSUME job \in [Proc -> Job], NEW p \in Proc, NEW pc \in Pcs, Goto(p, pc)
  PROVE  /\ job' \in [Proc -> Job]
         /\ job'[p].pc = pc
         /\ job'[p].order = job[p].order
         /\ job'[p].amount = job[p].amount
         /\ job'[p].tx = job[p].tx
         /\ \A q \in Proc : q # p => job'[q] = job[q]
<1>1. [job[p] EXCEPT !.pc = pc] \in Job
  BY DEF Job
<1>2. QED
  BY <1>1 DEF Goto, Job

LEMMA BeginQueryEffect ==
  ASSUME job \in [Proc -> Job], NEW p \in Proc, NEW o \in Order, NEW e \in Nat,
         BeginQuery(p, o, e)
  PROVE  /\ job' \in [Proc -> Job]
         /\ job'[p].pc = "query" /\ job'[p].order = o /\ job'[p].tx = "NONE"
         /\ \A q \in Proc : q # p => job'[q] = job[q]
<1>1. [pc |-> "query", order |-> o, amount |-> 0, expireAt |-> e,
       tx |-> "NONE"] \in Job
  BY DEF Job, Pcs
<1>2. QED
  BY <1>1 DEF BeginQuery

LEMMA PaidEffect ==
  ASSUME row \in [Order -> Row], NEW o \in Order, MarkOrderPaid(o)
  PROVE  /\ row' \in [Order -> Row]
         /\ row'[o].status = "PAID"
         /\ row'[o].amount = row[o].amount
         /\ row'[o].reason \in {row[o].reason, ""}
         /\ \A x \in Order : x # o => row'[x] = row[x]
<1>1. [row[o] EXCEPT !.status = "PAID", !.reason = ""] \in Row
  BY DEF Row
<1>2. QED
  BY <1>1 DEF MarkOrderPaid, Row

LEMMA ClosedEffect ==
  ASSUME row \in [Order -> Row], NEW o \in Order,
         NEW why \in {"merchant", "expired", "upstream"},
         MarkOrderClosed(o, why)
  PROVE  /\ row' \in [Order -> Row]
         /\ row'[o].status = IF row[o].status = "PAID" THEN "PAID" ELSE "CLOSED"
         /\ row'[o].amount = row[o].amount
         /\ row'[o].reason \in {row[o].reason, why}
         /\ \A x \in Order : x # o => row'[x] = row[x]
<1>1. [row[o] EXCEPT !.status = "CLOSED", !.reason = why] \in Row
  BY DEF Row
<1>2. QED
  BY <1>1 DEF MarkOrderClosed, Row

\* An upstream call on one order: that order becomes w, the others stay.
LEMMA WxUpdate ==
  ASSUME wx \in [Order -> WxOrder], NEW o \in Order, NEW w \in WxOrder,
         wx' = [wx EXCEPT ![o] = w]
  PROVE  /\ wx' \in [Order -> WxOrder]
         /\ wx'[o] = w
         /\ \A x \in Order : x # o => wx'[x] = wx[x]
  OBVIOUS

LEMMA WxStateUpdate ==
  ASSUME wx \in [Order -> WxOrder], NEW o \in Order,
         NEW s \in {"NOTPAY", "SUCCESS", "CLOSED"},
         wx' = [wx EXCEPT ![o].state = s]
  PROVE  /\ wx' \in [Order -> WxOrder]
         /\ wx'[o].state = s
         /\ wx'[o].amount = wx[o].amount
         /\ \A x \in Order : x # o => wx'[x] = wx[x]
<1>1. [wx[o] EXCEPT !.state = s] \in WxOrder
  BY DEF WxOrder
<1>2. QED
  BY <1>1 DEF WxOrder

----------------------------------------------------------------------------
(* The inductive invariant.                                                *)

LEMMA InitInv == Init => IInv
<1> SUFFICES ASSUME Init PROVE IInv
  OBVIOUS
<1>1. PICK opened \in [Order -> Opened] :
        /\ row = [o \in Order |->
                    [status |-> IF opened[o] # 0 THEN "CREATED" ELSE "NONE",
                     amount |-> opened[o], createdAt |-> 0,
                     expireAt |-> IF opened[o] # 0 THEN Ttl ELSE 0,
                     reason |-> ""]]
        /\ wx = [o \in Order |->
                    [state |-> IF opened[o] # 0 THEN "NOTPAY" ELSE "NONE",
                     amount |-> opened[o],
                     deadline |-> IF opened[o] # 0 THEN Ttl ELSE 0]]
        /\ offered = {o \in Order : opened[o] # 0}
  BY DEF Init
<1>2. /\ now = 0 /\ notices = {} /\ config = [o \in Order |-> "enabled"]
      /\ job = [p \in Proc |-> IdleJob] /\ todo = [l \in Loop |-> {}]
  BY DEF Init
<1>3. Opened \subseteq Nat /\ Ttl \in Nat /\ MaxTime \in Nat
  BY PayOrderAssumption
<1>4. TypeOK
  <2>1. now \in Time
    BY <1>2, <1>3 DEF Time
  <2>2. row \in [Order -> Row]
    BY <1>1, <1>3 DEF Row
  <2>3. wx \in [Order -> WxOrder]
    BY <1>1, <1>3 DEF WxOrder
  <2>4. job \in [Proc -> Job]
    BY <1>2, IdleJobType
  <2>5. QED
    BY <1>1, <1>2, <2>1, <2>2, <2>3, <2>4 DEF TypeOK
<1>5. \A o \in Order : OrderInv(o)
  BY <1>1, <1>2 DEF OrderInv
<1>6. \A p \in Proc : JobInv(p)
  BY <1>2 DEF JobInv, RowPcs, IdleJob
<1>7. \A l \in Loop : TodoInv(l)
  BY <1>2 DEF TodoInv
<1>8. QED
  BY <1>4, <1>5, <1>6, <1>7 DEF IInv

\* What no step takes back: a charge, an upstream close, the amount WeChat Pay
\* was given, the existence of a row.
Grows(o) ==
  /\ wx[o].state = "SUCCESS" => wx'[o].state = "SUCCESS"
  /\ wx[o].state = "CLOSED" => wx'[o].state = "CLOSED"
  /\ wx[o].state # "NONE" =>
       wx'[o].state # "NONE" /\ wx'[o].amount = wx[o].amount
  /\ row[o].status # "NONE" => row'[o].status # "NONE"

OrdersKept == \A o \in Order : Grows(o) /\ OrderInv(o)'

TodoShrinks == \A l \in Loop : todo'[l] \subseteq todo[l]

Others(p) == \A q \in Proc : q # p => job'[q] = job[q]

\* A step that leaves the copy of goroutine q alone leaves it as good as it was.
LEMMA JobFrame ==
  ASSUME IInv, OrdersKept, NEW q \in Proc, job'[q] = job[q]
  PROVE  JobInv(q)'
  BY DEF IInv, OrdersKept, Grows, JobInv, RowPcs

LEMMA TodoFrame ==
  ASSUME IInv, OrdersKept, TodoShrinks
  PROVE  \A l \in Loop : TodoInv(l)'
<1> SUFFICES ASSUME NEW l \in Loop, NEW s \in todo'[l]
             PROVE  row'[s.order].status # "NONE"
  BY DEF TodoInv
<1>1. s \in todo[l] /\ todo[l] \subseteq Scanned
  BY DEF TodoShrinks, IInv, TypeOK
<1>2. s.order \in Order /\ row[s.order].status # "NONE"
  BY <1>1 DEF Scanned, IInv, TodoInv
<1>3. QED
  BY <1>2 DEF OrdersKept, Grows

LEMMA StepOfGoroutine ==
  ASSUME IInv, NEW p \in Proc, TypeOK', OrdersKept, TodoShrinks, Others(p),
         JobInv(p)'
  PROVE  IInv'
<1>1. \A q \in Proc : JobInv(q)'
  BY JobFrame DEF Others
<1>2. QED
  BY <1>1, TodoFrame DEF IInv, OrdersKept

LEMMA StepOfEnvironment ==
  ASSUME IInv, TypeOK', OrdersKept, UNCHANGED <<job, todo>>
  PROVE  IInv'
<1>1. \A q \in Proc : JobInv(q)'
  BY JobFrame
<1>2. QED
  BY <1>1, TodoFrame DEF IInv, OrdersKept, TodoShrinks

\* A step that writes neither the row nor the upstream order.
LEMMA OrdersUntouched ==
  ASSUME IInv, UNCHANGED <<row, wx, offered, notices>>
  PROVE  OrdersKept
  BY DEF IInv, OrdersKept, Grows, OrderInv

\* An idle goroutine relies on nothing.
LEMMA IdleInv ==
  ASSUME NEW p \in Proc, job'[p] = IdleJob
  PROVE  JobInv(p)'
  BY DEF JobInv, IdleJob, RowPcs

LEMMA ReturnInv ==
  ASSUME IInv, NEW p \in Proc, Return(p), OrdersKept, TodoShrinks,
         job' \in [Proc -> Job] => TypeOK'
  PROVE  IInv'
<1>1. job' \in [Proc -> Job] /\ job'[p] = IdleJob /\ Others(p)
  BY ReturnEffect DEF IInv, TypeOK, Others
<1>2. QED
  BY <1>1, IdleInv, StepOfGoroutine

\* The writes of the row.
LEMMA PaidInv ==
  ASSUME IInv, NEW o \in Order, MarkOrderPaid(o), wx[o].state = "SUCCESS",
         row[o].status # "NONE", UNCHANGED <<wx, offered, notices>>
  PROVE  row' \in [Order -> Row] /\ OrdersKept
<1>1. /\ row' \in [Order -> Row]
      /\ row'[o].status = "PAID"
      /\ row'[o].amount = row[o].amount
      /\ row'[o].reason \in {row[o].reason, ""}
      /\ \A x \in Order : x # o => row'[x] = row[x]
  BY PaidEffect DEF IInv, TypeOK
<1>2. ASSUME NEW x \in Order PROVE Grows(x) /\ OrderInv(x)'
  BY <1>1 DEF IInv, Grows, OrderInv
<1>3. QED
  BY <1>1, <1>2 DEF OrdersKept

LEMMA ClosedInv ==
  ASSUME IInv, NEW o \in Order, NEW why \in {"merchant", "expired", "upstream"},
         MarkOrderClosed(o, why), row[o].status # "NONE",
         why = "merchant" => wx[o].state = "CLOSED",
         UNCHANGED <<wx, offered, notices>>
  PROVE  row' \in [Order -> Row] /\ OrdersKept
<1>1. /\ row' \in [Order -> Row]
      /\ row'[o].status = IF row[o].status = "PAID" THEN "PAID" ELSE "CLOSED"
      /\ row'[o].amount = row[o].amount
      /\ row'[o].reason \in {row[o].reason, why}
      /\ \A x \in Order : x # o => row'[x] = row[x]
  BY ClosedEffect DEF IInv, TypeOK
<1>2. ASSUME NEW x \in Order PROVE Grows(x) /\ OrderInv(x)'
  BY <1>1 DEF IInv, Grows, OrderInv
<1>3. QED
  BY <1>1, <1>2 DEF OrdersKept

\* The upstream close, whether it took effect or not.
LEMMA UpstreamCloseInv ==
  ASSUME IInv, NEW o \in Order, UpstreamClosed(o) \/ UNCHANGED wx,
         UNCHANGED <<row, offered, notices>>
  PROVE  wx' \in [Order -> WxOrder] /\ OrdersKept
<1>1. CASE UNCHANGED wx
  BY <1>1, OrdersUntouched DEF IInv, TypeOK
<1>2. CASE UpstreamClosed(o)
  <2>1. /\ wx' \in [Order -> WxOrder]
        /\ wx'[o].state = "CLOSED" /\ wx'[o].amount = wx[o].amount
        /\ \A x \in Order : x # o => wx'[x] = wx[x]
    BY <1>2, WxStateUpdate DEF UpstreamClosed, IInv, TypeOK
  <2>2. wx[o].state = "NOTPAY"
    BY <1>2 DEF UpstreamClosed
  <2>3. ASSUME NEW x \in Order PROVE Grows(x) /\ OrderInv(x)'
    BY <2>1, <2>2 DEF IInv, Grows, OrderInv
  <2>4. QED
    BY <2>1, <2>3 DEF OrdersKept
<1>3. QED
  BY <1>1, <1>2

----------------------------------------------------------------------------
(* The steps of CreateJSAPIPayment.                                        *)

LEMMA CreateReadInv ==
  ASSUME IInv, NEW p \in Proc, NEW o \in Order, NEW a \in Amounts,
         CreateRead(p, o, a)
  PROVE  IInv'
<1> DEFINE j == [pc |-> IF row[o].status = "NONE" THEN "prepay_new"
                                                  ELSE "prepay_reuse",
                 order |-> o, amount |-> a, expireAt |-> now + Ttl,
                 tx |-> "NONE"]
<1>1. now + Ttl \in Nat /\ a \in Nat
  BY PayOrderAssumption DEF IInv, TypeOK, Time
<1>2. j \in Job
  BY <1>1 DEF Job, Pcs
<1>3. job' = [job EXCEPT ![p] = j]
  BY DEF CreateRead
<1> HIDE DEF j
<1>4. job' \in [Proc -> Job] /\ job'[p] = j /\ Others(p)
  BY <1>2, <1>3 DEF IInv, TypeOK, Others
<1>5. TypeOK' /\ OrdersKept
  BY <1>4, OrdersUntouched DEF CreateRead, IInv, TypeOK, Time
<1>6. JobInv(p)'
  BY <1>4 DEF j, JobInv, CreateRead, RowPcs
<1>7. QED
  BY <1>4, <1>5, <1>6, StepOfGoroutine DEF CreateRead, TodoShrinks

LEMMA PrepayAcceptedInv ==
  ASSUME IInv, NEW p \in Proc, PrepayAccepted(p)
  PROVE  IInv'
<1> DEFINE o == job[p].order
           w == [state |-> "NOTPAY", amount |-> job[p].amount,
                 deadline |-> job[p].expireAt]
<1>1. o \in Order /\ job[p] \in Job /\ JobInv(p)
  BY DEF PrepayAccepted, IInv, TypeOK, JobInv
<1>2. w \in WxOrder
  BY <1>1 DEF Job, WxOrder
<1>3. /\ wx' \in [Order -> WxOrder]
      /\ wx'[o] = w
      /\ \A x \in Order : x # o => wx'[x] = wx[x]
  BY <1>1, <1>2, WxUpdate DEF PrepayAccepted, IInv, TypeOK
<1>4. \/ wx[o].state = "NONE" /\ row[o].status = "NONE"
      \/ wx[o].state = "NOTPAY" /\ wx[o].amount = job[p].amount
  BY <1>1 DEF PrepayAccepted, IInv, OrderInv
<1>5. OrdersKept
  <2>1. ASSUME NEW x \in Order PROVE Grows(x) /\ OrderInv(x)'
    BY <1>3, <1>4 DEF PrepayAccepted, IInv, Grows, OrderInv
  <2>2. QED
    BY <2>1 DEF OrdersKept
<1>6. /\ job' \in [Proc -> Job]
      /\ job'[p].pc = IF At(p, "prepay_new") THEN "insert" ELSE "extend"
      /\ job'[p].order = o /\ job'[p].amount = job[p].amount
      /\ job'[p].tx = job[p].tx
      /\ Others(p)
  BY GotoEffect DEF PrepayAccepted, IInv, TypeOK, Pcs, Others
<1>7. TypeOK'
  BY <1>3, <1>6 DEF PrepayAccepted, IInv, TypeOK, Time
<1>8. JobInv(p)'
  <2>1. job[p].pc \in {"prepay_new", "prepay_reuse"}
    BY DEF PrepayAccepted
  <2>2. job[p].tx = "SUCCESS" => wx[o].state = "SUCCESS"
    BY <1>1 DEF JobInv
  <2>3. wx'[o].state = "NOTPAY" /\ wx'[o].amount = job[p].amount
    BY <1>3
  <2>4. job[p].pc = "prepay_reuse" => row'[o].status # "NONE"
    BY <1>1 DEF JobInv, RowPcs, PrepayAccepted
  <2>5. QED
    BY <1>1, <1>4, <1>6, <2>1, <2>2, <2>3, <2>4 DEF JobInv, RowPcs, At
<1>9. QED
  BY <1>5, <1>6, <1>7, <1>8, StepOfGoroutine DEF PrepayAccepted, TodoShrinks

LEMMA InsertOrderInv ==
  ASSUME IInv, NEW p \in Proc, InsertOrder(p)
  PROVE  IInv'
<1> DEFINE o == job[p].order
           r == [status |-> "CREATED", amount |-> job[p].amount,
                 createdAt |-> now, expireAt |-> job[p].expireAt, reason |-> ""]
<1>1. o \in Order /\ job[p] \in Job /\ JobInv(p)
  BY DEF InsertOrder, At, IInv, TypeOK, JobInv
<1>2. r \in Row
  <2>1. now \in Nat
    BY TimeIsNat DEF IInv, TypeOK
  <2>2. QED
    BY <1>1, <2>1 DEF Job, Row
<1>3. /\ wx[o].state # "NONE" /\ wx[o].amount = job[p].amount
      /\ UNCHANGED <<wx, notices>>
  BY <1>1 DEF JobInv, InsertOrder, At
<1>4. row' \in [Order -> Row] /\ offered' \subseteq Order /\ OrdersKept
  <2>1. CASE row[o].status = "NONE"
    <3>1. row' = [row EXCEPT ![o] = r] /\ offered' = offered \cup {o}
      BY <2>1 DEF InsertOrder
    <3> HIDE DEF r
    <3>2. /\ row' \in [Order -> Row]
          /\ row'[o] = r
          /\ \A x \in Order : x # o => row'[x] = row[x]
      BY <1>1, <1>2, <3>1 DEF IInv, TypeOK
    <3>3. ASSUME NEW x \in Order PROVE Grows(x) /\ OrderInv(x)'
      BY <1>1, <1>3, <2>1, <3>1, <3>2 DEF r, IInv, Grows, OrderInv
    <3>4. QED
      BY <1>1, <3>1, <3>2, <3>3 DEF OrdersKept, IInv, TypeOK
  <2>2. CASE row[o].status # "NONE"
    BY <1>3, <2>2, OrdersUntouched DEF InsertOrder, IInv, TypeOK
  <2>3. QED
    BY <2>1, <2>2
<1>5. job' \in [Proc -> Job] => TypeOK'
  BY <1>4 DEF InsertOrder, IInv, TypeOK
<1>6. QED
  BY <1>4, <1>5, ReturnInv DEF InsertOrder, TodoShrinks

LEMMA ExtendOrderInv ==
  ASSUME IInv, NEW p \in Proc, ExtendOrder(p)
  PROVE  IInv'
<1> DEFINE o == job[p].order
           r == [row[o] EXCEPT !.expireAt = job[p].expireAt]
<1>1. o \in Order /\ job[p] \in Job /\ row[o].status # "NONE"
  BY DEF ExtendOrder, At, IInv, TypeOK, JobInv, RowPcs
<1>2. /\ r \in Row /\ r.status = row[o].status /\ r.amount = row[o].amount
      /\ r.reason = row[o].reason
  <2>1. row[o] \in Row /\ job[p].expireAt \in Nat
    BY <1>1 DEF Job, IInv, TypeOK
  <2>2. QED
    BY <2>1 DEF Row
<1>3. row' = [row EXCEPT ![o] = r] /\ offered' = offered \cup {o}
  BY DEF ExtendOrder
<1> HIDE DEF r
<1>4. /\ row' \in [Order -> Row]
      /\ row'[o] = r
      /\ \A x \in Order : x # o => row'[x] = row[x]
  BY <1>1, <1>2, <1>3 DEF IInv, TypeOK
<1>5. OrdersKept
  <2>1. ASSUME NEW x \in Order PROVE Grows(x) /\ OrderInv(x)'
    BY <1>1, <1>2, <1>3, <1>4 DEF ExtendOrder, IInv, Grows, OrderInv
  <2>2. QED
    BY <2>1 DEF OrdersKept
<1>6. job' \in [Proc -> Job] => TypeOK'
  BY <1>1, <1>3, <1>4 DEF ExtendOrder, IInv, TypeOK
<1>7. QED
  BY <1>5, <1>6, ReturnInv DEF ExtendOrder, TodoShrinks

----------------------------------------------------------------------------
(* The steps of SyncOrderStatus, ClosePayOrder and the loop.               *)

\* A step that only moves goroutine p, to a job it may rely on.
LEMMA JobOnly ==
  ASSUME IInv, NEW p \in Proc,
         UNCHANGED <<now, row, wx, offered, notices, config>>,
         todo' \in [Loop -> SUBSET Scanned], TodoShrinks,
         job' \in [Proc -> Job], Others(p), JobInv(p)'
  PROVE  IInv'
<1>1. TypeOK'
  BY DEF IInv, TypeOK
<1>2. QED
  BY <1>1, OrdersUntouched, StepOfGoroutine

LEMMA BeginQueryInv ==
  ASSUME IInv, NEW p \in Proc, NEW o \in Order, NEW e \in Nat,
         BeginQuery(p, o, e), row[o].status # "NONE",
         UNCHANGED <<now, row, wx, offered, notices, config>>,
         todo' \in [Loop -> SUBSET Scanned], TodoShrinks
  PROVE  IInv'
<1>1. /\ job' \in [Proc -> Job]
      /\ job'[p].pc = "query" /\ job'[p].order = o /\ job'[p].tx = "NONE"
      /\ Others(p)
  BY BeginQueryEffect DEF IInv, TypeOK, Others
<1>2. JobInv(p)'
  BY <1>1 DEF JobInv, RowPcs
<1>3. QED
  BY <1>1, <1>2, JobOnly

LEMMA SyncReadInv ==
  ASSUME IInv, NEW p \in Proc, NEW o \in Order, SyncRead(p, o)
  PROVE  IInv'
<1>1. row[o] \in Row
  BY DEF IInv, TypeOK
<1>2. row[o].expireAt \in Nat
  BY <1>1 DEF Row
<1>3. /\ UNCHANGED <<now, row, wx, offered, notices, config>>
      /\ todo' \in [Loop -> SUBSET Scanned] /\ TodoShrinks
      /\ row[o].status # "NONE"
      /\ BeginQuery(p, o, row[o].expireAt)
  BY DEF SyncRead, IInv, TypeOK, TodoShrinks
<1>4. QED
  BY <1>2, <1>3, BeginQueryInv

LEMMA CloseReadInv ==
  ASSUME IInv, NEW p \in Proc, NEW o \in Order, CloseRead(p, o)
  PROVE  IInv'
<1> DEFINE j == [IdleJob EXCEPT !.pc = "close", !.order = o]
<1>1. /\ j \in Job /\ j.pc = "close" /\ j.order = o /\ j.tx = "NONE"
  BY DEF IdleJob, Job, Pcs
<1>2. job' = [job EXCEPT ![p] = j]
  BY DEF CloseRead
<1> HIDE DEF j
<1>3. job' \in [Proc -> Job] /\ job'[p] = j /\ Others(p)
  BY <1>1, <1>2 DEF IInv, TypeOK, Others
<1>4. JobInv(p)'
  BY <1>1, <1>3 DEF CloseRead, JobInv, RowPcs
<1>5. QED
  BY <1>3, <1>4, JobOnly DEF CloseRead, IInv, TypeOK, TodoShrinks

\* The upstream call of p failed, or p stopped.
LEMMA GiveUpInv ==
  ASSUME IInv, NEW p \in Proc, Return(p),
         UNCHANGED <<now, row, wx, offered, notices, config>>,
         todo' \in [Loop -> SUBSET Scanned], TodoShrinks
  PROVE  IInv'
<1>1. job' \in [Proc -> Job] /\ job'[p] = IdleJob /\ Others(p)
  BY ReturnEffect DEF IInv, TypeOK, Others
<1>2. QED
  BY <1>1, IdleInv, JobOnly

\* p goes from one step of its plan to the next, the row it relies on exists.
LEMMA GotoInv ==
  ASSUME IInv, NEW p \in Proc, NEW pc \in RowPcs \ {"mark_merchant"},
         Goto(p, pc), job[p].pc \in RowPcs,
         UNCHANGED <<now, row, offered, notices, config, todo>>,
         wx' \in [Order -> WxOrder], OrdersKept
  PROVE  IInv'
<1>1. pc \in Pcs
  BY DEF RowPcs, Pcs
<1>2. /\ job' \in [Proc -> Job] /\ job'[p].pc = pc
      /\ job'[p].order = job[p].order /\ job'[p].tx = job[p].tx
      /\ Others(p)
  BY <1>1, GotoEffect DEF IInv, TypeOK, Others
<1>3. TypeOK'
  BY <1>2 DEF IInv, TypeOK
<1>4. JobInv(p)'
  BY <1>2 DEF IInv, JobInv, OrdersKept, Grows, RowPcs
<1>5. QED
  BY <1>2, <1>3, <1>4, StepOfGoroutine DEF TodoShrinks

LEMMA CloseUpstreamInv ==
  ASSUME IInv, NEW p \in Proc, CloseUpstream(p)
  PROVE  IInv'
<1> DEFINE o == job[p].order
<1>1. o \in Order /\ row[o].status # "NONE" /\ job[p].pc = "close"
  BY DEF CloseUpstream, At, IInv, JobInv, RowPcs
<1>2. wx' \in [Order -> WxOrder] /\ OrdersKept
  BY <1>1, UpstreamCloseInv DEF CloseUpstream
<1>3. wx'[o].state = "CLOSED"
  <2>1. CASE UpstreamClosed(o)
    BY <1>1, <2>1, WxStateUpdate DEF UpstreamClosed, IInv, TypeOK
  <2>2. CASE wx[o].state = "CLOSED" /\ UNCHANGED wx
    BY <2>2
  <2>3. QED
    BY <2>1, <2>2 DEF CloseUpstream
<1>4. /\ job' \in [Proc -> Job] /\ job'[p].pc = "mark_merchant"
      /\ job'[p].order = o /\ job'[p].tx = job[p].tx
      /\ Others(p)
  BY GotoEffect DEF CloseUpstream, IInv, TypeOK, Others, Pcs
<1>5. TypeOK'
  BY <1>2, <1>4 DEF CloseUpstream, IInv, TypeOK
<1>6. JobInv(p)'
  BY <1>1, <1>2, <1>3, <1>4 DEF IInv, JobInv, OrdersKept, Grows, RowPcs
<1>7. QED
  BY <1>2, <1>4, <1>5, <1>6, StepOfGoroutine DEF CloseUpstream, TodoShrinks

LEMMA MarkClosedInv ==
  ASSUME IInv, NEW p \in Proc, MarkMerchant(p) \/ MarkExpired(p)
                                             \/ ApplyClosed(p)
  PROVE  IInv'
<1> DEFINE o == job[p].order
<1>1. /\ o \in Order /\ row[o].status # "NONE"
      /\ MarkMerchant(p) => wx[o].state = "CLOSED"
  BY DEF MarkMerchant, MarkExpired, ApplyClosed, At, IInv, JobInv, RowPcs
<1>2. PICK why \in {"merchant", "expired", "upstream"} :
        /\ MarkOrderClosed(o, why)
        /\ why = "merchant" => wx[o].state = "CLOSED"
  BY <1>1 DEF MarkMerchant, MarkExpired, ApplyClosed
<1>3. Return(p) /\ UNCHANGED <<now, wx, offered, notices, config, todo>>
  BY DEF MarkMerchant, MarkExpired, ApplyClosed
<1>4. row' \in [Order -> Row] /\ OrdersKept
  BY <1>1, <1>2, <1>3, ClosedInv
<1>5. job' \in [Proc -> Job] => TypeOK'
  BY <1>3, <1>4 DEF IInv, TypeOK
<1>6. QED
  BY <1>3, <1>4, <1>5, ReturnInv DEF TodoShrinks

LEMMA LoopScanInv ==
  ASSUME IInv, NEW l \in Loop, LoopScan(l)
  PROVE  IInv'
<1>1. PICK B \in SUBSET Stale : todo' = [todo EXCEPT ![l] =
            {[order |-> o, expireAt |-> row[o].expireAt] : o \in B}]
  BY DEF LoopScan
<1>2. \A o \in B : [order |-> o, expireAt |-> row[o].expireAt] \in Scanned
  <2>1. \A o \in B : o \in Order /\ row[o] \in Row
    BY DEF Stale, IInv, TypeOK
  <2>2. \A o \in B : row[o].expireAt \in Nat
    BY <2>1 DEF Row
  <2>3. QED
    BY <2>1, <2>2 DEF Scanned
<1>3. todo' \in [Loop -> SUBSET Scanned]
  BY <1>1, <1>2 DEF IInv, TypeOK
<1>4. UNCHANGED <<now, row, wx, offered, notices, config, job>>
  BY DEF LoopScan
<1>5. TypeOK' /\ OrdersKept
  BY <1>3, <1>4, OrdersUntouched DEF IInv, TypeOK
<1>6. \A k \in Loop : TodoInv(k)'
  <2> SUFFICES ASSUME NEW k \in Loop, NEW s \in todo'[k]
               PROVE  row'[s.order].status # "NONE"
    BY DEF TodoInv
  <2>1. CASE k = l
    <3>1. PICK o \in B : s = [order |-> o, expireAt |-> row[o].expireAt]
      BY <1>1, <2>1 DEF IInv, TypeOK
    <3>2. row[o].status = "CREATED"
      BY DEF Stale
    <3>3. QED
      BY <1>4, <3>1, <3>2
  <2>2. CASE k # l
    BY <1>1, <1>4, <2>2 DEF IInv, TypeOK, TodoInv
  <2>3. QED
    BY <2>1, <2>2
<1>7. \A q \in Proc : JobInv(q)'
  BY <1>4, <1>5, JobFrame
<1>8. QED
  BY <1>5, <1>6, <1>7 DEF IInv, OrdersKept

\* l queries the order it took, or skips it.
LEMMA LoopTakeInv ==
  ASSUME IInv, NEW l \in Loop, NEW s \in todo[l], LoopTake(l, s)
  PROVE  IInv'
<1>1. s \in Scanned /\ row[s.order].status # "NONE"
  BY DEF IInv, TypeOK, TodoInv
<1>2. s.order \in Order /\ s.expireAt \in Nat
  BY <1>1 DEF Scanned
<1>3. UNCHANGED <<now, row, wx, offered, notices, config>>
  BY DEF LoopTake
<1>4. todo' \in [Loop -> SUBSET Scanned] /\ TodoShrinks
  BY DEF LoopTake, IInv, TypeOK, TodoShrinks
<1>5. l \in Proc
  BY DEF Proc
<1>6. CASE UNCHANGED job
  <2>1. TypeOK' /\ OrdersKept
    BY <1>3, <1>4, <1>6, OrdersUntouched DEF IInv, TypeOK
  <2>2. JobInv(l)' /\ Others(l)
    BY <1>5, <1>6, <2>1, JobFrame DEF Others
  <2>3. QED
    BY <1>4, <1>5, <2>1, <2>2, StepOfGoroutine
<1>7. CASE BeginQuery(l, s.order, s.expireAt)
  BY <1>1, <1>2, <1>3, <1>4, <1>5, <1>7, BeginQueryInv
<1>8. QED
  BY <1>6, <1>7 DEF LoopTake

LEMMA QueryAnswersInv ==
  ASSUME IInv, NEW p \in Proc, QueryAnswers(p)
  PROVE  IInv'
<1> DEFINE o == job[p].order
           j == [job[p] EXCEPT !.pc = "apply", !.tx = wx[o].state]
<1>1. o \in Order /\ row[o].status # "NONE" /\ job[p] \in Job
  BY DEF QueryAnswers, At, IInv, TypeOK, JobInv, RowPcs
<1>2. wx[o].state \in {"NONE", "NOTPAY", "SUCCESS", "CLOSED"}
  <2>1. wx[o] \in WxOrder
    BY <1>1 DEF IInv, TypeOK
  <2>2. QED
    BY <2>1 DEF WxOrder
<1>3. j \in Job /\ j.pc = "apply" /\ j.order = o /\ j.tx = wx[o].state
  BY <1>1, <1>2 DEF Job, Pcs
<1>4. job' = [job EXCEPT ![p] = j]
  BY DEF QueryAnswers
<1> HIDE DEF j
<1>5. job' \in [Proc -> Job] /\ job'[p] = j /\ Others(p)
  BY <1>3, <1>4 DEF IInv, TypeOK, Others
<1>6. JobInv(p)'
  BY <1>1, <1>3, <1>5 DEF QueryAnswers, JobInv, RowPcs
<1>7. QED
  BY <1>5, <1>6, JobOnly DEF QueryAnswers, IInv, TypeOK, TodoShrinks

LEMMA ApplySuccessInv ==
  ASSUME IInv, NEW p \in Proc, ApplySuccess(p)
  PROVE  IInv'
<1> DEFINE o == job[p].order
<1>1. o \in Order /\ row[o].status # "NONE" /\ wx[o].state = "SUCCESS"
  BY DEF ApplySuccess, At, IInv, JobInv, RowPcs
<1>2. MarkOrderPaid(o) /\ Return(p)
      /\ UNCHANGED <<now, wx, offered, notices, config, todo>>
  BY DEF ApplySuccess
<1>3. row' \in [Order -> Row] /\ OrdersKept
  BY <1>1, <1>2, PaidInv
<1>4. job' \in [Proc -> Job] => TypeOK'
  BY <1>2, <1>3 DEF IInv, TypeOK
<1>5. QED
  BY <1>2, <1>3, <1>4, ReturnInv DEF TodoShrinks

LEMMA CloseIfExpiredInv ==
  ASSUME IInv, NEW p \in Proc, ApplyUnpaid(p) \/ ApplyWriteFails(p)
  PROVE  IInv'
<1>1. /\ CloseIfExpired(p) /\ job[p].pc = "apply"
      /\ UNCHANGED <<now, row, wx, offered, notices, config, todo>>
  BY DEF ApplyUnpaid, ApplyWriteFails, At
<1>2. CASE Goto(p, "close_expired")
  <2>1. OrdersKept /\ wx' \in [Order -> WxOrder]
    BY <1>1, OrdersUntouched DEF IInv, TypeOK
  <2>2. QED
    BY <1>1, <1>2, <2>1, GotoInv DEF RowPcs
<1>3. CASE Return(p)
  BY <1>1, <1>3, GiveUpInv DEF IInv, TypeOK, TodoShrinks
<1>4. QED
  BY <1>1, <1>2, <1>3 DEF CloseIfExpired

LEMMA CloseExpiredInv ==
  ASSUME IInv, NEW p \in Proc, CloseExpired(p)
  PROVE  IInv'
<1>1. /\ job[p].order \in Order /\ job[p].pc \in RowPcs
      /\ UpstreamClosed(job[p].order) \/ UNCHANGED wx
      /\ Goto(p, "mark_expired")
      /\ UNCHANGED <<now, row, offered, notices, config, todo>>
  BY DEF CloseExpired, At, IInv, JobInv, RowPcs
<1>2. wx' \in [Order -> WxOrder] /\ OrdersKept
  BY <1>1, UpstreamCloseInv
<1>3. QED
  BY <1>1, <1>2, GotoInv DEF RowPcs

----------------------------------------------------------------------------
(* Notifications, the payer, the operator, the clock and crashes.          *)

LEMMA HandlePayNotifyInv ==
  ASSUME IInv, NEW o \in Order, HandlePayNotify(o)
  PROVE  IInv'
<1>1. wx[o].state = "SUCCESS" /\ row[o].status # "NONE" /\ MarkOrderPaid(o)
      /\ UNCHANGED <<now, wx, offered, notices, config, job, todo>>
  BY DEF HandlePayNotify, IInv, OrderInv
<1>2. row' \in [Order -> Row] /\ OrdersKept
  BY <1>1, PaidInv
<1>3. TypeOK'
  BY <1>1, <1>2 DEF IInv, TypeOK
<1>4. QED
  BY <1>1, <1>2, <1>3, StepOfEnvironment

LEMMA LoseNoticesInv ==
  ASSUME IInv, NEW o \in Order, LoseNotices(o)
  PROVE  IInv'
<1>1. notices' \subseteq notices
      /\ UNCHANGED <<now, row, wx, offered, config, job, todo>>
  BY DEF LoseNotices
<1>2. TypeOK' /\ OrdersKept
  BY <1>1 DEF IInv, TypeOK, OrdersKept, Grows, OrderInv
<1>3. QED
  BY <1>1, <1>2, StepOfEnvironment

LEMMA UserPaysInv ==
  ASSUME IInv, NEW o \in Order, UserPays(o)
  PROVE  IInv'
<1>1. /\ wx[o].state = "NOTPAY" /\ o \in offered
      /\ notices' = notices \cup {o}
      /\ UNCHANGED <<now, row, offered, config, job, todo>>
  BY DEF UserPays
<1>2. /\ wx' \in [Order -> WxOrder]
      /\ wx'[o].state = "SUCCESS" /\ wx'[o].amount = wx[o].amount
      /\ \A x \in Order : x # o => wx'[x] = wx[x]
  BY WxStateUpdate DEF UserPays, IInv, TypeOK
<1>3. ASSUME NEW x \in Order PROVE Grows(x) /\ OrderInv(x)'
  BY <1>1, <1>2 DEF IInv, Grows, OrderInv
<1>4. TypeOK' /\ OrdersKept
  BY <1>1, <1>2, <1>3 DEF IInv, TypeOK, OrdersKept
<1>5. QED
  BY <1>1, <1>4, StepOfEnvironment

\* The configuration and the clock change nothing an order's invariant reads.
LEMMA OutsideInv ==
  ASSUME IInv, now' \in Time,
         config' \in [Order -> {"enabled", "disabled", "deleted"}],
         UNCHANGED <<row, wx, offered, notices, job, todo>>
  PROVE  IInv'
<1>1. TypeOK' /\ OrdersKept
  BY OrdersUntouched DEF IInv, TypeOK
<1>2. QED
  BY <1>1, StepOfEnvironment

LEMMA TickInv ==
  ASSUME IInv, Tick
  PROVE  IInv'
<1>1. MaxTime \in Nat
  BY PayOrderAssumption
<1>2. now' \in Time
  BY <1>1 DEF Tick, IInv, TypeOK, Time
<1>3. QED
  BY <1>2, OutsideInv DEF Tick, IInv, TypeOK

LEMMA CrashInv ==
  ASSUME IInv, NEW p \in Proc, Crash(p)
  PROVE  IInv'
<1>1. todo' \in [Loop -> SUBSET Scanned] /\ TodoShrinks
  BY DEF Crash, IInv, TypeOK, TodoShrinks
<1>2. QED
  BY <1>1, GiveUpInv DEF Crash

LEMMA NextInv == IInv /\ [Next]_vars => IInv'
<1> SUFFICES ASSUME IInv, [Next]_vars PROVE IInv'
  OBVIOUS
<1> USE DEF Proc
<1>1. CASE \E p \in Request, o \in Order :
             (\E a \in Amounts : CreateRead(p, o, a)) \/ SyncRead(p, o)
                                                      \/ CloseRead(p, o)
  BY <1>1, CreateReadInv, SyncReadInv, CloseReadInv
<1>2. ASSUME NEW p \in Request,
             \/ PrepayAccepted(p) \/ PrepayFails(p) \/ InsertOrder(p)
             \/ ExtendOrder(p)
             \/ CloseUpstream(p) \/ CloseFails(p) \/ MarkMerchant(p)
      PROVE  IInv'
  <2>1. p \in Proc
    OBVIOUS
  <2>2. CASE PrepayFails(p) \/ CloseFails(p)
    <3>1. /\ Return(p) /\ TodoShrinks /\ todo' \in [Loop -> SUBSET Scanned]
          /\ UNCHANGED <<now, row, wx, offered, notices, config>>
      BY <2>2 DEF PrepayFails, CloseFails, TodoShrinks, IInv, TypeOK
    <3>2. QED
      BY <2>1, <3>1, GiveUpInv
  <2>3. QED
    BY <1>2, <2>1, <2>2, PrepayAcceptedInv, InsertOrderInv, ExtendOrderInv,
       CloseUpstreamInv, MarkClosedInv
<1>3. CASE \E l \in Loop : LoopScan(l) \/ (\E s \in todo[l] : LoopTake(l, s))
  BY <1>3, LoopScanInv, LoopTakeInv
<1>4. ASSUME NEW p \in Proc, Reconcile(p) \/ Crash(p)
      PROVE  IInv'
  <2>1. CASE QueryFails(p)
    <3>1. /\ Return(p) /\ TodoShrinks /\ todo' \in [Loop -> SUBSET Scanned]
          /\ UNCHANGED <<now, row, wx, offered, notices, config>>
      BY <2>1 DEF QueryFails, TodoShrinks, IInv, TypeOK
    <3>2. QED
      BY <3>1, GiveUpInv
  <2>2. QED
    BY <1>4, <2>1, CrashInv, QueryAnswersInv, ApplySuccessInv, MarkClosedInv,
       CloseIfExpiredInv, CloseExpiredInv DEF Reconcile
<1>5. ASSUME NEW o \in Order,
             \/ HandlePayNotify(o) \/ LoseNotices(o) \/ UserPays(o)
             \/ \E c \in Configs : SetConfig(o, c)
      PROVE  IInv'
  <2>1. ASSUME NEW c \in Configs, SetConfig(o, c)
        PROVE  IInv'
    BY <2>1, OutsideInv, PayOrderAssumption DEF SetConfig, IInv, TypeOK
  <2>2. QED
    BY <1>5, <2>1, HandlePayNotifyInv, LoseNoticesInv, UserPaysInv
<1>6. CASE UNCHANGED vars
  BY <1>6, OutsideInv DEF vars, IInv, TypeOK
<1>7. QED
  BY <1>1, <1>2, <1>3, <1>4, <1>5, <1>6, TickInv DEF Next

\* Every reachable state is well typed and every goroutine's copy of the order
\* it works on still implies what its next write relies on.
THEOREM InductiveInvariant == Spec => []IInv
  BY InitInv, NextInv, PTL DEF Spec

\* Every variable of the payment-order model keeps its type: statuses and
\* close reasons written by the handlers are those of model.go.
THEOREM TypeCorrect == Spec => []TypeOK
<1>1. IInv => TypeOK
  BY DEF IInv
<1>2. QED
  BY <1>1, InductiveInvariant, PTL

\* CreateJSAPIPayment hands out payment parameters only for an order it has
\* written with the amount WeChat Pay was given, so a charge is always booked.
THEOREM ChargesAreBooked == Spec => []ChargeIsBooked
<1>1. IInv => ChargeIsBooked
  BY DEF IInv, OrderInv, ChargeIsBooked
<1>2. QED
  BY <1>1, InductiveInvariant, PTL

\* ClosePayOrder writes CLOSED only once WeChat Pay refuses further payment,
\* however many goroutines write the row meanwhile.
THEOREM MerchantClosesStick == Spec => []MerchantCloseSticks
<1>1. IInv => MerchantCloseSticks
  BY DEF IInv, OrderInv, MerchantCloseSticks
<1>2. QED
  BY <1>1, InductiveInvariant, PTL

----------------------------------------------------------------------------
(* PayOrder implements PayLedger.                                          *)

Status == [o \in Order |-> row[o].status]

Charged == [o \in Order |-> wx[o].state = "SUCCESS"]

\* A step that changes the status of one order at most.
LEMMA StatusStep ==
  ASSUME NEW o \in Order, \A x \in Order : x # o => row'[x] = row[x]
  PROVE  Status' = [Status EXCEPT ![o] = row'[o].status]
  BY DEF Status

LEMMA ChargedKept ==
  ASSUME \A o \in Order : wx'[o].state = "SUCCESS" <=> wx[o].state = "SUCCESS"
  PROVE  Charged' = Charged
  BY DEF Charged

LEMMA PaidRefines ==
  ASSUME IInv, NEW o \in Order, MarkOrderPaid(o), wx[o].state = "SUCCESS",
         row[o].status # "NONE", UNCHANGED wx
  PROVE  Ledger!Settle(o) \/ UNCHANGED <<Status, Charged>>
<1>1. /\ row'[o].status = "PAID"
      /\ \A x \in Order : x # o => row'[x] = row[x]
  BY PaidEffect DEF IInv, TypeOK
<1>2. Status' = [Status EXCEPT ![o] = "PAID"] /\ Charged' = Charged
  BY <1>1, StatusStep, ChargedKept
<1>3. row[o].status \in {"CREATED", "PAID", "CLOSED"}
  <2>1. row[o] \in Row
    BY DEF IInv, TypeOK
  <2>2. QED
    BY <2>1 DEF Row
<1>4. CASE row[o].status = "PAID"
  BY <1>2, <1>4 DEF Status
<1>5. CASE row[o].status \in {"CREATED", "CLOSED"}
  BY <1>2, <1>5 DEF Ledger!Settle, Status, Charged
<1>6. QED
  BY <1>3, <1>4, <1>5

LEMMA ClosedRefines ==
  ASSUME IInv, NEW o \in Order, NEW why \in {"merchant", "expired", "upstream"},
         MarkOrderClosed(o, why), row[o].status # "NONE", UNCHANGED wx
  PROVE  Ledger!Close(o) \/ UNCHANGED <<Status, Charged>>
<1>1. /\ row'[o].status = IF row[o].status = "PAID" THEN "PAID" ELSE "CLOSED"
      /\ \A x \in Order : x # o => row'[x] = row[x]
  BY ClosedEffect DEF IInv, TypeOK
<1>2. Status' = [Status EXCEPT ![o] = row'[o].status] /\ Charged' = Charged
  BY <1>1, StatusStep, ChargedKept
<1>3. row[o].status \in {"CREATED", "PAID", "CLOSED"}
  <2>1. row[o] \in Row
    BY DEF IInv, TypeOK
  <2>2. QED
    BY <2>1 DEF Row
<1>4. CASE row[o].status \in {"PAID", "CLOSED"}
  BY <1>1, <1>2, <1>4 DEF Status
<1>5. CASE row[o].status = "CREATED"
  BY <1>1, <1>2, <1>5 DEF Ledger!Close, Status, Charged
<1>6. QED
  BY <1>3, <1>4, <1>5

LEMMA InsertRefines ==
  ASSUME IInv, NEW p \in Proc, InsertOrder(p), NEW o \in Order,
         o = job[p].order
  PROVE  Ledger!Open(o) \/ UNCHANGED <<Status, Charged>>
<1>1. o \in Order
  OBVIOUS
<1>2. Charged' = Charged
  BY ChargedKept DEF InsertOrder
<1>3. CASE row[o].status # "NONE"
  BY <1>2, <1>3 DEF InsertOrder, Status
<1>4. CASE row[o].status = "NONE"
  <2> DEFINE r == [status |-> "CREATED", amount |-> job[p].amount,
                   createdAt |-> now, expireAt |-> job[p].expireAt,
                   reason |-> ""]
  <2>0. row' = [row EXCEPT ![o] = r] /\ r.status = "CREATED"
    BY <1>4 DEF InsertOrder
  <2> HIDE DEF r
  <2>1. /\ row'[o].status = "CREATED"
        /\ \A x \in Order : x # o => row'[x] = row[x]
    BY <1>1, <2>0 DEF IInv, TypeOK
  <2>2. Status' = [Status EXCEPT ![o] = "CREATED"]
    BY <1>1, <2>1, StatusStep
  <2>3. QED
    BY <1>1, <1>2, <1>4, <2>2 DEF Ledger!Open, Status, Charged
<1>5. QED
  BY <1>3, <1>4

LEMMA ExtendRefines ==
  ASSUME IInv, NEW p \in Proc, ExtendOrder(p)
  PROVE  UNCHANGED <<Status, Charged>>
<1> DEFINE o == job[p].order
<1>1. o \in Order
  BY DEF ExtendOrder, At, IInv, JobInv
<1>2. row[o] \in Row
  BY <1>1 DEF IInv, TypeOK
<1>3. \A x \in Order : row'[x].status = row[x].status
  BY <1>1, <1>2 DEF ExtendOrder, IInv, TypeOK, Row
<1>4. Status' = Status
  BY <1>3 DEF Status
<1>5. QED
  BY <1>4, ChargedKept DEF ExtendOrder

\* WeChat Pay accepting a prepay or a close takes no money.
LEMMA UpstreamRefines ==
  ASSUME IInv, NEW p \in Proc,
         PrepayAccepted(p) \/ CloseUpstream(p) \/ CloseExpired(p)
  PROVE  UNCHANGED <<Status, Charged>>
<1> DEFINE o == job[p].order
<1>1. o \in Order /\ row' = row
  BY DEF PrepayAccepted, CloseUpstream, CloseExpired, At, IInv, JobInv
<1>2. CASE PrepayAccepted(p)
  <2>1. wx[o].state # "SUCCESS"
    BY <1>2 DEF PrepayAccepted
  <2>2. /\ wx'[o].state = "NOTPAY"
        /\ \A x \in Order : x # o => wx'[x] = wx[x]
    BY <1>1, <1>2 DEF PrepayAccepted, IInv, TypeOK
  <2>3. QED
    BY <1>1, <2>1, <2>2, ChargedKept DEF Status
<1>3. CASE UpstreamClosed(o)
  <2>1. wx[o].state = "NOTPAY"
    BY <1>3 DEF UpstreamClosed
  <2>2. /\ wx'[o].state = "CLOSED"
        /\ \A x \in Order : x # o => wx'[x] = wx[x]
    BY <1>1, <1>3, WxStateUpdate DEF UpstreamClosed, IInv, TypeOK
  <2>3. QED
    BY <1>1, <2>1, <2>2, ChargedKept DEF Status
<1>4. CASE UNCHANGED wx
  BY <1>1, <1>4, ChargedKept DEF Status
<1>5. QED
  BY <1>2, <1>3, <1>4 DEF CloseUpstream, CloseExpired

LEMMA PayRefines ==
  ASSUME IInv, NEW o \in Order, UserPays(o)
  PROVE  Ledger!Charge(o)
<1>1. row[o].status # "NONE" /\ wx[o].state = "NOTPAY" /\ row' = row
  BY DEF UserPays, IInv, OrderInv
<1>2. /\ wx'[o].state = "SUCCESS"
      /\ \A x \in Order : x # o => wx'[x] = wx[x]
  BY WxStateUpdate DEF UserPays, IInv, TypeOK
<1>3. Charged' = [Charged EXCEPT ![o] = TRUE]
  BY <1>2 DEF Charged
<1>4. QED
  BY <1>1, <1>3 DEF Ledger!Charge, Status, Charged

\* Every other step touches neither the row nor the upstream order.
LEMMA QuietRefines ==
  ASSUME UNCHANGED <<row, wx>>
  PROVE  UNCHANGED <<Status, Charged>>
  BY DEF Status, Charged

LedgerStep ==
  \/ \E o \in Order : \/ Ledger!Open(o) \/ Ledger!Charge(o)
                      \/ Ledger!Settle(o) \/ Ledger!Close(o)
  \/ UNCHANGED <<Status, Charged>>

LEMMA StepRefines == IInv /\ [Next]_vars => LedgerStep
<1> SUFFICES ASSUME IInv, [Next]_vars PROVE LedgerStep
  OBVIOUS
<1>1. CASE UNCHANGED <<row, wx>>
  BY <1>1, QuietRefines DEF LedgerStep
<1>2. ASSUME NEW p \in Proc, MarkMerchant(p) \/ MarkExpired(p) \/ ApplyClosed(p)
      PROVE  LedgerStep
  <2>1. /\ job[p].order \in Order /\ row[job[p].order].status # "NONE"
        /\ UNCHANGED wx
    BY <1>2 DEF MarkMerchant, MarkExpired, ApplyClosed, At, IInv, JobInv, RowPcs
  <2>2. PICK why \in {"merchant", "expired", "upstream"} :
          MarkOrderClosed(job[p].order, why)
    BY <1>2 DEF MarkMerchant, MarkExpired, ApplyClosed
  <2>3. QED
    BY <2>1, <2>2, ClosedRefines DEF LedgerStep
<1>3. ASSUME NEW p \in Proc, ApplySuccess(p)
      PROVE  LedgerStep
  <2>1. /\ job[p].order \in Order /\ row[job[p].order].status # "NONE"
        /\ wx[job[p].order].state = "SUCCESS"
        /\ MarkOrderPaid(job[p].order) /\ UNCHANGED wx
    BY <1>3 DEF ApplySuccess, At, IInv, JobInv, RowPcs
  <2>2. QED
    BY <2>1, PaidRefines DEF LedgerStep
<1>4. ASSUME NEW o \in Order, HandlePayNotify(o)
      PROVE  LedgerStep
  <2>1. /\ row[o].status # "NONE" /\ wx[o].state = "SUCCESS"
        /\ MarkOrderPaid(o) /\ UNCHANGED wx
    BY <1>4 DEF HandlePayNotify, IInv, OrderInv
  <2>2. QED
    BY <2>1, PaidRefines DEF LedgerStep
<1>5. ASSUME NEW p \in Proc, InsertOrder(p)
      PROVE  LedgerStep
  <2>1. PICK o \in Order : o = job[p].order
    BY <1>5 DEF InsertOrder, At, IInv, JobInv
  <2>2. QED
    BY <1>5, <2>1, InsertRefines DEF LedgerStep
<1>6. ASSUME NEW p \in Proc, ExtendOrder(p) \/ PrepayAccepted(p)
                             \/ CloseUpstream(p) \/ CloseExpired(p)
      PROVE  LedgerStep
  BY <1>6, ExtendRefines, UpstreamRefines DEF LedgerStep
<1>7. ASSUME NEW o \in Order, UserPays(o)
      PROVE  LedgerStep
  BY <1>7, PayRefines DEF LedgerStep
<1>8. CASE \E p \in Request, o \in Order :
             (\E a \in Amounts : CreateRead(p, o, a)) \/ SyncRead(p, o)
                                                      \/ CloseRead(p, o)
  <2>1. UNCHANGED <<row, wx>>
    BY <1>8 DEF CreateRead, SyncRead, CloseRead
  <2>2. QED
    BY <1>1, <2>1
<1>9. ASSUME NEW p \in Request,
             \/ PrepayAccepted(p) \/ PrepayFails(p) \/ InsertOrder(p)
             \/ ExtendOrder(p)
             \/ CloseUpstream(p) \/ CloseFails(p) \/ MarkMerchant(p)
      PROVE  LedgerStep
  <2>1. p \in Proc
    BY DEF Proc
  <2>2. CASE PrepayFails(p) \/ CloseFails(p)
    <3>1. UNCHANGED <<row, wx>>
      BY <2>2 DEF PrepayFails, CloseFails
    <3>2. QED
      BY <1>1, <3>1 DEF LedgerStep
  <2>3. QED
    BY <1>2, <1>5, <1>6, <1>9, <2>1, <2>2
<1>10. ASSUME NEW p \in Proc, Reconcile(p) \/ Crash(p)
       PROVE  LedgerStep
  <2>1. CASE \/ QueryAnswers(p) \/ QueryFails(p) \/ ApplyUnpaid(p)
             \/ ApplyWriteFails(p) \/ Crash(p)
    <3>1. UNCHANGED <<row, wx>>
      BY <2>1 DEF QueryAnswers, QueryFails, ApplyUnpaid, ApplyWriteFails, Crash
    <3>2. QED
      BY <1>1, <3>1 DEF LedgerStep
  <2>2. QED
    BY <1>2, <1>3, <1>6, <1>10, <2>1 DEF Reconcile
<1>11. CASE \E l \in Loop : LoopScan(l) \/ (\E s \in todo[l] : LoopTake(l, s))
  <2>1. UNCHANGED <<row, wx>>
    BY <1>11 DEF LoopScan, LoopTake
  <2>2. QED
    BY <1>1, <2>1
<1>12. ASSUME NEW o \in Order,
              \/ HandlePayNotify(o) \/ LoseNotices(o) \/ UserPays(o)
              \/ \E c \in Configs : SetConfig(o, c)
       PROVE  LedgerStep
  <2>1. ASSUME LoseNotices(o) \/ \E c \in Configs : SetConfig(o, c)
        PROVE  LedgerStep
    BY <1>1, <2>1 DEF SetConfig, LoseNotices
  <2>2. QED
    BY <1>4, <1>7, <1>12, <2>1
<1>13. CASE Tick \/ UNCHANGED vars
  <2>1. UNCHANGED <<row, wx>>
    BY <1>13 DEF Tick, vars
  <2>2. QED
    BY <1>1, <2>1
<1>14. QED
  BY <1>8, <1>9, <1>10, <1>11, <1>12, <1>13 DEF Next

\* Callbacks, queries, closes and reconciliation, interleaved in any way, keep
\* the promise of the table: every step is a step of PayLedger or leaves it
\* unchanged.
THEOREM ImplementsLedger == Spec => LedgerSpec
<1>1. Init => Ledger!Init
  <2> SUFFICES ASSUME Init PROVE Ledger!Init
    OBVIOUS
  <2>1. \A o \in Order : row[o].status \in {"NONE", "CREATED"}
                          /\ wx[o].state # "SUCCESS"
    <3>1. PICK opened \in [Order -> Opened] :
            /\ row = [o \in Order |->
                        [status |-> IF opened[o] # 0 THEN "CREATED" ELSE "NONE",
                         amount |-> opened[o], createdAt |-> 0,
                         expireAt |-> IF opened[o] # 0 THEN Ttl ELSE 0,
                         reason |-> ""]]
            /\ wx = [o \in Order |->
                        [state |-> IF opened[o] # 0 THEN "NOTPAY" ELSE "NONE",
                         amount |-> opened[o],
                         deadline |-> IF opened[o] # 0 THEN Ttl ELSE 0]]
      BY DEF Init
    <3>2. QED
      BY <3>1
  <2>2. \A o \in Order : (wx[o].state = "SUCCESS") = FALSE
    BY <2>1
  <2>3. QED
    BY <2>1, <2>2 DEF Ledger!Init
<1>2. IInv /\ [Next]_vars => [Ledger!Next]_(Ledger!lvars)
  <2> SUFFICES ASSUME IInv, [Next]_vars PROVE [Ledger!Next]_(Ledger!lvars)
    OBVIOUS
  <2>1. LedgerStep
    BY StepRefines
  <2>2. QED
    BY <2>1 DEF LedgerStep, Ledger!Next, Ledger!lvars, Status, Charged
<1>3. QED
  BY <1>1, <1>2, InductiveInvariant, PTL DEF Spec, LedgerSpec, Ledger!Spec

=============================================================================
