----------------------------- MODULE PayRefund -----------------------------
(***************************************************************************)
(* Refunds of one paid order: internal/wechatpay/{service,model}.go.       *)
(* Applications, approvals, status queries and notifications run in HTTP   *)
(* goroutines; each reads the refund row, talks to WeChat Pay, and writes  *)
(* the row with an UPDATE guarded by the status it expects.  Each database *)
(* write and each upstream call is one step.  The reads before the first   *)
(* of them are one step: nothing the goroutine does lies in between.       *)
(*                                                                         *)
(* Abstracted: ownership and format checks, reasons, refund ids, times,    *)
(* audit rows, and of the merchant configuration all but its state and its *)
(* approval switch (credentials that do not work are RequestFails or       *)
(* QueryFails).  A caller who repeats a refund number repeats its amount.  *)
(* A failed write is Crash; of a notification, FAIL and another try.       *)
(***************************************************************************)
EXTENDS Integers, FiniteSetsExt

CONSTANTS
  Refund,      \* refund numbers (out_refund_no) of the order
  NoRefund,    \* "no refund", for idle goroutines
  Worker,      \* goroutines serving requests
  Amount,      \* Amount[r]: what refund r asks for
  Total        \* the amount of the order

ASSUME PayRefundAssumption ==
  /\ NoRefund \notin Refund
  /\ Amount \in [Refund -> Nat \ {0}]
  /\ Total \in Nat

VARIABLES
  config,    \* the PayConfig row: its state, and RefundApprovalRequired
  ref,       \* ref[r]: status of the PayRefund row of r
  wxr,       \* wxr[r]: the refund as WeChat Pay has it (external)
  notices,   \* notifications WeChat Pay emits, and may repeat
  job        \* job[p]: what goroutine p is doing

vars == <<config, ref, wxr, notices, job>>

Final == {"SUCCESS", "CLOSED", "ABNORMAL"}

\* Refund statuses of WeChat Pay; the row adds the two local ones.
Upstream == {"NONE", "PROCESSING"} \cup Final

Row == {"PENDING", "REJECTED"} \cup Upstream

Pcs == {"idle", "create_pending", "request", "insert", "approve",
        "mark_approved", "mark_rejected", "query", "mark_status", "stopped"}

Config == [state: {"enabled", "disabled", "deleted"}, approval: BOOLEAN]

Job == [pc: Pcs, refund: Refund \cup {NoRefund}, answer: Upstream]

TypeOK ==
  /\ config \in Config
  /\ ref \in [Refund -> Row]
  /\ wxr \in [Refund -> Upstream]
  /\ notices \subseteq Refund \X Final
  /\ job \in [Worker -> Job]

IdleJob == [pc |-> "idle", refund |-> NoRefund, answer |-> "NONE"]

Init ==
  /\ config \in [state: {"enabled"}, approval: BOOLEAN]
  /\ ref = [r \in Refund |-> "NONE"]
  /\ wxr = [r \in Refund |-> "NONE"]
  /\ notices = {}
  /\ job = [p \in Worker |-> IdleJob]

At(p, pc) == job[p].pc = pc

Begin(p, pc, r) ==
  /\ At(p, "idle")
  /\ job' = [job EXCEPT ![p] = [pc |-> pc, refund |-> r, answer |-> "NONE"]]
  /\ UNCHANGED <<config, ref, wxr, notices>>

Return(p) == job' = [job EXCEPT ![p] = IdleJob]

AmountOf(R) == MapThenSumSet(LAMBDA r : Amount[r], R)

\* What SumActiveRefundAmount adds up.
Active == {r \in Refund : ref[r] \in {"PENDING", "PROCESSING", "SUCCESS"}}

----------------------------------------------------------------------------
(* The refund call to WeChat Pay (external): a known number is answered    *)
(* with its refund, a new one is accepted within the amount of the order.  *)

RequestRefund(r) ==
  \/ wxr[r] # "NONE" /\ UNCHANGED wxr
  \/ /\ wxr[r] = "NONE"
     /\ AmountOf({x \in Refund : wxr[x] \notin {"NONE", "CLOSED"}}) + Amount[r]
          <= Total
     /\ wxr' = [wxr EXCEPT ![r] = "PROCESSING"]

Answered(p, pc, status) ==
  job' = [job EXCEPT ![p].pc = pc, ![p].answer = status]

\* The call fails, or its answer is lost after it took effect.
RequestFails(p) ==
  /\ job[p].pc \in {"request", "approve"}
  /\ RequestRefund(job[p].refund) \/ UNCHANGED wxr
  /\ Return(p)
  /\ UNCHANGED <<config, ref, notices>>

----------------------------------------------------------------------------
(* ApplyRefund.                                                            *)

\* A repeated number is answered from its row; the quota is read here and
\* checked no more.  A disabled configuration still serves.
ApplyRead(p, r) ==
  /\ ref[r] = "NONE"
  /\ config.state # "deleted"
  /\ Amount[r] <= Total - AmountOf(Active)
  /\ Begin(p, IF config.approval THEN "create_pending" ELSE "request", r)

\* Mutant: an upsert.
CreateUpsert(p, r, status) ==
  /\ ref' = [ref EXCEPT ![r] = IF @ = "SUCCESS" THEN @ ELSE status]
  /\ Return(p)
  /\ UNCHANGED <<config, wxr, notices>>

\* Mutant: the quota is checked again before the row is written.
CreateChecked(p, r, status) ==
  /\ ref' = [ref EXCEPT ![r] =
               IF @ = "NONE" /\ Amount[r] <= Total - AmountOf(Active)
               THEN status ELSE @]
  /\ Return(p)
  /\ UNCHANGED <<config, wxr, notices>>

\* out_refund_no is unique: the later of two inserts returns an error.
Create(p, r, status) ==
  /\ ref' = [ref EXCEPT ![r] = IF @ = "NONE" THEN status ELSE @]
  /\ Return(p)
  /\ UNCHANGED <<config, wxr, notices>>

CreatePending(p) ==
  /\ At(p, "create_pending")
  /\ Create(p, job[p].refund, "PENDING")

\* Mutant: a refund that was accepted is taken for one that is completed.
ApplyRequestCompleted(p) ==
  /\ At(p, "request")
  /\ RequestRefund(job[p].refund)
  /\ Answered(p, "insert", "SUCCESS")
  /\ UNCHANGED <<config, ref, notices>>

ApplyRequest(p) ==
  /\ At(p, "request")
  /\ RequestRefund(job[p].refund)
  /\ Answered(p, "insert", wxr'[job[p].refund])
  /\ UNCHANGED <<config, ref, notices>>

InsertRefund(p) ==
  /\ At(p, "insert")
  /\ Create(p, job[p].refund, job[p].answer)

----------------------------------------------------------------------------
(* ApproveRefund and MarkRefundApproved.                                   *)

ApproveRead(p, r, approved) ==
  /\ ref[r] = "PENDING"
  /\ approved => config.state # "deleted"
  /\ Begin(p, IF approved THEN "approve" ELSE "mark_rejected", r)

ApproveRequest(p) ==
  /\ At(p, "approve")
  /\ RequestRefund(job[p].refund)
  /\ Answered(p, "mark_approved", wxr'[job[p].refund])
  /\ UNCHANGED <<config, ref, notices>>

\* Mutant: a rejected refund is closed.
MarkRefundApprovedCloses(p) ==
  /\ job[p].pc \in {"mark_approved", "mark_rejected"}
  /\ ref' = [ref EXCEPT ![job[p].refund] =
               IF @ # "PENDING" THEN @
               ELSE IF At(p, "mark_approved") THEN job[p].answer
                                              ELSE "CLOSED"]
  /\ Return(p)
  /\ UNCHANGED <<config, wxr, notices>>

\* UPDATE ... WHERE status = 'PENDING'; whether it changed a row is not looked
\* at.
MarkRefundApproved(p) ==
  /\ job[p].pc \in {"mark_approved", "mark_rejected"}
  /\ ref' = [ref EXCEPT ![job[p].refund] =
               IF @ # "PENDING" THEN @
               ELSE IF At(p, "mark_approved") THEN job[p].answer
                                              ELSE "REJECTED"]
  /\ Return(p)
  /\ UNCHANGED <<config, wxr, notices>>

----------------------------------------------------------------------------
(* MarkRefundStatus, SyncRefundStatus and applyRefundEvent.                *)

\* Mutant: the UPDATE has lost its guard.
MarkRefundStatusUnguarded(r, status) == ref' = [ref EXCEPT ![r] = status]

\* Mutant: the type of the event is stored as the status.
MarkRefundStatusEvent(r, status) ==
  ref' = [ref EXCEPT ![r] = IF @ = "SUCCESS" THEN @ ELSE "REFUND.SUCCESS"]

\* UPDATE ... WHERE status <> 'SUCCESS'.
MarkRefundStatus(r, status) ==
  ref' = [ref EXCEPT ![r] = IF @ = "SUCCESS" THEN @ ELSE status]

SyncRead(p, r) ==
  /\ ref[r] \notin {"NONE", "SUCCESS", "CLOSED"}
  /\ config.state # "deleted"
  /\ Begin(p, "query", r)

QueryAnswers(p) ==
  /\ At(p, "query")
  /\ wxr[job[p].refund] # "NONE"
  /\ Answered(p, "mark_status", wxr[job[p].refund])
  /\ UNCHANGED <<config, ref, wxr, notices>>

QueryFails(p) ==
  /\ At(p, "query")
  /\ Return(p)
  /\ UNCHANGED <<config, ref, wxr, notices>>

MarkSynced(p) ==
  /\ At(p, "mark_status")
  /\ MarkRefundStatus(job[p].refund, job[p].answer)
  /\ Return(p)
  /\ UNCHANGED <<config, wxr, notices>>

\* HandlePayNotify of a REFUND event.  Without an enabled configuration, or
\* without a row, it is answered with FAIL, and WeChat Pay tries again.
ApplyRefundEvent(r, status) ==
  /\ <<r, status>> \in notices
  /\ config.state = "enabled"
  /\ ref[r] # "NONE"
  /\ MarkRefundStatus(r, status)
  /\ UNCHANGED <<config, wxr, notices, job>>

----------------------------------------------------------------------------
(* WeChat Pay, the operator and crashes.                                   *)

\* External: an abnormal refund is completed or closed by hand.
RefundSettles(r, status) ==
  /\ \/ wxr[r] = "PROCESSING"
     \/ wxr[r] = "ABNORMAL" /\ status # "ABNORMAL"
  /\ wxr' = [wxr EXCEPT ![r] = status]
  /\ notices' = notices \cup {<<r, status>>}
  /\ UNCHANGED <<config, ref, job>>

\* External: WeChat Pay gives up after its last try.
LoseNotice(r, status) ==
  /\ <<r, status>> \in notices
  /\ notices' = notices \ {<<r, status>>}
  /\ UNCHANGED <<config, ref, wxr, job>>

\* The operator creates, edits, disables and deletes the configuration.
SetConfig ==
  /\ config' \in Config
  /\ UNCHANGED <<ref, wxr, notices, job>>

Crash(p) ==
  /\ job[p].pc \notin {"idle", "stopped"}
  /\ job' = [job EXCEPT ![p] = [IdleJob EXCEPT !.pc = "stopped"]]
  /\ UNCHANGED <<config, ref, wxr, notices>>

\* Another goroutine serves requests; it knows nothing of the one before.
Restart(p) ==
  /\ At(p, "stopped")
  /\ Return(p)
  /\ UNCHANGED <<config, ref, wxr, notices>>

Next ==
  \/ \E p \in Worker, r \in Refund :
       \/ ApplyRead(p, r) \/ SyncRead(p, r)
       \/ \E approved \in BOOLEAN : ApproveRead(p, r, approved)
  \/ \E p \in Worker :
       \/ RequestFails(p) \/ CreatePending(p) \/ ApplyRequest(p)
       \/ InsertRefund(p) \/ ApproveRequest(p) \/ MarkRefundApproved(p)
       \/ QueryAnswers(p) \/ QueryFails(p) \/ MarkSynced(p)
       \/ Crash(p) \/ Restart(p)
  \/ \E r \in Refund, status \in Final :
       \/ ApplyRefundEvent(r, status)
       \/ RefundSettles(r, status) \/ LoseNotice(r, status)
  \/ SetConfig

Spec == Init /\ [][Next]_vars

----------------------------------------------------------------------------
(* Properties.                                                             *)

\* The table reports a refund as SUCCESS only when the money went back.
SuccessIsReal == \A r \in Refund : ref[r] = "SUCCESS" => wxr[r] = "SUCCESS"

\* A row says CLOSED, which no query looks at again, only when WeChat Pay has
\* closed the refund: whatever races for the row, of a completed refund every
\* row but the right one stays open to SyncRefundStatus and to notifications,
\* and an operator's query can still correct it.
ClosedIsReal == \A r \in Refund : ref[r] = "CLOSED" => wxr[r] = "CLOSED"

\* No late or repeated answer takes SUCCESS back.
SuccessIsFinal ==
  [][\A r \in Refund : ref[r] = "SUCCESS" => ref'[r] = "SUCCESS"]_vars

\* A rejected refund stays rejected unless another approver, or an application
\* made without the approval, has sent it upstream: a repeated application
\* does not revive it.  A rejection can be late, though: the row may say
\* REJECTED of a refund that another approver has sent, until an answer or a
\* notification corrects it.
RejectionSticks ==
  [][\A r \in Refund : ref[r] = "REJECTED" /\ wxr[r] = "NONE"
                         => ref'[r] = "REJECTED"]_vars

\* A refund WeChat Pay has, and neither the table nor a goroutine knows of.
Orphan(r) ==
  /\ wxr[r] # "NONE"
  /\ ref[r] = "NONE"
  /\ ~ \E p \in Worker : At(p, "insert") /\ job[p].refund = r

\* Losing a race for the row loses no refund: only a lost answer does, or a
\* goroutine that stops between the upstream call and the insert.
OrphanOnlyByFailure ==
  [][\A r \in Refund : ~Orphan(r) /\ Orphan(r)' =>
       \E p \in Worker : \/ At(p, "insert") /\ job'[p].pc = "stopped"
                         \/ At(p, "request") /\ job'[p].pc = "idle"]_vars

=============================================================================
