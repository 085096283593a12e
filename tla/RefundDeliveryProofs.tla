------------------------ MODULE RefundDeliveryProofs ------------------------
(***************************************************************************)
(* Theorems of PayRefund for any refunds, amounts and goroutines, and of   *)
(* DeliveryLedger for any transactions and goroutines.                     *)
(*                                                                         *)
(* Refunds: answers and notifications are applied long after WeChat Pay    *)
(* gave them.  They stay good because what they report of a completed      *)
(* refund cannot change: SUCCESS is final upstream, and a refund never     *)
(* disappears there.                                                       *)
(*                                                                         *)
(* Deliveries, with and without failures: rows alone do not bound them;    *)
(* what does is that the placeholder of a transaction is held by at most   *)
(* one goroutine, and that whoever holds it knows whether deliver has run. *)
(***************************************************************************)
EXTENDS PayRefund, DeliveryLedger, TLAPS

\* The statuses of a refund that WeChat Pay does not change any more.
Ended == {"SUCCESS", "CLOSED"}

\* A row and a notification that give such a status are right, and a notification is
\* about a refund WeChat Pay has.
RowInv ==
  \A r \in Refund :
    /\ ref[r] \in Ended => wxr[r] = ref[r]
    /\ \A status \in Final : <<r, status>> \in notices =>
         wxr[r] # "NONE" /\ (status \in Ended => wxr[r] = status)

Working == {"create_pending", "request", "insert", "approve",
            "mark_approved", "mark_rejected", "query", "mark_status"}

\* What a goroutine may still rely on.
JobInv ==
  \A p \in Worker :
    /\ job[p].pc \in Working => job[p].refund \in Refund
    /\ job[p].pc \in Working /\ job[p].answer \in Ended =>
         wxr[job[p].refund] = job[p].answer
    /\ job[p].pc = "mark_status" => wxr[job[p].refund] # "NONE"

IInv == TypeOK /\ RowInv /\ JobInv

LEMMA InitIInv == Init => IInv
BY PayRefundAssumption
   DEF Init, IInv, TypeOK, RowInv, JobInv, IdleJob, Job, Pcs, Row, Upstream,
       Final, Working, Ended, Config

\* A refund upstream moves, and neither disappears nor leaves its end.
Onward ==
  /\ wxr' \in [Refund -> Upstream]
  /\ \A r \in Refund :
       /\ wxr[r] # "NONE" => wxr'[r] # "NONE"
       /\ wxr[r] \in Ended => wxr'[r] = wxr[r]

LEMMA StillOnward ==
  ASSUME TypeOK, UNCHANGED wxr
  PROVE  Onward
BY DEF TypeOK, Onward

LEMMA RequestOnward ==
  ASSUME TypeOK, NEW r \in Refund, RequestRefund(r)
  PROVE  Onward /\ wxr'[r] # "NONE"
<1>1. CASE wxr[r] # "NONE" /\ UNCHANGED wxr
  BY <1>1 DEF TypeOK, Onward
<1>2. CASE wxr[r] = "NONE" /\ wxr' = [wxr EXCEPT ![r] = "PROCESSING"]
  BY <1>2 DEF TypeOK, Onward, Upstream, Ended
<1>. QED BY <1>1, <1>2 DEF RequestRefund

\* A goroutine moves to a state that its answer, the upstream refund and its
\* refund number justify; the table and the notifications stay as they are.
LEMMA JobStep ==
  ASSUME IInv, Onward, NEW p \in Worker, NEW j \in Job,
         job' = [job EXCEPT ![p] = j],
         j.pc \in Working => j.refund \in Refund,
         j.pc \in Working /\ j.answer \in Ended =>
           wxr'[j.refund] = j.answer,
         j.pc = "mark_status" => wxr'[j.refund] # "NONE"
  PROVE  job' \in [Worker -> Job] /\ JobInv'
<1>1. job' \in [Worker -> Job]
  BY DEF IInv, TypeOK
<1>2. ASSUME NEW q \in Worker
      PROVE  /\ job'[q].pc \in Working => job'[q].refund \in Refund
             /\ job'[q].pc \in Working /\ job'[q].answer \in Ended =>
                  wxr'[job'[q].refund] = job'[q].answer
             /\ job'[q].pc = "mark_status" => wxr'[job'[q].refund] # "NONE"
  <2>1. CASE q = p
    BY <2>1 DEF IInv, TypeOK
  <2>2. CASE q # p
    <3>1. job'[q] = job[q]
      BY <2>2 DEF IInv, TypeOK
    <3>2. /\ job[q].pc \in Working => job[q].refund \in Refund
          /\ job[q].pc \in Working /\ job[q].answer \in Ended =>
               wxr[job[q].refund] = job[q].answer
          /\ job[q].pc = "mark_status" => wxr[job[q].refund] # "NONE"
      BY DEF IInv, JobInv
    <3>3. job[q].pc = "mark_status" => job[q].pc \in Working
      BY DEF Working
    <3>. QED BY <3>1, <3>2, <3>3 DEF Onward
  <2>. QED BY <2>1, <2>2
<1>3. JobInv'
  BY <1>2 DEF JobInv
<1>. QED BY <1>1, <1>3

LEMMA QuietRow ==
  ASSUME IInv, Onward, UNCHANGED <<ref, notices>>
  PROVE  RowInv'
BY DEF IInv, TypeOK, RowInv, Onward

LEMMA ReturnStep ==
  ASSUME IInv, Onward, NEW p \in Worker, Return(p)
  PROVE  job' \in [Worker -> Job] /\ JobInv'
<1>1. IdleJob \in Job /\ IdleJob.pc \notin Working
  BY DEF IdleJob, Job, Pcs, Upstream, Working
<1>2. IdleJob.pc # "mark_status"
  BY DEF IdleJob
<1>. QED BY <1>1, <1>2, JobStep DEF Return

LEMMA BeginStep ==
  ASSUME IInv, NEW p \in Worker, NEW r \in Refund,
         NEW pc \in Pcs \ {"mark_status"}, Begin(p, pc, r)
  PROVE  IInv'
<1>. DEFINE j == [pc |-> pc, refund |-> r, answer |-> "NONE"]
<1>1. Onward
  BY StillOnward DEF Begin, IInv
<1>2. j \in Job
  BY DEF Job, Upstream
<1>3. /\ j.refund \in Refund
      /\ ~(j.pc \in Working /\ j.answer \in Ended)
      /\ j.pc # "mark_status"
  BY DEF Ended
<1>4. job' = [job EXCEPT ![p] = j]
  BY DEF Begin
<1>. HIDE DEF j
<1>5. job' \in [Worker -> Job] /\ JobInv'
  BY <1>1, <1>2, <1>3, <1>4, JobStep
<1>6. RowInv'
  BY <1>1, QuietRow DEF Begin
<1>. QED BY <1>5, <1>6 DEF Begin, IInv, TypeOK

\* A goroutine keeps its refund and notes what it was told.
LEMMA AnsweredStep ==
  ASSUME IInv, Onward, UNCHANGED <<config, ref, notices>>,
         NEW p \in Worker, job[p].pc \in Working,
         NEW pc \in Working, NEW status \in Upstream, Answered(p, pc, status),
         status \in Ended => wxr'[job[p].refund] = status,
         wxr'[job[p].refund] # "NONE"
  PROVE  IInv'
<1>. DEFINE j == [job[p] EXCEPT !.pc = pc, !.answer = status]
<1>1. job[p] \in Job /\ job[p].refund \in Refund
  BY DEF IInv, TypeOK, JobInv
<1>2. j \in Job
  BY <1>1 DEF Job, Working, Pcs
<1>3. j.refund = job[p].refund /\ j.answer = status
  BY <1>1 DEF Job
<1>4. job' = [job EXCEPT ![p] = j]
  BY <1>1 DEF Answered, IInv, TypeOK, Job
<1>. HIDE DEF j
<1>5. job' \in [Worker -> Job] /\ JobInv'
  BY <1>1, <1>2, <1>3, <1>4, JobStep
<1>. QED BY <1>5, QuietRow DEF IInv, TypeOK, Onward

\* One row is written with a status that is true of its refund.
LEMMA RowStep ==
  ASSUME IInv, UNCHANGED <<config, wxr, notices>>,
         NEW r \in Refund, NEW status \in Row,
         status \in Ended => wxr[r] = status,
         ref' = [ref EXCEPT ![r] = status]
  PROVE  ref' \in [Refund -> Row] /\ RowInv'
BY DEF IInv, TypeOK, RowInv

----------------------------------------------------------------------------
(* One lemma per kind of step.                                             *)

LEMMA BeginIInv ==
  ASSUME IInv, NEW p \in Worker, NEW r \in Refund,
         \/ ApplyRead(p, r) \/ SyncRead(p, r)
         \/ \E approved \in BOOLEAN : ApproveRead(p, r, approved)
  PROVE  IInv'
<1>1. PICK pc \in Pcs \ {"mark_status"} : Begin(p, pc, r)
  <2>1. CASE ApplyRead(p, r)
    BY <2>1 DEF ApplyRead, Pcs
  <2>2. CASE SyncRead(p, r)
    BY <2>2 DEF SyncRead, Pcs
  <2>3. CASE \E approved \in BOOLEAN : ApproveRead(p, r, approved)
    BY <2>3 DEF ApproveRead, Pcs
  <2>. QED BY <2>1, <2>2, <2>3
<1>. QED BY <1>1, BeginStep

LEMMA RequestIInv ==
  ASSUME IInv, NEW p \in Worker, ApplyRequest(p) \/ ApproveRequest(p)
  PROVE  IInv'
<1>. DEFINE r == job[p].refund
<1>1. job[p].pc \in Working
  BY DEF ApplyRequest, ApproveRequest, At, Working
<1>2. r \in Refund
  BY <1>1 DEF IInv, JobInv
<1>3. RequestRefund(r) /\ UNCHANGED <<config, ref, notices>>
  BY DEF ApplyRequest, ApproveRequest
<1>4. Onward /\ wxr'[r] # "NONE"
  BY <1>2, <1>3, RequestOnward DEF IInv
<1>5. wxr'[r] \in Upstream
  BY <1>2, <1>4 DEF Onward
<1>6. PICK pc \in Working : Answered(p, pc, wxr'[r])
  BY DEF ApplyRequest, ApproveRequest, Working
<1>. QED BY <1>1, <1>3, <1>4, <1>5, <1>6, AnsweredStep

LEMMA RequestFailsIInv ==
  ASSUME IInv, NEW p \in Worker, RequestFails(p)
  PROVE  IInv'
<1>1. job[p].refund \in Refund
  BY DEF RequestFails, IInv, JobInv, Working
<1>2. Onward
  BY <1>1, RequestOnward, StillOnward DEF RequestFails, IInv
<1>3. job' \in [Worker -> Job] /\ JobInv'
  BY <1>2, ReturnStep DEF RequestFails
<1>4. RowInv'
  BY <1>2, QuietRow DEF RequestFails
<1>. QED BY <1>2, <1>3, <1>4 DEF RequestFails, IInv, TypeOK, Onward

\* InsertRefund, CreatePending, MarkRefundApproved and MarkSynced: the row is
\* left alone or takes the answer of the goroutine, or a local status.
Writes(p) ==
  \/ CreatePending(p) \/ InsertRefund(p)
  \/ MarkRefundApproved(p) \/ MarkSynced(p)

LEMMA WritesRow ==
  ASSUME IInv, NEW p \in Worker, Writes(p)
  PROVE  /\ job[p].pc \in Working /\ job[p].refund \in Refund
         /\ Return(p) /\ UNCHANGED <<config, wxr, notices>>
         /\ \E status \in {ref[job[p].refund], job[p].answer,
                           "PENDING", "REJECTED"} :
              ref' = [ref EXCEPT ![job[p].refund] = status]
<1>1. job[p].pc \in Working
  BY DEF Writes, CreatePending, InsertRefund, MarkRefundApproved, MarkSynced,
         At, Working
<1>2. job[p].refund \in Refund
  BY <1>1 DEF IInv, JobInv
<1>3. CASE CreatePending(p)
  BY <1>1, <1>2, <1>3 DEF CreatePending, Create
<1>4. CASE InsertRefund(p)
  BY <1>1, <1>2, <1>4 DEF InsertRefund, Create
<1>5. CASE MarkRefundApproved(p)
  BY <1>1, <1>2, <1>5 DEF MarkRefundApproved
<1>6. CASE MarkSynced(p)
  BY <1>1, <1>2, <1>6 DEF MarkSynced, MarkRefundStatus
<1>. QED BY <1>3, <1>4, <1>5, <1>6 DEF Writes

LEMMA WritesIInv ==
  ASSUME IInv, NEW p \in Worker, Writes(p)
  PROVE  IInv'
<1>. DEFINE r == job[p].refund
<1>1. /\ job[p].pc \in Working /\ r \in Refund
      /\ Return(p) /\ UNCHANGED <<config, wxr, notices>>
  BY WritesRow
<1>2. PICK status \in {ref[r], job[p].answer, "PENDING", "REJECTED"} :
        ref' = [ref EXCEPT ![r] = status]
  BY WritesRow
<1>3. /\ ref[r] \in Row /\ job[p].answer \in Row
      /\ ref[r] \in Ended => wxr[r] = ref[r]
      /\ job[p].answer \in Ended => wxr[r] = job[p].answer
  BY <1>1 DEF IInv, TypeOK, Job, Row, RowInv, JobInv
<1>4. status \in Row /\ (status \in Ended => wxr[r] = status)
  BY <1>3 DEF Row, Ended
<1>. HIDE DEF r
<1>5. ref' \in [Refund -> Row] /\ RowInv'
  BY <1>1, <1>2, <1>4, RowStep
<1>6. Onward
  BY <1>1, StillOnward DEF IInv
<1>7. job' \in [Worker -> Job] /\ JobInv'
  BY <1>1, <1>6, ReturnStep
<1>. QED BY <1>1, <1>5, <1>7 DEF IInv, TypeOK

LEMMA QueryIInv ==
  ASSUME IInv, NEW p \in Worker, QueryAnswers(p) \/ QueryFails(p)
  PROVE  IInv'
<1>1. job[p].pc \in Working /\ UNCHANGED <<config, ref, wxr, notices>>
  BY DEF QueryAnswers, QueryFails, At, Working
<1>2. job[p].refund \in Refund
  BY <1>1 DEF IInv, JobInv
<1>3. Onward
  BY <1>1, StillOnward DEF IInv
<1>4. CASE QueryAnswers(p)
  <2>1. wxr[job[p].refund] \in Upstream
    BY <1>2 DEF IInv, TypeOK
  <2>2. /\ Answered(p, "mark_status", wxr[job[p].refund])
        /\ wxr'[job[p].refund] # "NONE"
        /\ wxr' = wxr
    BY <1>4 DEF QueryAnswers
  <2>3. "mark_status" \in Working
    BY DEF Working
  <2>. QED BY <1>1, <1>3, <2>1, <2>2, <2>3, AnsweredStep
<1>5. CASE QueryFails(p)
  <2>1. job' \in [Worker -> Job] /\ JobInv'
    BY <1>3, <1>5, ReturnStep DEF QueryFails
  <2>2. RowInv'
    BY <1>1, <1>3, QuietRow
  <2>. QED BY <1>1, <2>1, <2>2 DEF IInv, TypeOK
<1>. QED BY <1>4, <1>5

LEMMA StopIInv ==
  ASSUME IInv, NEW p \in Worker, Crash(p) \/ Restart(p)
  PROVE  IInv'
<1>1. UNCHANGED <<config, ref, wxr, notices>>
  BY DEF Crash, Restart
<1>2. Onward
  BY <1>1, StillOnward DEF IInv
<1>3. CASE Crash(p)
  <2>. DEFINE j == [IdleJob EXCEPT !.pc = "stopped"]
  <2>1. j \in Job /\ j.pc \notin Working /\ j.pc # "mark_status"
    BY DEF IdleJob, Job, Pcs, Upstream, Working
  <2>2. job' = [job EXCEPT ![p] = j]
    BY <1>3 DEF Crash
  <2>. HIDE DEF j
  <2>3. job' \in [Worker -> Job] /\ JobInv'
    BY <1>2, <2>1, <2>2, JobStep
  <2>4. RowInv'
    BY <1>1, <1>2, QuietRow
  <2>. QED BY <1>1, <2>3, <2>4 DEF IInv, TypeOK
<1>4. CASE Restart(p)
  <2>1. job' \in [Worker -> Job] /\ JobInv'
    BY <1>2, <1>4, ReturnStep DEF Restart
  <2>2. RowInv'
    BY <1>1, <1>2, QuietRow
  <2>. QED BY <1>1, <2>1, <2>2 DEF IInv, TypeOK
<1>. QED BY <1>3, <1>4

\* JobInv rests on the goroutines and on where the refunds are upstream.
LEMMA QuietJob ==
  ASSUME IInv, Onward, UNCHANGED job
  PROVE  JobInv'
BY DEF IInv, TypeOK, JobInv, Onward, Working

LEMMA EventIInv ==
  ASSUME IInv, NEW r \in Refund, NEW status \in Final,
         ApplyRefundEvent(r, status)
  PROVE  IInv'
<1>. DEFINE s == IF ref[r] = "SUCCESS" THEN ref[r] ELSE status
<1>1. UNCHANGED <<config, wxr, notices, job>>
  BY DEF ApplyRefundEvent
<1>2. s \in Row /\ (s \in Ended => wxr[r] = s)
  BY DEF ApplyRefundEvent, IInv, TypeOK, RowInv, Row, Upstream
<1>3. ref' = [ref EXCEPT ![r] = s]
  BY DEF ApplyRefundEvent, MarkRefundStatus
<1>. HIDE DEF s
<1>4. ref' \in [Refund -> Row] /\ RowInv'
  BY <1>1, <1>2, <1>3, RowStep
<1>5. JobInv'
  BY <1>1, QuietJob, StillOnward DEF IInv
<1>. QED BY <1>1, <1>4, <1>5 DEF IInv, TypeOK

LEMMA SettlesIInv ==
  ASSUME IInv, NEW r \in Refund, NEW status \in Final, RefundSettles(r, status)
  PROVE  IInv'
<1>1. /\ wxr[r] # "NONE" /\ wxr[r] \notin Ended
      /\ wxr' = [wxr EXCEPT ![r] = status]
      /\ notices' = notices \cup {<<r, status>>}
      /\ UNCHANGED <<config, ref, job>>
  BY DEF RefundSettles, Ended
<1>2. status \in Upstream /\ status # "NONE"
  BY DEF Upstream, Final
<1>3. Onward
  BY <1>1, <1>2 DEF IInv, TypeOK, Onward
<1>4. JobInv'
  BY <1>1, <1>3, QuietJob
<1>5. notices' \subseteq Refund \X Final
  BY <1>1 DEF IInv, TypeOK
<1>6. ASSUME NEW x \in Refund
      PROVE  /\ ref'[x] \in Ended => wxr'[x] = ref'[x]
             /\ \A s \in Final : <<x, s>> \in notices' =>
                  wxr'[x] # "NONE" /\ (s \in Ended => wxr'[x] = s)
  <2>1. CASE x = r
    BY <1>1, <1>2, <2>1 DEF IInv, TypeOK, RowInv
  <2>2. CASE x # r
    BY <1>1, <2>2 DEF IInv, TypeOK, RowInv
  <2>. QED BY <2>1, <2>2
<1>7. RowInv'
  BY <1>6 DEF RowInv
<1>. QED BY <1>1, <1>3, <1>4, <1>5, <1>7 DEF IInv, TypeOK, Onward

LEMMA NextIInv == IInv /\ [Next]_vars => IInv'
<1>. SUFFICES ASSUME IInv, [Next]_vars
              PROVE  IInv'
  OBVIOUS
<1>1. ASSUME NEW p \in Worker, NEW r \in Refund,
             \/ ApplyRead(p, r) \/ SyncRead(p, r)
             \/ \E approved \in BOOLEAN : ApproveRead(p, r, approved)
      PROVE  IInv'
  BY <1>1, BeginIInv
<1>2. ASSUME NEW p \in Worker, ApplyRequest(p) \/ ApproveRequest(p)
      PROVE  IInv'
  BY <1>2, RequestIInv
<1>3. ASSUME NEW p \in Worker, RequestFails(p)
      PROVE  IInv'
  BY <1>3, RequestFailsIInv
<1>4. ASSUME NEW p \in Worker, Writes(p)
      PROVE  IInv'
  BY <1>4, WritesIInv
<1>5. ASSUME NEW p \in Worker, QueryAnswers(p) \/ QueryFails(p)
      PROVE  IInv'
  BY <1>5, QueryIInv
<1>6. ASSUME NEW p \in Worker, Crash(p) \/ Restart(p)
      PROVE  IInv'
  BY <1>6, StopIInv
<1>7. ASSUME NEW r \in Refund, NEW status \in Final,
             ApplyRefundEvent(r, status)
      PROVE  IInv'
  BY <1>7, EventIInv
<1>8. ASSUME NEW r \in Refund, NEW status \in Final, RefundSettles(r, status)
      PROVE  IInv'
  BY <1>8, SettlesIInv
<1>9. CASE SetConfig
  <2>1. config' \in Config /\ UNCHANGED <<ref, wxr, notices, job>>
    BY <1>9 DEF SetConfig
  <2>2. Onward
    BY <2>1, StillOnward DEF IInv
  <2>. QED BY <2>1, <2>2, QuietJob, QuietRow DEF IInv, TypeOK
<1>10. ASSUME NEW r \in Refund, NEW status \in Final, LoseNotice(r, status)
       PROVE  IInv'
  <2>1. notices' \subseteq notices /\ UNCHANGED <<config, ref, wxr, job>>
    BY <1>10 DEF LoseNotice
  <2>2. Onward
    BY <2>1, StillOnward DEF IInv
  <2>3. RowInv'
    BY <2>1 DEF IInv, RowInv
  <2>. QED BY <2>1, <2>2, <2>3, QuietJob DEF IInv, TypeOK
<1>11. CASE UNCHANGED vars
  BY <1>11 DEF vars, IInv, TypeOK, RowInv, JobInv
<1>. QED
  BY <1>1, <1>2, <1>3, <1>4, <1>5, <1>6, <1>7, <1>8, <1>9, <1>10, <1>11
     DEF Next, Writes

----------------------------------------------------------------------------
(* Theorems.                                                               *)

\* IInv holds throughout: what a goroutine or a notification says of a
\* completed refund is still true when it is written.
THEOREM InductiveInvariant == Spec => []IInv
<1>. QED BY InitIInv, NextIInv, PTL DEF Spec

\* Every variable keeps its type, whatever the number of refunds and
\* goroutines.
THEOREM TypeCorrect == Spec => []TypeOK
<1>1. IInv => TypeOK
  BY DEF IInv
<1>. QED BY <1>1, InductiveInvariant, PTL

\* A row says SUCCESS only when the money went back, however late the answer
\* or the notification is that MarkRefundStatus, CreatePayRefund or
\* MarkRefundApproved applies.
THEOREM SuccessesAreReal == Spec => []SuccessIsReal
<1>1. IInv => SuccessIsReal
  BY DEF IInv, RowInv, SuccessIsReal, Ended
<1>. QED BY <1>1, InductiveInvariant, PTL

\* A row says CLOSED, which SyncRefundStatus asks about no more, only when the
\* refund is closed upstream: no late answer hides a refund that went through.
THEOREM ClosedAreReal == Spec => []ClosedIsReal
<1>1. IInv => ClosedIsReal
  BY DEF IInv, RowInv, ClosedIsReal, Ended
<1>. QED BY <1>1, InductiveInvariant, PTL

\* What a step of any kind does to a row: nothing, a status written in place
\* of another than SUCCESS by a goroutine or a notification that knows the
\* refund to be upstream, a first status, or the outcome of an approval.
LEMMA RowMoves ==
  ASSUME IInv, [Next]_vars, NEW r \in Refund
  PROVE  \/ ref'[r] = ref[r]
         \/ ref[r] \in {"NONE", "PENDING"}
         \/ ref[r] # "SUCCESS" /\ wxr[r] # "NONE"
<1>1. CASE UNCHANGED ref
  BY <1>1
<1>2. ASSUME NEW p \in Worker, CreatePending(p) \/ InsertRefund(p)
      PROVE  ref'[r] = ref[r] \/ ref[r] = "NONE"
  BY <1>2 DEF CreatePending, InsertRefund, Create, IInv, TypeOK
<1>3. ASSUME NEW p \in Worker, MarkRefundApproved(p)
      PROVE  ref'[r] = ref[r] \/ ref[r] = "PENDING"
  BY <1>3 DEF MarkRefundApproved, IInv, TypeOK
<1>4. ASSUME NEW p \in Worker, MarkSynced(p)
      PROVE  ref'[r] = ref[r] \/ (ref[r] # "SUCCESS" /\ wxr[r] # "NONE")
  BY <1>4 DEF MarkSynced, MarkRefundStatus, At, IInv, TypeOK, JobInv
<1>5. ASSUME NEW x \in Refund, NEW status \in Final,
             ApplyRefundEvent(x, status)
      PROVE  ref'[r] = ref[r] \/ (ref[r] # "SUCCESS" /\ wxr[r] # "NONE")
  BY <1>5 DEF ApplyRefundEvent, MarkRefundStatus, IInv, TypeOK, RowInv
<1>6. \/ UNCHANGED ref
      \/ \E p \in Worker : \/ CreatePending(p) \/ InsertRefund(p)
                           \/ MarkRefundApproved(p) \/ MarkSynced(p)
      \/ \E x \in Refund, status \in Final : ApplyRefundEvent(x, status)
  BY DEF Next, vars, ApplyRead, SyncRead, ApproveRead, Begin, RequestFails,
         ApplyRequest, ApproveRequest, QueryAnswers, QueryFails, Crash,
         Restart, RefundSettles, LoseNotice, SetConfig
<1>. QED BY <1>1, <1>2, <1>3, <1>4, <1>5, <1>6

\* Nothing takes SUCCESS back: not a late query, not a repeated notification,
\* not a repeated application.
THEOREM SuccessesStay == Spec => SuccessIsFinal
<1>1. IInv /\ [Next]_vars =>
        [\A r \in Refund : ref[r] = "SUCCESS" => ref'[r] = "SUCCESS"]_vars
  BY RowMoves
<1>. QED BY <1>1, InductiveInvariant, PTL DEF Spec, SuccessIsFinal

\* A refund rejected and not sent upstream stays rejected: no application, no
\* second approver and no late query moves it.
THEOREM RejectionsStick == Spec => RejectionSticks
<1>1. IInv /\ [Next]_vars =>
        [\A r \in Refund : ref[r] = "REJECTED" /\ wxr[r] = "NONE"
                             => ref'[r] = "REJECTED"]_vars
  BY RowMoves
<1>. QED BY <1>1, InductiveInvariant, PTL DEF Spec, RejectionSticks

----------------------------------------------------------------------------
(* Orphans.                                                                *)

\* A goroutine that works on a row has found one, and one that writes an
\* answer has got it.
Finds == {"approve", "mark_approved", "mark_rejected", "query", "mark_status"}

KnownInv ==
  \A p \in Worker :
    /\ job[p].pc \in Finds => ref[job[p].refund] # "NONE"
    /\ job[p].pc \in {"insert", "mark_approved", "mark_status"} =>
         job[p].answer # "NONE"

\* What KnownInv says of one goroutine in the next state.
KnownNext(p) ==
  /\ job'[p].pc \in Finds => ref'[job'[p].refund] # "NONE"
  /\ job'[p].pc \in {"insert", "mark_approved", "mark_status"} =>
       job'[p].answer # "NONE"

\* No step removes a row.
LEMMA RowsStay ==
  ASSUME IInv, KnownInv, [Next]_vars, NEW r \in Refund, ref[r] # "NONE"
  PROVE  ref'[r] # "NONE"
<1>1. CASE UNCHANGED ref
  BY <1>1
<1>2. ASSUME NEW p \in Worker, CreatePending(p) \/ InsertRefund(p)
      PROVE  ref'[r] = ref[r]
  BY <1>2 DEF CreatePending, InsertRefund, Create, IInv, TypeOK
<1>3. ASSUME NEW p \in Worker, MarkRefundApproved(p)
      PROVE  ref'[r] # "NONE"
  BY <1>3 DEF MarkRefundApproved, At, KnownInv, IInv, TypeOK
<1>4. ASSUME NEW p \in Worker, MarkSynced(p)
      PROVE  ref'[r] # "NONE"
  BY <1>4 DEF MarkSynced, MarkRefundStatus, At, KnownInv, IInv, TypeOK
<1>5. ASSUME NEW x \in Refund, NEW status \in Final,
             ApplyRefundEvent(x, status)
      PROVE  ref'[r] # "NONE"
  BY <1>5 DEF ApplyRefundEvent, MarkRefundStatus, Final, IInv, TypeOK
<1>6. \/ UNCHANGED ref
      \/ \E p \in Worker : \/ CreatePending(p) \/ InsertRefund(p)
                           \/ MarkRefundApproved(p) \/ MarkSynced(p)
      \/ \E x \in Refund, status \in Final : ApplyRefundEvent(x, status)
  BY DEF Next, vars, ApplyRead, SyncRead, ApproveRead, Begin, RequestFails,
         ApplyRequest, ApproveRequest, QueryAnswers, QueryFails, Crash,
         Restart, RefundSettles, LoseNotice, SetConfig
<1>. QED BY <1>1, <1>2, <1>3, <1>4, <1>5, <1>6

\* A job that has what it needs, and a step of goroutine p to such a job.
Informed(j) ==
  /\ j.pc \in Finds => j.refund \in Refund /\ ref[j.refund] # "NONE"
  /\ j.pc \in {"insert", "mark_approved", "mark_status"} => j.answer # "NONE"

Moves(p) == \E j \in Job : job' = [job EXCEPT ![p] = j] /\ Informed(j)

LEMMA BeginMoves ==
  ASSUME NEW p \in Worker, NEW r \in Refund, NEW pc \in Pcs, Begin(p, pc, r),
         pc \notin {"insert", "mark_approved", "mark_status"},
         pc \in Finds => ref[r] # "NONE"
  PROVE  Moves(p)
<1>. DEFINE j == [pc |-> pc, refund |-> r, answer |-> "NONE"]
<1>1. j \in Job
  BY DEF Job, Upstream
<1>2. Informed(j)
  BY DEF Informed
<1>3. job' = [job EXCEPT ![p] = j]
  BY DEF Begin
<1>. HIDE DEF j
<1>. QED BY <1>1, <1>2, <1>3 DEF Moves

\* What a step does to a job.
LEMMA JobMoves ==
  ASSUME IInv, KnownInv, [Next]_vars
  PROVE  UNCHANGED job \/ \E p \in Worker : Moves(p)
<1>1. ASSUME NEW p \in Worker, NEW r \in Refund, ApplyRead(p, r)
      PROVE  Moves(p)
  <2>1. PICK pc \in {"create_pending", "request"} : Begin(p, pc, r)
    BY <1>1 DEF ApplyRead
  <2>. QED BY <2>1, BeginMoves DEF Pcs, Finds
<1>2. ASSUME NEW p \in Worker, NEW r \in Refund,
             \/ SyncRead(p, r)
             \/ \E approved \in BOOLEAN : ApproveRead(p, r, approved)
      PROVE  Moves(p)
  <2>1. PICK pc \in {"query", "approve", "mark_rejected"} : Begin(p, pc, r)
    BY <1>2 DEF SyncRead, ApproveRead
  <2>2. ref[r] # "NONE"
    BY <1>2 DEF SyncRead, ApproveRead
  <2>. QED BY <2>1, <2>2, BeginMoves DEF Pcs
<1>3. ASSUME NEW p \in Worker,
             \/ RequestFails(p) \/ CreatePending(p) \/ InsertRefund(p)
             \/ MarkRefundApproved(p) \/ QueryFails(p) \/ MarkSynced(p)
             \/ Crash(p) \/ Restart(p)
      PROVE  Moves(p)
  <2>1. PICK j \in {IdleJob, [IdleJob EXCEPT !.pc = "stopped"]} :
          job' = [job EXCEPT ![p] = j]
    BY <1>3 DEF RequestFails, CreatePending, InsertRefund, Create, QueryFails,
                MarkRefundApproved, MarkSynced, Crash, Restart, Return
  <2>2. j \in Job /\ Informed(j)
    BY DEF IdleJob, Job, Pcs, Upstream, Informed, Finds
  <2>. QED BY <2>1, <2>2 DEF Moves
<1>4. ASSUME NEW p \in Worker,
             ApplyRequest(p) \/ ApproveRequest(p) \/ QueryAnswers(p)
      PROVE  Moves(p)
  <2>. DEFINE r == job[p].refund
  <2>1. job[p].pc \in Working
    BY <1>4 DEF ApplyRequest, ApproveRequest, QueryAnswers, At, Working
  <2>2. job[p] \in Job /\ r \in Refund
    BY <2>1 DEF IInv, TypeOK, JobInv
  <2>3. Onward /\ wxr'[r] # "NONE"
    <3>1. CASE QueryAnswers(p)
      BY <3>1, StillOnward DEF QueryAnswers, IInv
    <3>2. CASE ApplyRequest(p) \/ ApproveRequest(p)
      BY <3>2, <2>2, RequestOnward DEF ApplyRequest, ApproveRequest, IInv
    <3>. QED BY <1>4, <3>1, <3>2
  <2>4. wxr'[r] \in Upstream
    BY <2>2, <2>3 DEF Onward
  <2>5. PICK pc \in {"insert", "mark_approved", "mark_status"} :
          /\ Answered(p, pc, wxr'[r])
          /\ pc = "insert" \/ job[p].pc \in Finds
    <3>1. CASE ApplyRequest(p)
      BY <3>1 DEF ApplyRequest
    <3>2. CASE ApproveRequest(p)
      BY <3>2 DEF ApproveRequest, At, Finds
    <3>3. CASE QueryAnswers(p)
      BY <3>3 DEF QueryAnswers, At, Finds
    <3>. QED BY <1>4, <3>1, <3>2, <3>3
  <2>. DEFINE j == [job[p] EXCEPT !.pc = pc, !.answer = wxr'[r]]
  <2>6. j \in Job /\ j.pc = pc /\ j.refund = r /\ j.answer = wxr'[r]
    BY <2>2, <2>4, <2>5 DEF Job, Pcs
  <2>7. job' = [job EXCEPT ![p] = j]
    BY <2>2, <2>5 DEF Answered, IInv, TypeOK, Job
  <2>8. pc \in Finds => ref[r] # "NONE"
    BY <2>5 DEF KnownInv, Finds
  <2>. HIDE DEF j
  <2>9. Informed(j)
    BY <2>2, <2>3, <2>6, <2>8 DEF Informed
  <2>. QED BY <2>6, <2>7, <2>9 DEF Moves
<1>5. CASE UNCHANGED job
  BY <1>5
<1>. QED
  BY <1>1, <1>2, <1>3, <1>4, <1>5
     DEF Next, vars, ApplyRefundEvent, RefundSettles, LoseNotice, SetConfig

LEMMA KnownStep == IInv /\ KnownInv /\ [Next]_vars => KnownInv'
<1>. SUFFICES ASSUME IInv, KnownInv, [Next]_vars, NEW q \in Worker
              PROVE  KnownNext(q)
  BY DEF KnownInv, KnownNext
<1>1. ASSUME NEW j \in Job, job'[q] = j, Informed(j)
      PROVE  KnownNext(q)
  BY <1>1, RowsStay DEF KnownNext, Informed
<1>2. CASE job'[q] = job[q]
  <2>1. job[q].pc \in Finds => job[q].refund \in Refund
    BY DEF IInv, JobInv, Finds, Working
  <2>2. job[q] \in Job /\ Informed(job[q])
    BY <2>1 DEF IInv, TypeOK, KnownInv, Informed
  <2>. QED BY <1>1, <1>2, <2>2
<1>3. CASE job'[q] # job[q]
  <2>1. PICK p \in Worker, j \in Job : job' = [job EXCEPT ![p] = j] /\ Informed(j)
    BY <1>3, JobMoves DEF Moves
  <2>2. job'[q] = j
    BY <1>3, <2>1 DEF IInv, TypeOK
  <2>. QED BY <1>1, <2>1, <2>2
<1>. QED BY <1>2, <1>3

LEMMA Known == Spec => []KnownInv
<1>1. Init => KnownInv
  BY DEF Init, IdleJob, KnownInv, Finds
<1>. QED BY <1>1, KnownStep, InductiveInvariant, PTL DEF Spec

\* A step that makes a refund an orphan is a lost answer or a crash before the
\* insert: an insert that comes second has been beaten by another row, and an
\* approval has one.
LEMMA OrphanStep ==
  ASSUME IInv, KnownInv, [Next]_vars, NEW r \in Refund,
         ~Orphan(r), Orphan(r)'
  PROVE  \E p \in Worker : \/ At(p, "insert") /\ job'[p].pc = "stopped"
                           \/ At(p, "request") /\ job'[p].pc = "idle"
<1>1. wxr'[r] # "NONE" /\ ref'[r] = "NONE"
  BY DEF Orphan
<1>2. ref[r] = "NONE"
  BY <1>1, RowsStay
<1>3. ASSUME NEW p \in Worker PROVE ~(job'[p].pc = "insert" /\ job'[p].refund = r)
  BY DEF Orphan, At
<1>4. CASE wxr[r] = "NONE"
  <2>1. ASSUME NEW p \in Worker, job[p].pc \in Finds
        PROVE  job[p].refund # r
    BY <1>2, <2>1 DEF KnownInv
  <2>2. PICK p \in Worker : /\ job[p].refund = r
                            /\ ApplyRequest(p) \/ ApproveRequest(p) \/ RequestFails(p)
    <3>1. \/ UNCHANGED wxr
          \/ \E p \in Worker :
               ApplyRequest(p) \/ ApproveRequest(p) \/ RequestFails(p)
          \/ \E x \in Refund, status \in Final : RefundSettles(x, status)
      BY DEF Next, vars, ApplyRead, SyncRead, ApproveRead, Begin, CreatePending,
             InsertRefund, Create, MarkRefundApproved, QueryAnswers, QueryFails,
             MarkSynced, Crash, Restart, ApplyRefundEvent, LoseNotice, SetConfig
    <3>2. ASSUME NEW x \in Refund, NEW status \in Final, RefundSettles(x, status)
          PROVE  FALSE
      BY <1>1, <1>4, <3>2 DEF RefundSettles, IInv, TypeOK
    <3>3. ASSUME NEW p \in Worker,
                 ApplyRequest(p) \/ ApproveRequest(p) \/ RequestFails(p)
          PROVE  job[p].refund = r
      <4>1. RequestRefund(job[p].refund) \/ UNCHANGED wxr
        BY <3>3 DEF ApplyRequest, ApproveRequest, RequestFails
      <4>. QED BY <1>1, <1>4, <4>1 DEF RequestRefund, IInv, TypeOK
    <3>. QED BY <1>1, <1>4, <3>1, <3>2, <3>3
  <2>3. CASE ApplyRequest(p)
    <3>1. job[p] \in Job
      BY DEF IInv, TypeOK
    <3>2. job'[p].pc = "insert" /\ job'[p].refund = r
      BY <2>2, <2>3, <3>1 DEF ApplyRequest, Answered, IInv, TypeOK, Job
    <3>. QED BY <1>3, <3>2
  <2>4. CASE ApproveRequest(p)
    BY <2>1, <2>2, <2>4 DEF ApproveRequest, At, Finds
  <2>5. CASE RequestFails(p)
    <3>1. job[p].pc = "request"
      BY <2>1, <2>2, <2>5 DEF RequestFails, Finds
    <3>2. job'[p].pc = "idle"
      BY <2>5 DEF RequestFails, Return, IdleJob, IInv, TypeOK
    <3>. QED BY <3>1, <3>2 DEF At
  <2>. QED BY <2>2, <2>3, <2>4, <2>5
<1>5. CASE wxr[r] # "NONE"
  <2>1. PICK p \in Worker : job[p].pc = "insert" /\ job[p].refund = r
    BY <1>2, <1>5 DEF Orphan, At
  <2>2. job'[p] # job[p]
    BY <1>3, <2>1
  <2>3. ~InsertRefund(p)
    BY <1>1, <1>2, <2>1 DEF InsertRefund, Create, KnownInv, IInv, TypeOK
  <2>5. Crash(p)
    <3>1. CASE \E q \in Worker, x \in Refund :
                 \/ ApplyRead(q, x) \/ SyncRead(q, x)
                 \/ \E approved \in BOOLEAN : ApproveRead(q, x, approved)
      BY <2>1, <2>2, <3>1
         DEF ApplyRead, SyncRead, ApproveRead, Begin, At, IInv, TypeOK
    <3>2. CASE \E q \in Worker :
                 \/ RequestFails(q) \/ CreatePending(q) \/ ApplyRequest(q)
                 \/ ApproveRequest(q) \/ MarkRefundApproved(q)
                 \/ QueryAnswers(q) \/ QueryFails(q) \/ MarkSynced(q)
                 \/ Restart(q)
      BY <2>1, <2>2, <3>2
         DEF RequestFails, CreatePending, Create, ApplyRequest, ApproveRequest,
             MarkRefundApproved, QueryAnswers, QueryFails, MarkSynced, Restart,
             Answered, Return, At, IInv, TypeOK
    <3>3. CASE \E q \in Worker : InsertRefund(q) \/ Crash(q)
      BY <2>2, <2>3, <3>3 DEF InsertRefund, Create, Crash, Return, IInv, TypeOK
    <3>4. CASE UNCHANGED job
      BY <2>2, <3>4
    <3>. QED
      BY <3>1, <3>2, <3>3, <3>4
         DEF Next, vars, ApplyRefundEvent, RefundSettles, LoseNotice, SetConfig
  <2>6. job'[p].pc = "stopped"
    BY <2>5 DEF Crash, IdleJob, IInv, TypeOK
  <2>. QED BY <2>1, <2>6 DEF At
<1>. QED BY <1>4, <1>5

\* ApplyRefund loses no refund to a race for its row: a refund that WeChat Pay
\* has and nobody here knows of comes from a lost answer or a crash alone.
THEOREM OrphansOnlyByFailure == Spec => OrphanOnlyByFailure
<1>1. IInv /\ KnownInv /\ [Next]_vars =>
        [\A r \in Refund : ~Orphan(r) /\ Orphan(r)' =>
           \E p \in Worker : \/ At(p, "insert") /\ job'[p].pc = "stopped"
                             \/ At(p, "request") /\ job'[p].pc = "idle"]_vars
  BY OrphanStep
<1>. QED BY <1>1, InductiveInvariant, Known, PTL DEF Spec, OrphanOnlyByFailure

----------------------------------------------------------------------------
(* The delivery ledger, whose goroutines serve pushes.                     *)

Holding == {"deliver", "release", "mark"}

\* A goroutine at work is at work on a transaction.
ServerInv == \A w \in Server : ~ServingAt(w, "idle") => serving[w].txn \in Txn

\* A holder's placeholder is in the table, and nobody else holds it.
HolderInv ==
  \A w \in Server : serving[w].pc \in Holding =>
    /\ row[serving[w].txn] = "delivering"
    /\ delivered[serving[w].txn] = IF ServingAt(w, "mark") THEN 1 ELSE 0
    /\ \A v \in Server :
         serving[v].pc \in Holding /\ serving[v].txn = serving[w].txn => v = w

\* A transaction without a row was not delivered, a delivered one was, and a
\* placeholder left behind stands for at most one delivery.
LedgerRowInv ==
  \A t \in Txn :
    /\ row[t] = "none" => delivered[t] = 0
    /\ row[t] = "delivering" => delivered[t] \in {0, 1}
    /\ row[t] = "delivered" => delivered[t] = 1

LedgerInv == LedgerTypeOK /\ ServerInv /\ HolderInv /\ LedgerRowInv

LEMMA InitLedger == LedgerInit => LedgerInv
BY DEF LedgerInit, LedgerTypeOK, ServingAt, NotServing, ServingPcs, LedgerInv,
       ServerInv, HolderInv, LedgerRowInv, Holding

LEMMA InsertKeeps ==
  ASSUME LedgerInv, NEW w \in Server, NEW t \in Txn, Insert(w, t)
  PROVE  LedgerInv'
<1> USE DEF LedgerInv, ServingAt, ServingPcs, Holding
<1>1. LedgerTypeOK'
  BY DEF Insert, LedgerTypeOK
<1>2. ServerInv'
  BY DEF Insert, LedgerTypeOK, ServerInv
<1>3. HolderInv'
  BY DEF Insert, LedgerTypeOK, ServerInv, HolderInv, LedgerRowInv
<1>4. LedgerRowInv'
  BY DEF Insert, LedgerTypeOK, LedgerRowInv
<1>. QED BY <1>1, <1>2, <1>3, <1>4

\* A goroutine that leaves the ledger alone may end, holding or not.
LEMMA ServerReturns ==
  ASSUME LedgerInv, NEW w \in Server, Refuse(w) \/ Answer(w),
         serving[w].txn \in Txn,
         UNCHANGED <<fault, row, delivered>>
  PROVE  LedgerInv'
<1> USE DEF LedgerInv, ServingAt, ServingPcs, Holding
<1>1. serving' = [serving EXCEPT ![w] = NotServing] /\ answered' \subseteq Txn
  BY DEF Refuse, Answer, LedgerTypeOK
<1>2. LedgerTypeOK'
  BY <1>1 DEF LedgerTypeOK, NotServing
<1>3. ServerInv'
  BY <1>1 DEF LedgerTypeOK, ServerInv, NotServing
<1>4. HolderInv'
  BY <1>1 DEF LedgerTypeOK, HolderInv, NotServing
<1>5. LedgerRowInv'
  BY DEF LedgerRowInv
<1>. QED BY <1>2, <1>3, <1>4, <1>5

LEMMA DeliverKeeps ==
  ASSUME LedgerInv, NEW w \in Server, Deliver(w) \/ DeliverFails(w)
  PROVE  LedgerInv'
<1> USE DEF LedgerInv, ServingAt, ServingPcs, Holding, ServingGoes
<1>1. ServingAt(w, "deliver") /\ serving[w].txn \in Txn
  BY DEF Deliver, DeliverFails, ServerInv
<1>2. LedgerTypeOK'
  BY <1>1 DEF Deliver, DeliverFails, LedgerTypeOK
<1>3. ServerInv'
  BY <1>1 DEF Deliver, DeliverFails, LedgerTypeOK, ServerInv
<1>4. HolderInv'
  BY <1>1 DEF Deliver, DeliverFails, LedgerTypeOK, ServerInv, HolderInv
<1>5. LedgerRowInv'
  BY <1>1 DEF Deliver, DeliverFails, LedgerTypeOK, HolderInv, LedgerRowInv
<1>. QED BY <1>2, <1>3, <1>4, <1>5

LEMMA SettleKeeps ==
  ASSUME LedgerInv, NEW w \in Server, Release(w) \/ Mark(w)
  PROVE  LedgerInv'
<1> USE DEF LedgerInv, ServingAt, ServingPcs, Holding
<1>1. serving[w].pc \in {"release", "mark"} /\ serving[w].txn \in Txn
  BY DEF Release, Mark, ServerInv
<1>2. CASE UNCHANGED row
  BY <1>1, <1>2, ServerReturns DEF Release, Mark
<1>3. CASE ~UNCHANGED row
  <2>1. /\ row' = [row EXCEPT ![serving[w].txn] =
                     IF ServingAt(w, "mark") THEN "delivered" ELSE "none"]
        /\ serving' = [serving EXCEPT ![w] = NotServing]
        /\ answered' \subseteq Txn
        /\ UNCHANGED <<fault, delivered>>
    BY <1>1, <1>3 DEF Release, Mark, Refuse, Answer, LedgerTypeOK
  <2>2. LedgerTypeOK'
    BY <1>1, <2>1 DEF LedgerTypeOK, NotServing
  <2>3. ServerInv'
    BY <2>1 DEF LedgerTypeOK, ServerInv, NotServing
  <2>4. HolderInv'
    BY <1>1, <2>1 DEF LedgerTypeOK, ServerInv, HolderInv, NotServing
  <2>5. LedgerRowInv'
    BY <1>1, <2>1 DEF LedgerTypeOK, HolderInv, LedgerRowInv
  <2>. QED BY <2>2, <2>3, <2>4, <2>5
<1>. QED BY <1>2, <1>3

LEMMA NextLedger == LedgerInv /\ [LedgerNext]_ledgerVars => LedgerInv'
<1> SUFFICES ASSUME LedgerInv, [LedgerNext]_ledgerVars PROVE LedgerInv'
  OBVIOUS
<1>1. CASE UNCHANGED ledgerVars
  BY <1>1 DEF ledgerVars, LedgerTypeOK, ServingAt, LedgerInv, ServerInv,
              HolderInv, LedgerRowInv
<1>2. ASSUME NEW w \in Server, NEW t \in Txn, Insert(w, t) PROVE LedgerInv'
  BY <1>2, InsertKeeps
<1>3. ASSUME NEW w \in Server, Look(w) \/ ServingStops(w) PROVE LedgerInv'
  BY <1>3, ServerReturns DEF Look, ServingStops, LedgerInv, ServerInv, ServingAt
<1>4. ASSUME NEW w \in Server, Deliver(w) \/ DeliverFails(w)
      PROVE  LedgerInv'
  BY <1>4, DeliverKeeps
<1>5. ASSUME NEW w \in Server, Release(w) \/ Mark(w) PROVE LedgerInv'
  BY <1>5, SettleKeeps
<1>. QED BY <1>1, <1>2, <1>3, <1>4, <1>5 DEF LedgerNext

\* The strengthening holds in every reachable state.
THEOREM LedgerInvariant == LedgerSpec => []LedgerInv
BY InitLedger, NextLedger, PTL DEF LedgerSpec

\* Every variable keeps its type, for any transactions and goroutines.
THEOREM LedgerTypeCorrect == LedgerSpec => []LedgerTypeOK
<1>1. LedgerInv => LedgerTypeOK
  BY DEF LedgerInv
<1>. QED BY <1>1, LedgerInvariant, PTL

\* Once (pay/delivery.go): deliver takes effect at most once for a
\* transaction, for any number of pushes, failures and crashes.
THEOREM DeliversOnce == LedgerSpec => []AtMostOnce
<1>1. LedgerInv => AtMostOnce
  <2> SUFFICES ASSUME LedgerInv, NEW t \in Txn PROVE delivered[t] <= 1
    BY DEF AtMostOnce
  <2>1. row[t] \in {"none", "delivering", "delivered"}
    BY DEF LedgerInv, LedgerTypeOK
  <2>2. delivered[t] \in {0, 1}
    BY <2>1 DEF LedgerInv, LedgerRowInv
  <2>. QED BY <2>2
<1>. QED BY <1>1, LedgerInvariant, PTL

\* A row says "delivered" only when deliver has taken effect.
THEOREM RowsAreReal == LedgerSpec => []DeliveredIsReal
<1>1. LedgerInv => DeliveredIsReal
  BY DEF LedgerInv, LedgerRowInv, DeliveredIsReal
<1>. QED BY <1>1, LedgerInvariant, PTL

\* Whoever gets a success for a transaction that was not delivered met a
\* placeholder that was released or could not be read when it looked.
THEOREM AnswersDelivered == LedgerSpec => AnswersAreDelivered
<1>1. LedgerInv /\ [LedgerNext]_ledgerVars =>
        [\A t \in answered' \ answered :
           \/ delivered'[t] = 1
           \/ \E w \in Server :
                /\ ServingAt(w, "look") /\ serving[w].txn = t
                /\ serving'[w].pc = "idle"
                /\ row[t] = "none" \/ fault]_ledgerVars
  <2> SUFFICES ASSUME LedgerInv, LedgerNext, NEW t \in answered' \ answered
               PROVE  \/ delivered'[t] = 1
                      \/ \E w \in Server :
                           /\ ServingAt(w, "look") /\ serving[w].txn = t
                           /\ serving'[w].pc = "idle"
                           /\ row[t] = "none" \/ fault
    BY DEF ledgerVars
  <2>1. PICK w \in Server : Look(w) \/ Mark(w)
    BY DEF LedgerNext, Insert, Deliver, DeliverFails, Release, ServingStops,
           Refuse
  <2>2. Answer(w) /\ UNCHANGED delivered
    BY <2>1 DEF Look, Mark, Refuse
  <2>3. t = serving[w].txn /\ serving'[w].pc = "idle" /\ t \in Txn
    <3>1. t = serving[w].txn /\ serving' = [serving EXCEPT ![w] = NotServing]
      BY <2>2 DEF Answer
    <3>2. serving'[w] = NotServing
      BY <3>1 DEF LedgerInv, LedgerTypeOK
    <3>3. ~ServingAt(w, "idle")
      BY <2>1 DEF Look, Mark, ServingAt
    <3>. QED BY <3>1, <3>2, <3>3 DEF NotServing, LedgerInv, ServerInv
  <2>4. CASE Mark(w)
    BY <2>2, <2>3, <2>4 DEF Mark, LedgerInv, HolderInv, Holding, ServingAt
  <2>5. CASE Look(w)
    <3>1. row[t] \in {"none", "delivering", "delivered"}
      BY <2>3 DEF LedgerInv, LedgerTypeOK
    <3>2. CASE row[t] = "delivered"
      BY <2>2, <2>3, <3>2 DEF LedgerInv, LedgerRowInv
    <3>3. CASE row[t] = "none"
      BY <2>3, <2>5, <3>3 DEF Look
    <3>4. CASE row[t] = "delivering"
      <4>1. fault
        BY <2>2, <2>3, <2>5, <3>4 DEF Look, Refuse, Answer
      <4>. QED BY <2>3, <2>5, <4>1 DEF Look
    <3>. QED BY <3>1, <3>2, <3>3, <3>4
  <2>. QED BY <2>1, <2>4, <2>5
<1>. QED BY <1>1, LedgerInvariant, PTL DEF LedgerSpec, AnswersAreDelivered
=============================================================================
