--------------------------- MODULE DeliveryLedger ---------------------------
(***************************************************************************)
(* Delivery of what was paid for: pay/delivery.go.  A payment channel      *)
(* pushes a paid transaction until the handler returns no error; each push *)
(* runs Once, whose placeholder row in pay_deliveries is to make deliver   *)
(* run once per transaction.  Each database statement and the call of      *)
(* deliver is one step.                                                    *)
(*                                                                         *)
(* Abstracted: providers, order data, times, and the error of the insert   *)
(* (a push that did nothing).  deliver is the embedding service's: one     *)
(* that returns an error has had no effect.  A row is deleted and updated  *)
(* by the id of its insert, and only its inserter does.                    *)
(***************************************************************************)
EXTENDS Naturals

CONSTANTS
  Txn,     \* paid transactions of a channel
  NoTxn,   \* "no transaction", for idle goroutines
  Server,  \* goroutines serving pushes
  Faults   \* the behaviours an instance considers: with and without failures
           \* of the database and crashes

ASSUME DeliveryAssumption ==
  /\ NoTxn \notin Txn
  /\ Faults \subseteq BOOLEAN

VARIABLES
  fault,      \* whether statements may fail and goroutines may stop
  row,        \* row[t]: the status of the PayDelivery row of t
  delivered,  \* delivered[t]: how often deliver has taken effect for t
  answered,   \* transactions whose push was answered with success
  serving     \* serving[w]: what goroutine w is doing

ledgerVars == <<fault, row, delivered, answered, serving>>

ServingPcs == {"idle", "look", "deliver", "release", "mark"}

LedgerTypeOK ==
  /\ fault \in Faults
  /\ row \in [Txn -> {"none", "delivering", "delivered"}]
  /\ delivered \in [Txn -> Nat]
  /\ answered \subseteq Txn
  /\ serving \in [Server -> [pc: ServingPcs, txn: Txn \cup {NoTxn}]]

NotServing == [pc |-> "idle", txn |-> NoTxn]

LedgerInit ==
  /\ fault \in Faults
  /\ row = [t \in Txn |-> "none"]
  /\ delivered = [t \in Txn |-> 0]
  /\ answered = {}
  /\ serving = [w \in Server |-> NotServing]

ServingAt(w, pc) == serving[w].pc = pc

ServingGoes(w, pc) == serving' = [serving EXCEPT ![w].pc = pc]

\* Once returns an error, and the channel pushes again.
Refuse(w) ==
  /\ serving' = [serving EXCEPT ![w] = NotServing]
  /\ UNCHANGED answered

\* Once returns no error.
Answer(w) ==
  /\ serving' = [serving EXCEPT ![w] = NotServing]
  /\ answered' = answered \cup {serving[w].txn}

----------------------------------------------------------------------------

\* Mutant: whether the insert has changed a row is not looked at.
InsertUnchecked(w, t) ==
  /\ ServingAt(w, "idle")
  /\ row' = [row EXCEPT ![t] = IF @ = "none" THEN "delivering" ELSE @]
  /\ serving' = [serving EXCEPT ![w] = [pc |-> "deliver", txn |-> t]]
  /\ UNCHANGED <<fault, delivered, answered>>

\* INSERT ... ON CONFLICT DO NOTHING: the placeholder, or a look at the row
\* that is there.
Insert(w, t) ==
  /\ ServingAt(w, "idle")
  /\ row' = [row EXCEPT ![t] = IF @ = "none" THEN "delivering" ELSE @]
  /\ serving' = [serving EXCEPT ![w] =
               [pc |-> IF row[t] = "none" THEN "deliver" ELSE "look",
                txn |-> t]]
  /\ UNCHANGED <<fault, delivered, answered>>

\* Only "delivering" is an error.  A row that has gone in the meantime, or
\* that could not be read, leaves an empty status, taken for "delivered".
Look(w) ==
  /\ ServingAt(w, "look")
  /\ \/ row[serving[w].txn] = "delivering" /\ Refuse(w)
     \/ (row[serving[w].txn] # "delivering" \/ fault) /\ Answer(w)
  /\ UNCHANGED <<fault, row, delivered>>

Deliver(w) ==
  /\ ServingAt(w, "deliver")
  /\ delivered' = [delivered EXCEPT ![serving[w].txn] = @ + 1]
  /\ ServingGoes(w, "mark")
  /\ UNCHANGED <<fault, row, answered>>

\* Mutant: the error of deliver is dropped.
DeliverFailsUnseen(w) ==
  /\ ServingAt(w, "deliver")
  /\ ServingGoes(w, "mark")
  /\ UNCHANGED <<fault, row, delivered, answered>>

DeliverFails(w) ==
  /\ ServingAt(w, "deliver")
  /\ ServingGoes(w, "release")
  /\ UNCHANGED <<fault, row, delivered, answered>>

\* The result of the DELETE is not looked at; it runs in the context of the
\* request, like every statement here.
Release(w) ==
  /\ ServingAt(w, "release")
  /\ \/ row' = [row EXCEPT ![serving[w].txn] = "none"]
     \/ fault /\ UNCHANGED row
  /\ Refuse(w)
  /\ UNCHANGED <<fault, delivered>>

\* Mutant: the state of the payment is stored for the status.
MarkState(w) ==
  /\ ServingAt(w, "mark")
  /\ row' = [row EXCEPT ![serving[w].txn] = "SUCCESS"]
  /\ Answer(w)
  /\ UNCHANGED <<fault, delivered>>

\* The result of the UPDATE is not looked at.
Mark(w) ==
  /\ ServingAt(w, "mark")
  /\ \/ row' = [row EXCEPT ![serving[w].txn] = "delivered"]
     \/ fault /\ UNCHANGED row
  /\ Answer(w)
  /\ UNCHANGED <<fault, delivered>>

ServingStops(w) ==
  /\ fault
  /\ ~ServingAt(w, "idle")
  /\ Refuse(w)
  /\ UNCHANGED <<fault, row, delivered>>

LedgerNext ==
  \E w \in Server :
    \/ \E t \in Txn : Insert(w, t)
    \/ Look(w) \/ Deliver(w) \/ DeliverFails(w) \/ Release(w) \/ Mark(w)
    \/ ServingStops(w)

LedgerSpec == LedgerInit /\ [][LedgerNext]_ledgerVars

----------------------------------------------------------------------------
(* Properties.                                                             *)

\* Once: whatever is pushed how often, fails or stops, deliver takes effect
\* once for a transaction.
AtMostOnce == \A t \in Txn : delivered[t] <= 1

\* The ledger reports a delivery only after it happened.
DeliveredIsReal ==
  \A t \in Txn : row[t] = "delivered" => delivered[t] = 1

\* A transaction is first answered with success when it was delivered.  Once's
\* comment promises this of every answer (pay/delivery.go:37); the code makes
\* one exception, and the property names it: a push that met a placeholder
\* and whose look then finds it released, or cannot read it, answers with
\* success and nothing delivered, and the channel does not push again.
AnswersAreDelivered ==
  [][\A t \in answered' \ answered :
       \/ delivered'[t] = 1
       \/ \E w \in Server :
            /\ ServingAt(w, "look") /\ serving[w].txn = t
            /\ serving'[w].pc = "idle"
            /\ row[t] = "none" \/ fault]_ledgerVars
=============================================================================
