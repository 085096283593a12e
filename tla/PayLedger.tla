----------------------------- MODULE PayLedger -----------------------------
(***************************************************************************)
(* What the payment-order table promises to the rest of the system: an     *)
(* order is opened once, money is charged at most once and only for an     *)
(* opened order, PAID is entered only after the charge and never left, and *)
(* the only way out of CLOSED is the late arrival of a charge.             *)
(*                                                                         *)
(* PayOrder implements this specification (PayOrder!Ledger).               *)
(***************************************************************************)
CONSTANT Order

VARIABLES status,   \* status[o]: the row of order o, "NONE" before it exists
          charged   \* charged[o]: the payer's money has been taken

lvars == <<status, charged>>

Init ==
  /\ status \in [Order -> {"NONE", "CREATED"}]
  /\ charged = [o \in Order |-> FALSE]

Open(o) ==
  /\ status[o] = "NONE"
  /\ status' = [status EXCEPT ![o] = "CREATED"]
  /\ UNCHANGED charged

Charge(o) ==
  /\ status[o] # "NONE"
  /\ ~charged[o]
  /\ charged' = [charged EXCEPT ![o] = TRUE]
  /\ UNCHANGED status

Settle(o) ==
  /\ charged[o]
  /\ status[o] \in {"CREATED", "CLOSED"}
  /\ status' = [status EXCEPT ![o] = "PAID"]
  /\ UNCHANGED charged

Close(o) ==
  /\ status[o] = "CREATED"
  /\ status' = [status EXCEPT ![o] = "CLOSED"]
  /\ UNCHANGED charged

Next == \E o \in Order : Open(o) \/ Charge(o) \/ Settle(o) \/ Close(o)

Spec == Init /\ [][Next]_lvars
=============================================================================
