--------------------------- MODULE PaymentOrders ---------------------------
(***************************************************************************)
(* What the billing of Pipka promises about one order, with every database *)
(* session, HTTP call and lock left out: an order is opened, may fail, and *)
(* is paid at most once; the step that makes it paid is the step that      *)
(* issues its credits.  Billing.tla is shown to implement this module.     *)
(***************************************************************************)
EXTENDS Naturals

CONSTANT Tx        \* identifiers of payment transactions

VARIABLES
    status,        \* status[t]: the state of order t
    issued         \* issued[t]: how often the credits of t were issued

orderVars == <<status, issued>>

Init ==
    /\ status = [t \in Tx |-> "absent"]
    /\ issued = [t \in Tx |-> 0]

Open(t) ==
    /\ status[t] = "absent"
    /\ status' = [status EXCEPT ![t] = "pending"]
    /\ UNCHANGED issued

Fail(t) ==
    /\ status[t] = "pending"
    /\ status' = [status EXCEPT ![t] = "failed"]
    /\ UNCHANGED issued

\* A failed order may still be paid: the customer's money arrived.
Pay(t) ==
    /\ status[t] \in {"pending", "failed"}
    /\ issued[t] = 0
    /\ status' = [status EXCEPT ![t] = "paid"]
    /\ issued' = [issued EXCEPT ![t] = 1]

Next == \E t \in Tx : Open(t) \/ Fail(t) \/ Pay(t)

Spec == Init /\ [][Next]_orderVars
=============================================================================
