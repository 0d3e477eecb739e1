---------------------------- MODULE OrderDomain ----------------------------
(***************************************************************************)
(* The order vocabulary and state machine of internal/domain/order.go.     *)
(* NoOrder is the model's name for "no row with this id yet".              *)
(***************************************************************************)

NoOrder == "none"

OrderStatuses ==
    {"pending_payment", "paid", "payment_failed", "cancelled", "fulfilled"}

ReservationStatuses == {"held", "committed", "released"}

PaymentStatuses == {"succeeded", "failed"}

\* Event types; the model names an event after the status it announces.
EventTypes ==
    {"order.created", "order.paid", "order.payment_failed",
     "order.cancelled", "order.fulfilled"}

\* A plausible slip in the table: a paid order may be cancelled as well.
PaidMayBeCancelled(from) ==
    CASE from = "pending_payment" -> {"paid", "payment_failed", "cancelled"}
      [] from = "payment_failed"  -> {"paid", "cancelled"}
      [] from = "paid"            -> {"fulfilled", "cancelled"}
      [] OTHER                    -> {}

\* The map allowedTransitions; a status without an entry is final.
allowedTransitions(from) ==
    CASE from = "pending_payment" -> {"paid", "payment_failed", "cancelled"}
      [] from = "payment_failed"  -> {"paid", "cancelled"}
      [] from = "paid"            -> {"fulfilled"}
      [] OTHER                    -> {}

\* A plausible slip: the check compares nothing and lets every change through.
AnyTransition(from, to) == from \in OrderStatuses /\ to \in OrderStatuses

\* CanTransition and Transition: the change is legal, else ErrConflict.
CanTransition(from, to) == to \in allowedTransitions(from)

\* The event each status change announces, one per enqueueing transaction.
EventOf(status) ==
    CASE status = "pending_payment" -> "order.created"
      [] status = "paid"            -> "order.paid"
      [] status = "payment_failed"  -> "order.payment_failed"
      [] status = "cancelled"       -> "order.cancelled"
      [] OTHER                      -> "order.fulfilled"
=============================================================================
