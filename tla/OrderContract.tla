--------------------------- MODULE OrderContract ---------------------------
(***************************************************************************)
(* What the order core promises of one order, as an outside observer sees  *)
(* it: the phase it is in, what became of the stock held for it, and       *)
(* whether the customer was charged.  Every step changes all three at      *)
(* once; nobody sees a paid order that still holds stock, or a cancelled   *)
(* one whose stock is still missing.  A charge after a declined one finds  *)
(* the stock already given back, and the contract says so.                 *)
(***************************************************************************)
CONSTANT Orders

VARIABLES phase, hold, charged

cvars == <<phase, hold, charged>>

CInit ==
    /\ phase = [o \in Orders |-> "none"]
    /\ hold = [o \in Orders |-> "none"]
    /\ charged = [o \in Orders |-> FALSE]

Move(o, to, h, c) ==
    /\ phase' = [phase EXCEPT ![o] = to]
    /\ hold' = [hold EXCEPT ![o] = h]
    /\ charged' = [charged EXCEPT ![o] = c]

Place(o) == phase[o] = "none" /\ Move(o, "pending_payment", "held", FALSE)

Charge(o) ==
    /\ phase[o] = "pending_payment"
    /\ hold[o] = "held"
    /\ ~charged[o]
    /\ Move(o, "paid", "committed", TRUE)

Decline(o) ==
    /\ phase[o] = "pending_payment"
    /\ hold[o] = "held"
    /\ Move(o, "payment_failed", "released", FALSE)

ChargeAfterDecline(o) ==
    /\ phase[o] = "payment_failed"
    /\ hold[o] = "released"
    /\ ~charged[o]
    /\ Move(o, "paid", "released", TRUE)

Withdraw(o) ==
    /\ phase[o] \in {"pending_payment", "payment_failed"}
    /\ ~charged[o]
    /\ Move(o, "cancelled", "released", FALSE)

Ship(o) ==
    /\ phase[o] = "paid"
    /\ charged[o]
    /\ Move(o, "fulfilled", hold[o], TRUE)

CNext ==
    \E o \in Orders : Place(o) \/ Charge(o) \/ Decline(o) \/ ChargeAfterDecline(o)
                      \/ Withdraw(o) \/ Ship(o)

CSpec == CInit /\ [][CNext]_cvars
=============================================================================
