-------------------------------- MODULE Custody --------------------------------
(***************************************************************************)
(* What the marketplace promises about a sum of money it holds for others.  *)
(* The money (Total) is taken into custody at most once, and it leaves      *)
(* custody at most once, in a single disbursement that splits it between    *)
(* two sides.  No step pays out more than was taken in, and what has been   *)
(* disbursed is never taken in or disbursed again.                          *)
(*                                                                         *)
(* OrderSettlement implements this specification for the order, product     *)
(* plus shipping: `held' is its net balance on the gateway clearing account *)
(* of the ledger, `buyer' what the ledger has posted to buyer_refundable,   *)
(* `seller' what it has posted to seller_payable and platform_revenue.      *)
(* Payout implements it for each withdrawal: `held' is what is pending or   *)
(* committed for it, `buyer' what went back to the seller's earnings and    *)
(* `seller' what went out to the bank.                                      *)
(***************************************************************************)
EXTENDS Integers

CONSTANT Total    \* the sum, a positive number

VARIABLES held, buyer, seller

vars == <<held, buyer, seller>>

Init == held = 0 /\ buyer = 0 /\ seller = 0

(* The money enters custody; only what is untouched can be funded.          *)
Fund == /\ held = 0 /\ buyer = 0 /\ seller = 0
        /\ held' = Total
        /\ UNCHANGED <<buyer, seller>>

(* The whole of the held amount is opened once; b goes back to the buyer    *)
(* and s to the seller side.  Nothing is created: what neither side gets    *)
(* stays in custody.                                                        *)
Disburse == /\ held = Total
            /\ \E b, s \in 0..Total :
                 /\ b + s > 0
                 /\ b + s <= Total
                 /\ buyer' = buyer + b
                 /\ seller' = seller + s
                 /\ held' = Total - b - s

Next == Fund \/ Disburse

Spec == Init /\ [][Next]_vars

================================================================================
