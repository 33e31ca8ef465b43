---------------------------- MODULE OrderSettlement ----------------------------
(***************************************************************************)
(* The money life of one marketplace order: payment through the gateway,   *)
(* escrow, shipment, completion, refunds, disputes and the ledger, with the *)
(* background workers, the clock and the payment gateway around them.       *)
(*                                                                         *)
(* Every handler runs in one database transaction that locks the order row, *)
(* so a handler is one action.  What is not atomic is the call to the       *)
(* gateway inside such a transaction: the gateway may accept a refund whose *)
(* transaction is then rolled back (RefundResponseLost).  A handler that    *)
(* returns an error, or whose gateway call is refused, changes nothing and  *)
(* is therefore no step at all.                                             *)
(***************************************************************************)
EXTENDS Integers

CONSTANTS
  PD,                  \* discounted product value of the order
  S,                   \* shipping fee
  K,                   \* coins the buyer redeemed, paid by the platform
  Fee,                 \* buyer payment fee, on top of PD + S - K
  MaxRefunds,          \* bound: refund rows of the order
  Notices,             \* success notifications the gateway sends for the charge
  OrderRef,            \* the order's own identifier
  ChargeRef,           \* the order identifier the gateway knows the charge by
  GatewayMayDeny,      \* may the gateway turn down a refund it had accepted?
  ResponsesMayBeLost   \* may a transaction roll back after its gateway call?

(* CalculateProportionalRefundBreakdown demands PD > 0, S >= 0, K <= PD.    *)
ASSUME AmountsAssumption ==
  PD \in Nat \ {0} /\ S \in Nat /\ K \in 0..PD /\ Fee \in Nat

ASSUME GatewayAssumption ==
  /\ MaxRefunds \in Nat \ {0}
  /\ Notices \subseteq {"capture", "settlement"}
  /\ GatewayMayDeny \in BOOLEAN /\ ResponsesMayBeLost \in BOOLEAN

VARIABLES
  status,          \* orders.status
  hasDispute,      \* orders.has_dispute
  checkout,        \* the payment handler: has it found the order payable?
  payment,         \* payments.status of the order's payment, "none" without one
  processed,       \* success notifications recorded as processed
  escrow,          \* escrows.status, "none" without an escrow row
  dispute,         \* disputes.status, "none" without a dispute row
  refunds,         \* the order's refund rows, in order of creation
  opened,          \* how many of them exist
  held,            \* what the ledger holds for the order on gateway_clearing
  toBuyer,         \* what it has posted to buyer_refundable
  toSeller,        \* what it has posted to seller_payable + platform_revenue
  ban,             \* the ban handler: has it found the order unshipped?
  deadlinePassed,  \* now > orders.payment_expires_at = payments.expired_at
  overdue,         \* now > ready_to_ship_by + grace period
  window,          \* where now is between shipment and auto_release_at
  charge,          \* the buyer's charge at the gateway
  gateway,         \* refund requests the gateway holds, by refund_key
  refundable       \* what the gateway can still refund of the charge

orderVars   == <<status, hasDispute>>
paymentVars == <<checkout, payment, processed>>
refundVars  == <<refunds, opened>>
ledgerVars  == <<held, toBuyer, toSeller>>
clockVars   == <<deadlinePassed, overdue, window>>
gatewayVars == <<gateway, refundable>>
dbVars == <<orderVars, paymentVars, escrow, dispute, refundVars, ledgerVars>>
vars   == <<dbVars, ban, clockVars, charge, gatewayVars>>

--------------------------------------------------------------------------------
(* Data. *)

Total == PD + S              \* orders.total_before_coins_amount
Gross == PD + S - K + Fee    \* payments.gross_amount

(* `delivered' is in the transition table but no handler ever sets it.      *)
Statuses == {"pending", "paid", "shipped", "completed", "dispute_open",
             "refunded", "partially_refunded", "cancelled",
             "cancelled_timeout", "expired"}

Rows == 1..MaxRefunds

(* gateway_idempotency_key: per refund row for the two negotiated ways to a *)
(* refund, per order (or payment) for the system's own.                     *)
SystemKeys == {"overdue", "manual", "dispute", "split", "rec6"} \X {0}
Keys == ({"seller", "admin"} \X Rows) \cup SystemKeys
Rec6Key == <<"rec6", 0>>
NoKey   == <<"none", 0>>

(* What the reason of a refund makes of it (ResolveRefundPolicy), and the   *)
(* two reasons the system uses.                                             *)
BuyerPolicies == {"product", "product_and_shipping", "admin_review"}
Policies == BuyerPolicies \cup {"system", "rec6"}

Unrecorded == -1    \* refunded_shipping_amount IS NULL

Decisions == {"pending_seller_review", "seller_approved", "seller_rejected",
              "escalated_to_admin", "admin_refunded", "admin_released",
              "system_refunded"}

Row == [status : Decisions \cup {"none"},
        gateway : {"unsubmitted", "pending", "succeeded", "failed"},
        key : Keys \cup {NoKey},
        policy : Policies,
        shipping : Nat \cup {Unrecorded}]

NoRow == [status |-> "none", gateway |-> "unsubmitted", key |-> NoKey,
          policy |-> "system", shipping |-> Unrecorded]

(* A request is `dropped' when it was settled and its notification was      *)
(* consumed at a time when no refund row had its key.                       *)
Request == [state : {"none", "accepted", "settled", "denied", "dropped"},
            amount : Nat]

IsDecisionFinal(row) ==
  row.status \in {"seller_approved", "admin_refunded", "admin_released",
                  "system_refunded"}
AwaitsDecision(row) == row.status # "none" /\ ~IsDecisionFinal(row)
OwesBuyerRefund(row) ==
  row.status \in {"seller_approved", "admin_refunded", "system_refunded"}
IsSettlementPending(row) == OwesBuyerRefund(row) /\ row.gateway # "succeeded"

Latest == refunds[opened]    \* GetByOrderID: the newest row, if there is one

(* IsRefundWindowOpen *)
RefundWindowOpen == status = "shipped" /\ ~hasDispute /\ window # "due"

(* Mutants of RefundBlocksRelease: without the settlement half, and with    *)
(* undecided refunds in the way for ever.                                   *)
UndecidedBlocksRelease ==
  \E r \in Rows : AwaitsDecision(refunds[r]) /\ RefundWindowOpen

RefundBlocksReleaseForever ==
  \E r \in Rows : IsSettlementPending(refunds[r]) \/ AwaitsDecision(refunds[r])

(* HasRefundBlockingRelease looks at every row of the order. *)
RefundBlocksRelease ==
  \E r \in Rows : \/ IsSettlementPending(refunds[r])
                  \/ AwaitsDecision(refunds[r]) /\ RefundWindowOpen

(* Mutant of InvalidForPayment: cancelled orders are forgotten. *)
PastPaymentDeadline == status # "paid" /\ deadlinePassed

(* IsInvalidForPaymentFinalization *)
InvalidForPayment == status # "paid" /\ (deadlinePassed \/ status # "pending")

AddRow(row) ==
  /\ opened < MaxRefunds
  /\ opened' = opened + 1
  /\ refunds' = [refunds EXCEPT ![opened + 1] = row]

Init ==
  /\ status = "pending" /\ hasDispute = FALSE
  /\ checkout = "idle" /\ payment = "none" /\ processed = {}
  /\ escrow = "none" /\ dispute = "none"
  /\ refunds = [r \in Rows |-> NoRow] /\ opened = 0
  /\ held = 0 /\ toBuyer = 0 /\ toSeller = 0
  /\ ban = "idle"
  /\ deadlinePassed = FALSE /\ overdue = FALSE /\ window = "none"
  /\ charge = "none"
  /\ gateway = [k \in Keys |-> [state |-> "none", amount |-> 0]]
  /\ refundable = 0

--------------------------------------------------------------------------------
(* The clock, and the gateway as the code relies on it. *)

PaymentDeadlinePasses ==
  /\ ~deadlinePassed
  /\ deadlinePassed' = TRUE
  /\ UNCHANGED <<dbVars, ban, overdue, window, charge, gatewayVars>>

GracePeriodEnds ==
  /\ status = "paid" /\ ~overdue
  /\ overdue' = TRUE
  /\ UNCHANGED <<dbVars, ban, deadlinePassed, window, charge, gatewayVars>>

(* The 12 hours for disputes end; later the auto-release time is reached. *)
WindowMoves ==
  /\ \/ window = "disputable" /\ window' = "closed"
     \/ window = "closed" /\ window' = "due"
  /\ UNCHANGED <<dbVars, ban, deadlinePassed, overdue, charge, gatewayVars>>

(* The buyer's charge succeeds or fails.  Nothing at the gateway waits for  *)
(* our deadline, our cancellation or our expiry.                            *)
GatewayCharges ==
  /\ charge = "open"
  /\ \/ charge' = "captured" /\ refundable' = Gross
     \/ charge' = "failed" /\ UNCHANGED refundable
  /\ UNCHANGED <<dbVars, ban, clockVars, gateway>>

(* The gateway takes a refund request: it must know the charge and cannot   *)
(* give back more than it holds; a refund_key it has already accepted gets  *)
(* the earlier result, and no second refund.                                *)
GatewayAccepts(k, ref, amount) ==
  /\ charge = "captured" /\ ref = ChargeRef
  /\ \/ /\ gateway[k].state \in {"accepted", "settled", "dropped"}
        /\ UNCHANGED gatewayVars
     \/ /\ gateway[k].state \in {"none", "denied"}
        /\ 0 < amount /\ amount <= refundable
        /\ gateway' = [gateway EXCEPT ![k] =
                         [state |-> "accepted", amount |-> amount]]
        /\ refundable' = refundable - amount

GatewaySettles(k) ==
  /\ gateway[k].state = "accepted"
  /\ gateway' = [gateway EXCEPT ![k].state = "settled"]
  /\ UNCHANGED <<dbVars, ban, clockVars, charge, refundable>>

GatewayDenies(k) ==
  /\ GatewayMayDeny
  /\ gateway[k].state = "accepted"
  /\ gateway' = [gateway EXCEPT ![k].state = "denied"]
  /\ refundable' = refundable + gateway[k].amount
  /\ UNCHANGED <<dbVars, ban, clockVars, charge>>

--------------------------------------------------------------------------------
(* Payment. *)

(* The payment handler reads the order, finds it payable, and only later    *)
(* opens the transaction that creates the payment (CreatePayment).          *)
CheckPayable ==
  /\ checkout = "idle" /\ status = "pending" /\ ~deadlinePassed
  /\ checkout' = "payable"
  /\ UNCHANGED <<orderVars, payment, processed, escrow, dispute, refundVars,
                 ledgerVars, ban, clockVars, charge, gatewayVars>>

CreatePayment ==
  /\ checkout = "payable"
  /\ checkout' = "done" /\ payment' = "pending" /\ charge' = "open"
  /\ UNCHANGED <<orderVars, processed, escrow, dispute, refundVars,
                 ledgerVars, ban, clockVars, gatewayVars>>

(* FinalizeOrderPayment: settle the payment, fund the ledger and the        *)
(* escrow, mark the order paid, all or nothing.                             *)
FinalizeOrderPayment(n) ==
  /\ charge = "captured" /\ n \in Notices \ processed
  /\ payment = "pending" /\ ~InvalidForPayment
  /\ status = "pending" /\ ~deadlinePassed
  /\ payment' = "settlement" /\ processed' = processed \cup {n}
  /\ escrow' = "holding"
  /\ held' = held + Total
  /\ status' = "paid"
  /\ UNCHANGED <<hasDispute, checkout, dispute, refundVars, toBuyer, toSeller,
                 ban, clockVars, charge, gatewayVars>>

(* A success notification for an order that can no longer become paid, with *)
(* the payment still pending or not, records the intent to give the charge  *)
(* back, once per payment (CreateRefundIntentForInvalidOrder, "REC-6").     *)
RefundCaptureOfInvalidOrder(n) ==
  /\ charge = "captured" /\ n \in Notices \ processed
  /\ InvalidForPayment
  /\ processed' = processed \cup {n}
  /\ \/ /\ \E r \in Rows : refunds[r].key = Rec6Key
        /\ UNCHANGED refundVars
     \/ /\ \A r \in Rows : refunds[r].key # Rec6Key
        /\ AddRow([status |-> "system_refunded", gateway |-> "unsubmitted",
                   key |-> Rec6Key, policy |-> "rec6", shipping |-> 0])
  /\ UNCHANGED <<orderVars, checkout, payment, escrow, dispute, ledgerVars,
                 ban, clockVars, charge, gatewayVars>>

(* Any other success notification of a payment that is no longer pending is *)
(* only recorded.                                                           *)
IgnoreCapture(n) ==
  /\ charge = "captured" /\ n \in Notices \ processed
  /\ payment # "pending" /\ ~InvalidForPayment
  /\ processed' = processed \cup {n}
  /\ UNCHANGED <<orderVars, checkout, payment, escrow, dispute, refundVars,
                 ledgerVars, ban, clockVars, charge, gatewayVars>>

PaymentSucceededNotice(n) ==
  \/ FinalizeOrderPayment(n)
  \/ RefundCaptureOfInvalidOrder(n)
  \/ IgnoreCapture(n)

(* FailPayment leaves the order to the timeout workers. *)
PaymentFailedNotice ==
  /\ charge = "failed" /\ payment = "pending"
  /\ payment' = "failed"
  /\ UNCHANGED <<orderVars, checkout, processed, escrow, dispute, refundVars,
                 ledgerVars, ban, clockVars, charge, gatewayVars>>

(* PaymentExpiryWorker: the payment expires and takes an unpaid order with  *)
(* it; an order that has moved on is left alone.                            *)
ExpirePayment ==
  /\ payment = "pending" /\ deadlinePassed
  /\ payment' = "failed"
  /\ status' = IF status = "pending" THEN "expired" ELSE status
  /\ UNCHANGED <<hasDispute, checkout, processed, escrow, dispute, refundVars,
                 ledgerVars, ban, clockVars, charge, gatewayVars>>

(* Mutant of ExpireOrphanOrder: a failed payment counts as one. *)
ExpireUnattemptedOrder ==
  /\ status = "pending" /\ deadlinePassed
  /\ payment = "none"
  /\ status' = "expired"
  /\ UNCHANGED <<hasDispute, paymentVars, escrow, dispute, refundVars,
                 ledgerVars, ban, clockVars, charge, gatewayVars>>

(* OrderPaymentTimeoutWorker: orders past the deadline without a live       *)
(* payment.                                                                 *)
ExpireOrphanOrder ==
  /\ status = "pending" /\ deadlinePassed
  /\ payment \notin {"pending", "settlement"}
  /\ status' = "expired"
  /\ UNCHANGED <<hasDispute, paymentVars, escrow, dispute, refundVars,
                 ledgerVars, ban, clockVars, charge, gatewayVars>>

Cancel ==
  /\ status = "pending"
  /\ status' = "cancelled"
  /\ UNCHANGED <<hasDispute, paymentVars, escrow, dispute, refundVars,
                 ledgerVars, ban, clockVars, charge, gatewayVars>>

--------------------------------------------------------------------------------
(* Fulfilment and release. *)

(* Mutant of MarkShipped: on to `delivered', which no handler knows. *)
MarkDelivered ==
  /\ status = "paid" /\ ~overdue
  /\ status' = "delivered" /\ window' = "disputable"
  /\ UNCHANGED <<hasDispute, paymentVars, escrow, dispute, refundVars,
                 ledgerVars, ban, deadlinePassed, overdue, charge, gatewayVars>>

MarkShipped ==
  /\ status = "paid" /\ ~overdue
  /\ status' = "shipped" /\ window' = "disputable"
  /\ UNCHANGED <<hasDispute, paymentVars, escrow, dispute, refundVars,
                 ledgerVars, ban, deadlinePassed, overdue, charge, gatewayVars>>

(* ReleaseGatewayEscrowToSeller: escrow flip and ledger posting together.   *)
ReleaseEscrowToSeller ==
  /\ escrow = "holding"
  /\ escrow' = "released"
  /\ held' = held - Total /\ toSeller' = toSeller + Total
  /\ UNCHANGED toBuyer

(* Complete, by the buyer or by the system.  The window decides whether an  *)
(* undecided refund still stands in the way; EscrowService itself refuses   *)
(* to release while a dispute is under review.                              *)
Complete ==
  /\ status = "shipped" /\ ~hasDispute
  /\ payment = "settlement"
  /\ ~RefundBlocksRelease
  /\ dispute # "under_review"
  /\ ReleaseEscrowToSeller
  /\ status' = "completed"
  /\ UNCHANGED <<hasDispute, paymentVars, dispute, refundVars, ban, clockVars,
                 charge, gatewayVars>>

(* OrderAutoCompleteWorker completes what is past its auto-release time. *)
AutoComplete == window = "due" /\ Complete

--------------------------------------------------------------------------------
(* Refund requests sent to the gateway from inside a transaction.           *)

(* A refund the system creates itself hands the whole amount to the product *)
(* component: CreateAndDispatchSystemRefund refuses it beyond PD.  The      *)
(* coins' share of a whole product is K.                                    *)
SystemRefundFits(amount) == amount <= PD /\ amount - K > 0

SystemRow(k, amount) ==
  [status |-> "system_refunded", gateway |-> "pending", key |-> k,
   policy |-> "system", shipping |-> 0]

(* CancelOverdue, by the buyer or by OrderOverdueCancelWorker. *)
OverdueKey == <<"overdue", 0>>
MayCancelOverdue ==
  /\ status = "paid" /\ overdue /\ escrow = "holding"
  /\ SystemRefundFits(Total)

(* RefundOrder, for the unshipped orders of a banned user.  Whether an order *)
(* is one of them UserBanEventHandler has decided from an earlier read;     *)
(* under the lock only a dispute and the escrow are looked at again.        *)
ManualKey == <<"manual", 0>>
MayRefundForBan ==
  /\ ban = "refunding"
  /\ status # "dispute_open" /\ escrow = "holding"
  /\ SystemRefundFits(Total)

(* ApproveRefund: the reason of the refund decides the amount, not the      *)
(* order's status.                                                          *)
SellerKey(r) == <<"seller", r>>
ApprovedShipping(r) == IF refunds[r].policy = "product" THEN 0 ELSE S
MayApprove(r) ==
  /\ refunds[r].status = "pending_seller_review"
  /\ refunds[r].policy \in {"product", "product_and_shipping"}
  /\ escrow = "holding"

(* A dispute resolved for the buyer, in full or for the product only:       *)
(* AdminResolveRefundDecision lets the admin decide on an escalated refund  *)
(* and dispatches it; on a decided one it dispatches nothing; without any   *)
(* refund row the system creates one; any other row is an error.            *)
AdminKey == <<"admin", opened>>
DisputeOpen == dispute = "under_review" /\ status = "dispute_open" /\ hasDispute
MayDecideEscalated ==
  DisputeOpen /\ opened > 0 /\ Latest.status = "escalated_to_admin"
MayKeepDecision == DisputeOpen /\ opened > 0 /\ IsDecisionFinal(Latest)
MayRefundDirectly(amount) ==
  DisputeOpen /\ opened = 0 /\ SystemRefundFits(amount)

DisputeRefundKey == <<"dispute", 0>>
SplitKey == <<"split", 0>>

(* The gateway accepts, and then the transaction rolls back. *)
RefundResponseLost ==
  /\ ResponsesMayBeLost
  /\ escrow = "holding"
  /\ \/ MayCancelOverdue /\ GatewayAccepts(OverdueKey, OrderRef, Total - K)
     \/ MayRefundForBan /\ GatewayAccepts(ManualKey, OrderRef, Total - K)
     \/ \E r \in Rows :
          /\ MayApprove(r)
          /\ GatewayAccepts(SellerKey(r), OrderRef, PD + ApprovedShipping(r))
     \/ /\ MayDecideEscalated
        /\ \E amount \in {Total, PD} : GatewayAccepts(AdminKey, OrderRef, amount)
     \/ /\ MayRefundDirectly(Total)
        /\ GatewayAccepts(DisputeRefundKey, OrderRef, Total - K)
     \/ /\ MayRefundDirectly(PD)
        /\ GatewayAccepts(SplitKey, OrderRef, PD - K)
  /\ UNCHANGED <<dbVars, ban, clockVars, charge>>

CancelOverdue ==
  /\ MayCancelOverdue
  /\ GatewayAccepts(OverdueKey, OrderRef, Total - K)
  /\ AddRow(SystemRow(OverdueKey, Total))
  /\ escrow' = "refunded"
  /\ status' = "cancelled_timeout"
  /\ UNCHANGED <<hasDispute, paymentVars, dispute, ledgerVars, ban, clockVars,
                 charge>>

FindUnshippedOfBannedUser ==
  /\ ban = "idle" /\ status = "paid" /\ escrow = "holding"
  /\ ban' = "refunding"
  /\ UNCHANGED <<dbVars, clockVars, charge, gatewayVars>>

RefundOrder ==
  /\ MayRefundForBan
  /\ GatewayAccepts(ManualKey, OrderRef, Total - K)
  /\ AddRow(SystemRow(ManualKey, Total))
  /\ escrow' = "refunded"
  /\ status' = "refunded"
  /\ UNCHANGED <<hasDispute, paymentVars, dispute, ledgerVars, ban, clockVars,
                 charge>>

--------------------------------------------------------------------------------
(* Refunds negotiated between buyer and seller. *)

(* Mutant of CreateRefund: an earlier refund does not matter. *)
CreateAnotherRefund ==
  /\ status = "shipped" /\ ~hasDispute /\ escrow = "holding"
  /\ \E p \in BuyerPolicies :
       AddRow([NoRow EXCEPT !.status = "pending_seller_review", !.policy = p])
  /\ UNCHANGED <<orderVars, paymentVars, escrow, dispute, ledgerVars, ban,
                 clockVars, charge, gatewayVars>>

CreateRefund ==
  /\ status = "shipped" /\ ~hasDispute /\ escrow = "holding"
  /\ opened > 0 => ~AwaitsDecision(Latest) /\ ~IsSettlementPending(Latest)
  /\ \E p \in BuyerPolicies :
       AddRow([NoRow EXCEPT !.status = "pending_seller_review", !.policy = p])
  /\ UNCHANGED <<orderVars, paymentVars, escrow, dispute, ledgerVars, ban,
                 clockVars, charge, gatewayVars>>

ApproveRefund(r) ==
  /\ MayApprove(r)
  /\ GatewayAccepts(SellerKey(r), OrderRef, PD + ApprovedShipping(r))
  /\ refunds' = [refunds EXCEPT ![r] =
       [@ EXCEPT !.status = "seller_approved", !.gateway = "pending",
                 !.key = SellerKey(r), !.shipping = ApprovedShipping(r)]]
  /\ UNCHANGED <<orderVars, paymentVars, escrow, dispute, opened, ledgerVars,
                 ban, clockVars, charge>>

RejectRefund(r) ==
  /\ refunds[r].status = "pending_seller_review"
  /\ refunds' = [refunds EXCEPT ![r].status = "seller_rejected"]
  /\ UNCHANGED <<orderVars, paymentVars, escrow, dispute, opened, ledgerVars,
                 ban, clockVars, charge, gatewayVars>>

(* EscalateRefund: OpenDisputeFromEscalation and EscalateToDispute in one   *)
(* transaction.                                                             *)
EscalateRefund(r) ==
  /\ refunds[r].status = "seller_rejected"
  /\ ~hasDispute /\ escrow = "holding" /\ status = "shipped"
  /\ refunds' = [refunds EXCEPT ![r].status = "escalated_to_admin"]
  /\ status' = "dispute_open" /\ hasDispute' = TRUE
  /\ dispute' = "under_review"
  /\ UNCHANGED <<paymentVars, escrow, opened, ledgerVars, ban, clockVars, charge,
                 gatewayVars>>

--------------------------------------------------------------------------------
(* Disputes.  A dispute over a paid, unshipped order passes every check of  *)
(* OpenDispute except the last: MarkDisputeOpen has no transition from      *)
(* `paid', so it is never opened.                                           *)

(* Mutant of OpenDispute: orders.has_dispute is not set. *)
OpenDisputeUnflagged ==
  /\ status = "shipped" /\ window = "disputable"
  /\ ~hasDispute /\ escrow = "holding"
  /\ status' = "dispute_open"
  /\ dispute' = "under_review"
  /\ UNCHANGED <<hasDispute, paymentVars, escrow, refundVars, ledgerVars, ban,
                 clockVars, charge, gatewayVars>>

OpenDispute ==
  /\ status = "shipped" /\ window = "disputable"
  /\ ~hasDispute /\ escrow = "holding"
  /\ status' = "dispute_open" /\ hasDispute' = TRUE
  /\ dispute' = "under_review"
  /\ UNCHANGED <<paymentVars, escrow, refundVars, ledgerVars, ban, clockVars,
                 charge, gatewayVars>>

(* The refund side of a resolution for the buyer. *)
DecideForBuyer(amount, systemKey) ==
  \/ /\ MayDecideEscalated
     /\ GatewayAccepts(AdminKey, OrderRef, amount)
     /\ refunds' = [refunds EXCEPT ![opened] =
          [@ EXCEPT !.status = "admin_refunded", !.gateway = "pending",
                    !.key = AdminKey]]
     /\ UNCHANGED opened
  \/ /\ MayKeepDecision
     /\ UNCHANGED <<refundVars, gatewayVars>>
  \/ /\ MayRefundDirectly(amount)
     /\ GatewayAccepts(systemKey, OrderRef, amount - K)
     /\ AddRow(SystemRow(systemKey, amount))

(* RefundFromDispute *)
ResolveRefund ==
  /\ DecideForBuyer(Total, DisputeRefundKey)
  /\ escrow = "holding" /\ escrow' = "refunded"
  /\ status' = "refunded" /\ dispute' = "resolved_refund"
  /\ UNCHANGED <<hasDispute, paymentVars, ledgerVars, ban, clockVars, charge>>

(* PartialRefundFromDispute: the escrow stays until the gateway confirms. *)
ResolvePartialSplit ==
  /\ DecideForBuyer(PD, SplitKey)
  /\ escrow = "holding"
  /\ status' = "partially_refunded" /\ dispute' = "resolved_partial_split"
  /\ UNCHANGED <<hasDispute, paymentVars, escrow, ledgerVars, ban, clockVars,
                 charge>>

(* ReleaseFromDispute: not against a final decision that owes the buyer. *)
ResolveRelease ==
  /\ DisputeOpen
  /\ \/ opened = 0 /\ UNCHANGED refundVars
     \/ /\ opened > 0 /\ Latest.status = "escalated_to_admin"
        /\ refunds' = [refunds EXCEPT ![opened].status = "admin_released"]
        /\ UNCHANGED opened
     \/ /\ opened > 0 /\ Latest.status = "admin_released"
        /\ UNCHANGED refundVars
  /\ ReleaseEscrowToSeller
  /\ status' = "completed" /\ dispute' = "resolved_release"
  /\ UNCHANGED <<hasDispute, paymentVars, ban, clockVars, charge, gatewayVars>>

--------------------------------------------------------------------------------
(* HandleGatewayRefundAck.  A notification is matched to a row by its key.  *)
(* One that arrives when no row has the key, because the transaction that   *)
(* sent the request was rolled back or has yet to commit, is answered as    *)
(* processed, and a redelivery of it is a duplicate.                        *)

NotificationDropped(k) ==
  /\ gateway[k].state = "settled"
  /\ \A r \in Rows : refunds[r].key # k
  /\ gateway' = [gateway EXCEPT ![k].state = "dropped"]
  /\ UNCHANGED <<dbVars, ban, clockVars, charge, refundable>>

(* Mutant of MovesMoney: REC-6 rows are not told apart. *)
MovesAnyMoney(r) == TRUE

(* A REC-6 refund has neither escrow nor ledger: confirmation only. *)
MovesMoney(r) == refunds[r].policy # "rec6"

Rs(r) ==
  IF refunds[r].shipping # Unrecorded
  THEN refunds[r].shipping
  ELSE gateway[refunds[r].key].amount - PD

(* Every refund of an order covers its whole product, so after one success  *)
(* CalculateProportionalRefundBreakdown finds the product overdrawn.        *)
BreakdownFits(r) == \A o \in Rows \ {r} : refunds[o].gateway # "succeeded"

(* RecordRefundReversal demands seller + commission component = refund      *)
(* amount, that is PD + Rs = PD + Rs - coins of the product.                *)
LedgerAcceptsReversal == K = 0

(* Mutant of ReverseTo: the seller's side is not taken from what is held. *)
ReverseToBuyerOnly(r, sellerSide) ==
  /\ toBuyer' = toBuyer + PD + Rs(r)
  /\ toSeller' = toSeller + sellerSide
  /\ held' = held - PD - Rs(r)

ReverseTo(r, sellerSide) ==
  /\ toBuyer' = toBuyer + PD + Rs(r)
  /\ toSeller' = toSeller + sellerSide
  /\ held' = held - PD - Rs(r) - sellerSide

SucceededRow(r) ==
  [refunds[r] EXCEPT !.gateway = "succeeded", !.shipping = Rs(r)]

(* Mutant of ReverseAfterFlip: the order is synchronised as well. *)
ReverseAndSyncAfterFlip(r) ==
  /\ escrow = "refunded"
  /\ ReverseTo(r, 0)
  /\ status' = "refunded"
  /\ UNCHANGED escrow

(* The escrow was flipped when the refund was dispatched: ledger only. *)
ReverseAfterFlip(r) ==
  /\ escrow = "refunded"
  /\ ReverseTo(r, 0)
  /\ UNCHANGED <<escrow, status>>

(* Mutant of ReverseInFull: the order is not synchronised. *)
ReverseInFullUnsynced(r) ==
  /\ escrow = "holding" /\ dispute # "under_review"
  /\ Rs(r) >= S
  /\ ReverseTo(r, 0)
  /\ escrow' = "refunded"
  /\ UNCHANGED status

(* Nothing of the order is left: flip the escrow and the order. *)
ReverseInFull(r) ==
  /\ escrow = "holding" /\ dispute # "under_review"
  /\ Rs(r) >= S
  /\ ReverseTo(r, 0)
  /\ escrow' = "refunded" /\ status' = "refunded"

(* Mutant of ReverseInPart: the remainder is taken from the whole order. *)
ReverseInPartOfWhole(r) ==
  /\ escrow = "holding" /\ dispute # "under_review"
  /\ Rs(r) < S
  /\ status \in {"shipped", "dispute_open", "partially_refunded"}
  /\ ReverseTo(r, Total - Rs(r))
  /\ escrow' = "released" /\ status' = "partially_refunded"

(* Part of it is: the seller side gets the remainder at once. *)
ReverseInPart(r) ==
  /\ escrow = "holding" /\ dispute # "under_review"
  /\ Rs(r) < S
  /\ status \in {"shipped", "dispute_open", "partially_refunded"}
  /\ ReverseTo(r, S - Rs(r))
  /\ escrow' = "released" /\ status' = "partially_refunded"

(* A released escrow refuses the acknowledgement altogether. *)
RefundAckSucceeded(r) ==
  /\ refunds[r].gateway \in {"pending", "failed"}
  /\ MovesMoney(r)
  /\ refunds[r].key # NoKey /\ gateway[refunds[r].key].state = "settled"
  /\ BreakdownFits(r) /\ LedgerAcceptsReversal
  /\ ReverseAfterFlip(r) \/ ReverseInFull(r) \/ ReverseInPart(r)
  /\ refunds' = [refunds EXCEPT ![r] = SucceededRow(r)]
  /\ UNCHANGED <<hasDispute, paymentVars, dispute, opened, ban, clockVars,
                 charge, gatewayVars>>

Rec6AckSucceeded(r) ==
  /\ refunds[r].gateway \in {"pending", "failed"}
  /\ ~MovesMoney(r)
  /\ gateway[refunds[r].key].state = "settled"
  /\ refunds' = [refunds EXCEPT ![r].gateway = "succeeded"]
  /\ UNCHANGED <<orderVars, paymentVars, escrow, dispute, opened, ledgerVars,
                 ban, clockVars, charge, gatewayVars>>

RefundAckFailed(r) ==
  /\ refunds[r].gateway \in {"unsubmitted", "pending"}
  /\ refunds[r].key # NoKey /\ gateway[refunds[r].key].state = "denied"
  /\ refunds' = [refunds EXCEPT ![r].gateway = "failed"]
  /\ UNCHANGED <<orderVars, paymentVars, escrow, dispute, opened, ledgerVars,
                 ban, clockVars, charge, gatewayVars>>

(* One round of Rec6RefundDispatchWorker over one row, which addresses the  *)
(* charge by payments.midtrans_order_id: the gateway takes the refund and   *)
(* the row is pending, or the call fails and the row is failed.             *)
Rec6Answered(r) ==
  /\ refunds[r].gateway \in {"unsubmitted", "failed"}
  /\ \/ /\ GatewayAccepts(Rec6Key, ChargeRef, Gross)
        /\ refunds' = [refunds EXCEPT ![r].gateway = "pending"]
     \/ /\ refunds' = [refunds EXCEPT ![r].gateway = "failed"]
        /\ UNCHANGED gatewayVars

(* Where responses may be lost the row and the gateway part: a row that is  *)
(* claimed, or its outcome persisted, says pending or failed, whether or    *)
(* not the gateway has taken the refund, and pending ones are claimed again *)
(* (crash recovery).  Rec6Dispatch has the steps one by one and implements  *)
(* this one.                                                                *)
Rec6Unanswered(r) ==
  /\ ResponsesMayBeLost
  /\ refunds[r].gateway \in {"unsubmitted", "failed", "pending"}
  /\ GatewayAccepts(Rec6Key, ChargeRef, Gross) \/ UNCHANGED gatewayVars
  /\ \E s \in {"pending", "failed"} : refunds' = [refunds EXCEPT ![r].gateway = s]

Rec6Dispatch(r) ==
  /\ refunds[r].policy = "rec6"
  /\ Rec6Answered(r) \/ Rec6Unanswered(r)
  /\ UNCHANGED <<orderVars, paymentVars, escrow, dispute, opened, ledgerVars,
                 ban, clockVars, charge>>

--------------------------------------------------------------------------------

PaymentNext ==
  \/ CheckPayable \/ CreatePayment
  \/ \E n \in Notices : PaymentSucceededNotice(n)
  \/ PaymentFailedNotice
  \/ ExpirePayment \/ ExpireOrphanOrder \/ Cancel

OrderNext ==
  \/ MarkShipped \/ Complete \/ CancelOverdue
  \/ FindUnshippedOfBannedUser \/ RefundOrder
  \/ OpenDispute \/ ResolveRefund \/ ResolvePartialSplit \/ ResolveRelease

RefundNext ==
  \/ CreateRefund
  \/ \E r \in Rows : \/ ApproveRefund(r) \/ RejectRefund(r) \/ EscalateRefund(r)
                     \/ RefundAckSucceeded(r) \/ RefundAckFailed(r)
                     \/ Rec6AckSucceeded(r) \/ Rec6Dispatch(r)
  \/ RefundResponseLost
  \/ \E k \in Keys : NotificationDropped(k)

EnvironmentNext ==
  \/ PaymentDeadlinePasses \/ GracePeriodEnds \/ WindowMoves
  \/ GatewayCharges
  \/ \E k \in Keys : GatewaySettles(k) \/ GatewayDenies(k)

Next == PaymentNext \/ OrderNext \/ RefundNext \/ EnvironmentNext

Spec == Init /\ [][Next]_vars

(* What runs without a user: the workers poll for ever, the clock moves,    *)
(* the gateway repeats a notification until it is processed and settles     *)
(* what it accepted.  A refused gateway call is a poll without a step, so   *)
(* weak fairness of a dispatching action says that refusals do not go on    *)
(* for ever; the REC-6 worker's refusal is a step, hence SF.                *)
WorkersPoll ==
  /\ WF_vars(ExpirePayment) /\ WF_vars(ExpireOrphanOrder)
  /\ WF_vars(AutoComplete)
  /\ WF_vars(CancelOverdue)
  /\ \A r \in Rows : SF_vars(Rec6Dispatch(r) /\ ~UNCHANGED gatewayVars)

Surroundings ==
  /\ WF_vars(WindowMoves)
  /\ \A n \in Notices : WF_vars(PaymentSucceededNotice(n))
  /\ \A k \in Keys : WF_vars(GatewaySettles(k))
  /\ \A r \in Rows : /\ WF_vars(RefundAckSucceeded(r))
                     /\ WF_vars(Rec6AckSucceeded(r))

(* An admin who attends to every dispute that can be resolved. *)
DisputeDesk == WF_vars(ResolveRefund \/ ResolvePartialSplit \/ ResolveRelease)

FairSpec == Spec /\ WorkersPoll /\ Surroundings /\ DisputeDesk

--------------------------------------------------------------------------------
(* Properties. *)

TypeOK ==
  /\ status \in Statuses /\ hasDispute \in BOOLEAN
  /\ checkout \in {"idle", "payable", "done"}
  /\ payment \in {"none", "pending", "settlement", "failed"}
  /\ processed \subseteq Notices
  /\ escrow \in {"none", "holding", "released", "refunded"}
  /\ dispute \in {"none", "under_review", "resolved_refund",
                  "resolved_partial_split", "resolved_release"}
  /\ refunds \in [Rows -> Row] /\ opened \in 0..MaxRefunds
  /\ held \in Int /\ toBuyer \in Int /\ toSeller \in Int
  /\ ban \in {"idle", "refunding"}
  /\ deadlinePassed \in BOOLEAN /\ overdue \in BOOLEAN
  /\ window \in {"none", "disputable", "closed", "due"}
  /\ charge \in {"none", "open", "captured", "failed"}
  /\ gateway \in [Keys -> Request] /\ refundable \in Int

(* The order, its escrow and its dispute are three rows written by different *)
(* services; whatever the order of handlers, retries, late notifications    *)
(* and rollbacks they agree: an order without captured money has no escrow, *)
(* an unfinished one has it holding, and each end of the order has the one  *)
(* escrow outcome that belongs to it.  A dispute is under review exactly    *)
(* while the order is in dispute.                                           *)
EscrowMatchesOrder ==
  /\ status \in {"pending", "cancelled", "expired"} => escrow = "none"
  /\ status \in {"paid", "shipped", "dispute_open"} => escrow = "holding"
  /\ status = "completed" => escrow = "released"
  /\ status \in {"refunded", "cancelled_timeout"} => escrow = "refunded"
  /\ status = "partially_refunded" => escrow \in {"holding", "released"}
  /\ (dispute = "under_review") <=> (status = "dispute_open")

(* The order's postings on the ledger are those of a custodian: the money   *)
(* comes in once, goes out once, and nobody gets more than came in.  Every  *)
(* handler that posts (finalization, release, refund acknowledgement) maps  *)
(* to a step of Custody, every other one to a stutter.                      *)
Custodian == INSTANCE Custody WITH buyer <- toBuyer, seller <- toSeller
CustodySpec == Custodian!Spec

(* The ledger's debt to the buyer is what the gateway has given back: it is *)
(* posted for one acknowledged refund row, to the amount the gateway        *)
(* settled under that row's key, even where a lost response made the        *)
(* gateway hold an earlier request under the same key.                      *)
LedgerMirrorsGateway ==
  LET Acknowledged == {r \in Rows : /\ refunds[r].gateway = "succeeded"
                                    /\ refunds[r].policy # "rec6"}
  IN  /\ toBuyer > 0 <=> Acknowledged # {}
      /\ \A r \in Acknowledged :
           gateway[refunds[r].key] = [state |-> "settled", amount |-> toBuyer]

(* A refund that is owed and not yet settled bars the release of the escrow *)
(* (HasRefundBlockingRelease and ReleaseFromDispute's check of the final    *)
(* decision), so no completed order has one.                                *)
NoOwedRefundBehindRelease ==
  status = "completed" => \A r \in Rows : ~IsSettlementPending(refunds[r])

(* What the gateway gave back to the buyer and what the ledger gave to the  *)
(* seller side never exceed the value of the order.                         *)
NoDoublePayout ==
  toSeller > 0 => (Gross - refundable) + toSeller <= Total

(* A closed order is closed, whatever arrives late: neither its status nor  *)
(* its escrow's changes again.  (A partially refunded one may still be      *)
(* settled either way by the acknowledgement.)                              *)
ClosedOrderStaysClosed ==
  [][/\ status \in {"completed", "refunded", "cancelled", "cancelled_timeout",
                     "expired"} => status' = status
     /\ escrow \in {"released", "refunded"} => escrow' = escrow]_vars

(* Money is never promised twice: while a decided refund of a row is still  *)
(* to be settled, no other row of the order is decided for the buyer.       *)
OneRefundInFlight ==
  \A q, r \in Rows : q # r =>
    ~(IsSettlementPending(refunds[q]) /\ IsSettlementPending(refunds[r]))

(* An order nobody pays is closed by the payment expiry or the order        *)
(* timeout worker, whichever of them the state of its payment is left to.   *)
UnpaidOrderCloses ==
  (status = "pending" /\ deadlinePassed) ~> (status # "pending")

(* Captured money does not get lost between a cancelled, expired or paid    *)
(* order and a notification that arrives at any time: it ends up in escrow  *)
(* or on its way back to the buyer (REC-6).                                 *)
CapturedMoneyIsPlaced ==
  (charge = "captured") ~>
    (escrow # "none" \/ gateway[Rec6Key].state \in {"accepted", "settled"})

(* A shipped order does not stay shipped: the auto-complete worker, the     *)
(* acknowledgement of an approved refund or a dispute takes it on.          *)
ShippedOrderMovesOn == (status = "shipped") ~> (status # "shipped")

(* A dispute an admin can decide (no refund of the order, an escalated one, *)
(* or one already decided) does get resolved.                               *)
Decidable == opened = 0 \/ Latest.status = "escalated_to_admin"
                        \/ IsDecisionFinal(Latest)
DecidableDisputeIsResolved ==
  (status = "dispute_open" /\ Decidable) ~> (status # "dispute_open")

(* "NO dispute can block escrow/money forever" (dispute_timeout_worker.go). *)
DisputeIsResolved == (status = "dispute_open") ~> (status # "dispute_open")

(* A paid order whose shipment is overdue leaves `paid' through the refund  *)
(* of CancelOverdue (order_status.go, the comment on `paid').               *)
OverdueOrderIsCancelled == (status = "paid" /\ overdue) ~> (status # "paid")

================================================================================
