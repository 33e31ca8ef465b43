-------------------------- MODULE OrderSettlement_proofs --------------------------
(***************************************************************************)
(* Proofs about OrderSettlement, for every value of its constants: any      *)
(* amounts, with or without coins and shipping, any set of success          *)
(* notifications, whether the gateway denies refunds or not, whether        *)
(* responses are lost or not, and whether or not the order is known to the  *)
(* gateway by the name the refund calls use.                                *)
(***************************************************************************)
EXTENDS OrderSettlement, TLAPS

--------------------------------------------------------------------------------
(* The inductive invariant. *)

(* Rows are appended: beyond the last one there is nothing. *)
RowsAreAppended == \A r \in Rows : r > opened => refunds[r] = NoRow

(* What is recorded or will be derived as the shipping part of a refund is  *)
(* within the shipping fee: a row with no record of it is one an admin      *)
(* decided, and the gateway was asked for the product or for everything.    *)
ShippingIsBounded ==
  \A r \in Rows :
    /\ refunds[r].shipping \in 0..S \cup {Unrecorded}
    /\ refunds[r].shipping = Unrecorded /\ refunds[r].key # NoKey
         => refunds[r].key = <<"admin", r>>

AdminRequestsFit ==
  \A r \in Rows : gateway[<<"admin", r>>].state # "none"
                    => gateway[<<"admin", r>>].amount \in {PD, Total}

(* No refund of the order's own money has been confirmed. *)
NoneAcknowledged ==
  \A r \in Rows : refunds[r].policy # "rec6" => refunds[r].gateway # "succeeded"

(* The ledger, seen from the escrow row. *)
LedgerMatchesEscrow ==
  /\ escrow = "none" => held = 0 /\ toBuyer = 0 /\ toSeller = 0
  /\ escrow = "holding" => held = Total /\ toBuyer = 0 /\ toSeller = 0
  /\ escrow = "refunded" /\ NoneAcknowledged
       => held = Total /\ toBuyer = 0 /\ toSeller = 0

IInv ==
  /\ TypeOK
  /\ EscrowMatchesOrder
  /\ RowsAreAppended
  /\ ShippingIsBounded
  /\ AdminRequestsFit
  /\ LedgerMatchesEscrow

--------------------------------------------------------------------------------
(* Lemmas about the helpers. *)

(* The rows that are appended are rows, and so is every row after that. *)
LEMMA AddRowAppends ==
  ASSUME NEW row \in Row, TypeOK, RowsAreAppended, AddRow(row)
  PROVE  /\ refunds' \in [Rows -> Row] /\ opened' \in 0..MaxRefunds
         /\ opened' = opened + 1 /\ opened + 1 \in Rows
         /\ refunds' = [refunds EXCEPT ![opened + 1] = row]
         /\ RowsAreAppended'
BY GatewayAssumption DEF TypeOK, RowsAreAppended, AddRow, Rows

(* An appended row with a recorded, bounded shipping part keeps the bound.  *)
LEMMA AddRowKeepsShipping ==
  ASSUME NEW row \in Row, TypeOK, RowsAreAppended, ShippingIsBounded, AddRow(row),
         row.shipping \in 0..S \/ (row.shipping = Unrecorded /\ row.key = NoKey)
  PROVE  ShippingIsBounded'
<1>1. opened + 1 \in Rows /\ refunds' = [refunds EXCEPT ![opened + 1] = row]
  BY AddRowAppends
<1>2. QED
  BY <1>1, AmountsAssumption DEF TypeOK, ShippingIsBounded, Unrecorded

(* What the gateway takes is a request, and an admin's is for the product   *)
(* or for everything if the handler asked for that.                         *)
LEMMA GatewayTakesRequests ==
  ASSUME NEW k \in Keys, NEW ref, NEW amount \in Nat, TypeOK, AdminRequestsFit,
         k \in {"admin"} \X Rows => amount \in {PD, Total},
         GatewayAccepts(k, ref, amount)
  PROVE  /\ gateway' \in [Keys -> Request] /\ refundable' \in Int
         /\ AdminRequestsFit'
<1>1. CASE UNCHANGED gatewayVars
  BY <1>1 DEF TypeOK, AdminRequestsFit, gatewayVars
<1>2. CASE /\ gateway' = [gateway EXCEPT ![k] =
                           [state |-> "accepted", amount |-> amount]]
           /\ refundable' = refundable - amount
  BY <1>2 DEF TypeOK, AdminRequestsFit, Request, Keys
<1>3. QED
  BY <1>1, <1>2 DEF GatewayAccepts

(* A row that exists can be replaced by another one with a bounded shipping *)
(* part, or with none recorded if it is not sent or sent for an admin.      *)
LEMMA ReplaceRow ==
  ASSUME NEW r \in Rows, NEW row \in Row, TypeOK, RowsAreAppended, ShippingIsBounded,
         r <= opened,
         refunds' = [refunds EXCEPT ![r] = row], opened' = opened,
         row.shipping \in 0..S
           \/ (row.shipping = Unrecorded /\ row.key \in {NoKey, <<"admin", r>>})
  PROVE  /\ refunds' \in [Rows -> Row] /\ RowsAreAppended' /\ ShippingIsBounded'
<1>1. refunds' \in [Rows -> Row]
  BY DEF TypeOK
<1>2. RowsAreAppended'
  BY DEF TypeOK, RowsAreAppended, Rows
<1>3. ShippingIsBounded'
  BY AmountsAssumption DEF TypeOK, ShippingIsBounded, Unrecorded
<1>4. QED
  BY <1>1, <1>2, <1>3

(* A row with a status or a key is one that exists. *)
LEMMA RowExists ==
  ASSUME NEW r \in Rows, TypeOK, RowsAreAppended,
         refunds[r].status # "none" \/ refunds[r].key # NoKey
  PROVE  r <= opened
BY DEF TypeOK, RowsAreAppended, NoRow, Rows

LEMMA LatestExists == ASSUME TypeOK, opened > 0 PROVE opened \in Rows
BY DEF TypeOK, Rows

LEMMA SystemRowIsRow ==
  ASSUME NEW k \in SystemKeys, NEW amount
  PROVE  SystemRow(k, amount) \in Row /\ SystemRow(k, amount).shipping = 0
BY DEF SystemRow, Row, Keys, Decisions, Policies

(* Steps that touch neither the order, its escrow, its dispute, its refunds, *)
(* its ledger nor the gateway keep the invariant if they keep the types.    *)
Core == <<orderVars, escrow, dispute, refundVars, ledgerVars, gateway>>

LEMMA UntouchedCore == IInv /\ UNCHANGED Core /\ TypeOK' => IInv'
BY DEF IInv, Core, orderVars, refundVars, ledgerVars, EscrowMatchesOrder,
       RowsAreAppended, ShippingIsBounded, AdminRequestsFit,
       LedgerMatchesEscrow, NoneAcknowledged

--------------------------------------------------------------------------------
(* Every step keeps the invariant. *)

LEMMA NoRowIsRow == NoRow \in Row
BY DEF NoRow, Row, Decisions, Policies, BuyerPolicies, Unrecorded

LEMMA InitEstablishes == Init => IInv
<1> SUFFICES ASSUME Init PROVE IInv
  OBVIOUS
<1>1. TypeOK
  <2>1. refunds \in [Rows -> Row] /\ opened \in 0..MaxRefunds
    BY NoRowIsRow, GatewayAssumption DEF Init
  <2>2. gateway \in [Keys -> Request]
    BY DEF Init, Request
  <2>3. /\ status = "pending" /\ checkout = "idle" /\ payment = "none"
        /\ escrow = "none" /\ dispute = "none" /\ window = "none"
        /\ charge = "none" /\ processed = {} /\ ban = "idle"
        /\ held = 0 /\ toBuyer = 0 /\ toSeller = 0 /\ refundable = 0
    BY DEF Init
  <2>4. hasDispute \in BOOLEAN /\ deadlinePassed \in BOOLEAN /\ overdue \in BOOLEAN
    BY Zenon DEF Init
  <2>5. QED
    BY <2>1, <2>2, <2>3, <2>4 DEF TypeOK, Statuses
<1>2. RowsAreAppended /\ ShippingIsBounded
  BY DEF Init, RowsAreAppended, ShippingIsBounded, NoRow
<1>3. AdminRequestsFit
  BY DEF Init, AdminRequestsFit, Keys
<1>4. EscrowMatchesOrder /\ LedgerMatchesEscrow
  BY DEF Init, EscrowMatchesOrder, LedgerMatchesEscrow
<1>5. QED
  BY <1>1, <1>2, <1>3, <1>4 DEF IInv

LEMMA SurroundingsKeep ==
  ASSUME IInv,
         \/ PaymentDeadlinePasses \/ GracePeriodEnds \/ WindowMoves
         \/ GatewayCharges \/ CheckPayable \/ CreatePayment
         \/ \E n \in Notices : IgnoreCapture(n)
         \/ PaymentFailedNotice \/ FindUnshippedOfBannedUser
  PROVE  IInv'
<1>1. UNCHANGED Core
  BY DEF PaymentDeadlinePasses, GracePeriodEnds, WindowMoves, GatewayCharges,
         CheckPayable, CreatePayment, IgnoreCapture, PaymentFailedNotice,
         FindUnshippedOfBannedUser, Core, dbVars, orderVars, paymentVars,
         refundVars, ledgerVars, clockVars, gatewayVars
<1> SUFFICES TypeOK'
  BY <1>1, UntouchedCore
<1> USE DEF IInv, dbVars, orderVars, paymentVars, refundVars, ledgerVars, clockVars,
            gatewayVars
<1>2. CASE PaymentDeadlinePasses
  BY <1>2 DEF PaymentDeadlinePasses, TypeOK
<1>3. CASE GracePeriodEnds
  BY <1>3 DEF GracePeriodEnds, TypeOK
<1>4. CASE WindowMoves
  BY <1>4 DEF WindowMoves, TypeOK
<1>5. CASE GatewayCharges
  BY <1>5, AmountsAssumption DEF GatewayCharges, TypeOK, Gross
<1>6. CASE CheckPayable
  BY <1>6 DEF CheckPayable, TypeOK
<1>7. CASE CreatePayment
  BY <1>7 DEF CreatePayment, TypeOK
<1>8. CASE PaymentFailedNotice
  BY <1>8 DEF PaymentFailedNotice, TypeOK
<1>9. CASE \E n \in Notices : IgnoreCapture(n)
  BY <1>9 DEF IgnoreCapture, TypeOK
<1>10. CASE FindUnshippedOfBannedUser
  BY <1>10 DEF FindUnshippedOfBannedUser, TypeOK
<1>11. QED
  BY <1>2, <1>3, <1>4, <1>5, <1>6, <1>7, <1>8, <1>9, <1>10

(* The ways an unpaid order ends. *)
LEMMA ClosingUnpaidOrderKeeps ==
  ASSUME IInv, ExpirePayment \/ ExpireOrphanOrder \/ Cancel
  PROVE  IInv'
BY DEF IInv, ExpirePayment, ExpireOrphanOrder, Cancel, TypeOK, Statuses,
       EscrowMatchesOrder, RowsAreAppended, ShippingIsBounded, AdminRequestsFit,
       LedgerMatchesEscrow, NoneAcknowledged,
       orderVars, paymentVars, refundVars, ledgerVars, clockVars, gatewayVars

LEMMA FinalizeOrderPaymentKeeps ==
  ASSUME IInv, NEW n \in Notices, FinalizeOrderPayment(n)
  PROVE  IInv'
BY AmountsAssumption
DEF IInv, FinalizeOrderPayment, TypeOK, Statuses, EscrowMatchesOrder,
    RowsAreAppended, ShippingIsBounded, AdminRequestsFit, LedgerMatchesEscrow,
    NoneAcknowledged, Total, refundVars, clockVars, gatewayVars

(* Fulfilment, and the dispute over a shipped order. *)
LEMMA MarkShippedKeeps == ASSUME IInv, MarkShipped PROVE IInv'
BY DEF IInv, MarkShipped, TypeOK, Statuses, EscrowMatchesOrder, RowsAreAppended,
       ShippingIsBounded, AdminRequestsFit, LedgerMatchesEscrow, NoneAcknowledged,
       paymentVars, refundVars, ledgerVars, gatewayVars

LEMMA OpenDisputeKeeps == ASSUME IInv, OpenDispute PROVE IInv'
BY DEF IInv, OpenDispute, TypeOK, Statuses, EscrowMatchesOrder, RowsAreAppended,
       ShippingIsBounded, AdminRequestsFit, LedgerMatchesEscrow, NoneAcknowledged,
       paymentVars, refundVars, ledgerVars, clockVars, gatewayVars

LEMMA CompleteKeeps == ASSUME IInv, Complete PROVE IInv'
BY DEF IInv, Complete, ReleaseEscrowToSeller, TypeOK, Statuses, EscrowMatchesOrder,
       RowsAreAppended, ShippingIsBounded, AdminRequestsFit, LedgerMatchesEscrow,
       Total, paymentVars, refundVars, clockVars, gatewayVars

(* A refund row created or rejected, before anything is sent. *)
LEMMA CreateRefundKeeps == ASSUME IInv, CreateRefund PROVE IInv'
<1>1. PICK p \in BuyerPolicies :
        AddRow([NoRow EXCEPT !.status = "pending_seller_review", !.policy = p])
  BY DEF CreateRefund
<1> DEFINE row == [NoRow EXCEPT !.status = "pending_seller_review", !.policy = p]
<1>2. row \in Row /\ row.shipping = Unrecorded /\ row.key = NoKey /\ AddRow(row)
  BY <1>1, NoRowIsRow DEF Row, NoRow, Decisions, Policies
<1> HIDE DEF row
<1>3. /\ refunds' \in [Rows -> Row] /\ opened' \in 0..MaxRefunds
      /\ RowsAreAppended' /\ ShippingIsBounded'
  BY <1>2, AddRowAppends, AddRowKeepsShipping DEF IInv
<1>4. QED
  BY <1>3 DEF IInv, CreateRefund, TypeOK, EscrowMatchesOrder, AdminRequestsFit,
              LedgerMatchesEscrow, orderVars, paymentVars, ledgerVars, clockVars,
              gatewayVars

LEMMA RejectRefundKeeps == ASSUME IInv, NEW r \in Rows, RejectRefund(r) PROVE IInv'
<1>1. TypeOK'
  BY DEF IInv, RejectRefund, TypeOK, Row, Decisions, orderVars, paymentVars,
         ledgerVars, clockVars, gatewayVars
<1>2. RowsAreAppended' /\ ShippingIsBounded'
  BY DEF IInv, RejectRefund, TypeOK, RowsAreAppended, ShippingIsBounded, NoRow
<1>3. LedgerMatchesEscrow'
  BY DEF IInv, RejectRefund, TypeOK, LedgerMatchesEscrow, NoneAcknowledged, ledgerVars
<1>4. EscrowMatchesOrder' /\ AdminRequestsFit'
  BY DEF IInv, RejectRefund, EscrowMatchesOrder, AdminRequestsFit, orderVars,
         gatewayVars
<1>5. QED
  BY <1>1, <1>2, <1>3, <1>4 DEF IInv

(* A refund recorded or decided. *)
LEMMA RefundCaptureOfInvalidOrderKeeps ==
  ASSUME IInv, NEW n \in Notices, RefundCaptureOfInvalidOrder(n)
  PROVE  IInv'
<1> DEFINE row == [status |-> "system_refunded", gateway |-> "unsubmitted",
                   key |-> Rec6Key, policy |-> "rec6", shipping |-> 0]
<1>1. row \in Row /\ row.shipping \in 0..S /\ row.gateway # "succeeded"
  BY AmountsAssumption DEF Row, Rec6Key, Keys, SystemKeys, Decisions, Policies
<1>2. UNCHANGED refundVars \/ AddRow(row)
  BY DEF RefundCaptureOfInvalidOrder
<1> HIDE DEF row
<1>3. CASE UNCHANGED refundVars
  <2>1. TypeOK'
    BY <1>3 DEF IInv, TypeOK, RefundCaptureOfInvalidOrder, refundVars, orderVars,
                ledgerVars, clockVars, gatewayVars
  <2>2. UNCHANGED Core
    BY <1>3 DEF RefundCaptureOfInvalidOrder, Core, gatewayVars
  <2>3. QED
    BY <2>1, <2>2, UntouchedCore
<1>4. CASE AddRow(row)
  <2>1. /\ refunds' \in [Rows -> Row] /\ opened' \in 0..MaxRefunds
        /\ opened + 1 \in Rows /\ refunds' = [refunds EXCEPT ![opened + 1] = row]
        /\ RowsAreAppended' /\ ShippingIsBounded'
    BY <1>1, <1>4, AddRowAppends, AddRowKeepsShipping DEF IInv
  <2>2. TypeOK'
    BY <2>1 DEF IInv, TypeOK, RefundCaptureOfInvalidOrder, orderVars, ledgerVars,
                clockVars, gatewayVars
  <2>3. NoneAcknowledged' => NoneAcknowledged
    BY <2>1 DEF IInv, TypeOK, RowsAreAppended, NoneAcknowledged, NoRow
  <2>4. QED
    BY <2>1, <2>2, <2>3
    DEF IInv, RefundCaptureOfInvalidOrder, EscrowMatchesOrder, AdminRequestsFit,
        LedgerMatchesEscrow, orderVars, ledgerVars, gatewayVars
<1>5. QED
  BY <1>2, <1>3, <1>4

LEMMA EscalateRefundKeeps == ASSUME IInv, NEW r \in Rows, EscalateRefund(r) PROVE IInv'
<1>1. TypeOK'
  BY DEF IInv, EscalateRefund, TypeOK, Row, Decisions, Statuses, paymentVars,
         ledgerVars, clockVars, gatewayVars
<1>2. RowsAreAppended' /\ ShippingIsBounded'
  BY DEF IInv, EscalateRefund, TypeOK, RowsAreAppended, ShippingIsBounded, NoRow
<1>3. QED
  BY <1>1, <1>2
  DEF IInv, EscalateRefund, EscrowMatchesOrder, AdminRequestsFit,
      LedgerMatchesEscrow, ledgerVars, gatewayVars

LEMMA ResolveReleaseKeeps == ASSUME IInv, ResolveRelease PROVE IInv'
<1>1. refunds' \in [Rows -> Row] /\ opened' = opened
      /\ RowsAreAppended' /\ ShippingIsBounded'
  <2>1. CASE UNCHANGED refundVars
    BY <2>1 DEF IInv, TypeOK, RowsAreAppended, ShippingIsBounded, refundVars
  <2>2. CASE /\ opened > 0 /\ Latest.status = "escalated_to_admin"
             /\ refunds' = [refunds EXCEPT ![opened].status = "admin_released"]
             /\ UNCHANGED opened
    BY <2>2, LatestExists
    DEF IInv, TypeOK, Row, Decisions, RowsAreAppended, ShippingIsBounded, NoRow, Latest
  <2>3. QED
    BY <2>1, <2>2 DEF ResolveRelease
<1>2. TypeOK'
  BY <1>1, AmountsAssumption
  DEF IInv, ResolveRelease, ReleaseEscrowToSeller, TypeOK, Statuses, Total,
      paymentVars, clockVars, gatewayVars
<1>3. QED
  BY <1>1, <1>2
  DEF IInv, ResolveRelease, ReleaseEscrowToSeller, EscrowMatchesOrder,
      AdminRequestsFit, LedgerMatchesEscrow, gatewayVars

(* A refund sent to the gateway. *)
LEMMA AmountsAreNaturals ==
  /\ Total \in Nat /\ PD \in Nat /\ Total - K \in Nat /\ PD - K \in Nat
  /\ \A r \in Rows : PD + ApprovedShipping(r) \in Nat /\ ApprovedShipping(r) \in 0..S
BY AmountsAssumption DEF Total, ApprovedShipping

LEMMA SystemKeysAreKeys ==
  /\ SystemKeys \subseteq Keys
  /\ \A k \in SystemKeys : k \notin {"admin"} \X Rows
  /\ {OverdueKey, ManualKey, DisputeRefundKey, SplitKey} \subseteq SystemKeys
BY DEF SystemKeys, Keys, OverdueKey, ManualKey, DisputeRefundKey, SplitKey

LEMMA NegotiatedKeysAreKeys ==
  \A r \in Rows : /\ SellerKey(r) \in Keys /\ SellerKey(r) \notin {"admin"} \X Rows
                  /\ <<"admin", r>> \in Keys
BY DEF SellerKey, Keys

(* CancelOverdue and RefundOrder: the two system refunds of an order.       *)
LEMMA SystemRefundKeeps ==
  ASSUME IInv, CancelOverdue \/ RefundOrder
  PROVE  IInv'
<1>1. PICK k \in SystemKeys :
        GatewayAccepts(k, OrderRef, Total - K) /\ AddRow(SystemRow(k, Total))
  BY SystemKeysAreKeys DEF CancelOverdue, RefundOrder
<1>2. SystemRow(k, Total) \in Row /\ SystemRow(k, Total).shipping \in 0..S
  BY SystemRowIsRow, AmountsAssumption
<1>3. /\ refunds' \in [Rows -> Row] /\ opened' \in 0..MaxRefunds
      /\ RowsAreAppended' /\ ShippingIsBounded'
  BY <1>1, <1>2, AddRowAppends, AddRowKeepsShipping DEF IInv
<1>4. gateway' \in [Keys -> Request] /\ refundable' \in Int /\ AdminRequestsFit'
  BY <1>1, GatewayTakesRequests, SystemKeysAreKeys, AmountsAreNaturals DEF IInv
<1>5. TypeOK'
  BY <1>3, <1>4
  DEF IInv, CancelOverdue, RefundOrder, TypeOK, Statuses, paymentVars, ledgerVars,
      clockVars
<1>6. EscrowMatchesOrder' /\ LedgerMatchesEscrow'
  BY DEF IInv, CancelOverdue, RefundOrder, MayCancelOverdue, MayRefundForBan,
         EscrowMatchesOrder, LedgerMatchesEscrow, ledgerVars
<1>7. QED
  BY <1>3, <1>4, <1>5, <1>6 DEF IInv

LEMMA ApproveRefundKeeps == ASSUME IInv, NEW r \in Rows, ApproveRefund(r) PROVE IInv'
<1> DEFINE row == [refunds[r] EXCEPT !.status = "seller_approved",
                                     !.gateway = "pending", !.key = SellerKey(r),
                                     !.shipping = ApprovedShipping(r)]
<1>1. refunds' = [refunds EXCEPT ![r] = row] /\ opened' = opened
  BY DEF ApproveRefund
<1>2. row \in Row /\ row.shipping \in 0..S
  <2>1. ApprovedShipping(r) \in 0..S /\ ApprovedShipping(r) \in Nat /\ SellerKey(r) \in Keys
    BY AmountsAssumption DEF ApprovedShipping, SellerKey, Keys
  <2>2. QED
    BY <2>1 DEF IInv, TypeOK, Row, Decisions
<1>3. r <= opened
  BY RowExists DEF IInv, ApproveRefund, MayApprove
<1> HIDE DEF row
<1>4. refunds' \in [Rows -> Row] /\ RowsAreAppended' /\ ShippingIsBounded'
  BY <1>1, <1>2, <1>3, ReplaceRow DEF IInv
<1>5. gateway' \in [Keys -> Request] /\ refundable' \in Int /\ AdminRequestsFit'
  BY GatewayTakesRequests, NegotiatedKeysAreKeys, AmountsAreNaturals
  DEF IInv, ApproveRefund
<1>6. TypeOK'
  BY <1>1, <1>4, <1>5
  DEF IInv, ApproveRefund, TypeOK, orderVars, paymentVars, ledgerVars, clockVars
<1>7. EscrowMatchesOrder' /\ LedgerMatchesEscrow'
  BY DEF IInv, ApproveRefund, MayApprove, EscrowMatchesOrder, LedgerMatchesEscrow,
         orderVars, ledgerVars
<1>8. QED
  BY <1>4, <1>5, <1>6, <1>7 DEF IInv

(* The refund side of a dispute resolved for the buyer, whichever of the    *)
(* three ways it takes.                                                     *)
LEMMA DecideForBuyerKeeps ==
  ASSUME NEW amount \in {Total, PD}, NEW k \in SystemKeys, IInv, DecideForBuyer(amount, k)
  PROVE  /\ refunds' \in [Rows -> Row] /\ opened' \in 0..MaxRefunds
         /\ RowsAreAppended' /\ ShippingIsBounded'
         /\ gateway' \in [Keys -> Request] /\ refundable' \in Int /\ AdminRequestsFit'
<1>1. CASE /\ MayDecideEscalated
           /\ GatewayAccepts(AdminKey, OrderRef, amount)
           /\ refunds' = [refunds EXCEPT ![opened] =
                [@ EXCEPT !.status = "admin_refunded", !.gateway = "pending",
                          !.key = AdminKey]]
           /\ UNCHANGED opened
  <2> DEFINE row == [refunds[opened] EXCEPT !.status = "admin_refunded",
                                            !.gateway = "pending", !.key = AdminKey]
  <2>1. opened \in Rows /\ opened <= opened
    BY <1>1, LatestExists DEF IInv, MayDecideEscalated, TypeOK
  <2>2. AdminKey \in Keys
    BY <2>1, NegotiatedKeysAreKeys DEF AdminKey
  <2>3. row \in Row /\ row.key = <<"admin", opened>>
        /\ row.shipping \in 0..S \cup {Unrecorded}
    <3>1. refunds[opened] \in Row /\ refunds[opened].shipping \in 0..S \cup {Unrecorded}
      BY <2>1 DEF IInv, TypeOK, ShippingIsBounded
    <3>2. row \in Row /\ row.key = AdminKey /\ row.shipping = refunds[opened].shipping
      BY <2>2, <3>1 DEF Row, Decisions
    <3>3. QED
      BY <3>1, <3>2 DEF AdminKey
  <2>4. refunds' = [refunds EXCEPT ![opened] = row] /\ opened' = opened
    BY <1>1
  <2> HIDE DEF row
  <2>5. refunds' \in [Rows -> Row] /\ RowsAreAppended' /\ ShippingIsBounded'
    BY <2>1, <2>3, <2>4, ReplaceRow DEF IInv
  <2>6. gateway' \in [Keys -> Request] /\ refundable' \in Int /\ AdminRequestsFit'
    BY <1>1, <2>2, GatewayTakesRequests, AmountsAreNaturals DEF IInv
  <2>7. QED
    BY <2>4, <2>5, <2>6 DEF IInv, TypeOK
<1>2. CASE MayKeepDecision /\ UNCHANGED <<refundVars, gatewayVars>>
  BY <1>2 DEF IInv, TypeOK, RowsAreAppended, ShippingIsBounded, AdminRequestsFit,
              refundVars, gatewayVars
<1>3. CASE /\ MayRefundDirectly(amount)
           /\ GatewayAccepts(k, OrderRef, amount - K)
           /\ AddRow(SystemRow(k, amount))
  <2>1. SystemRow(k, amount) \in Row /\ SystemRow(k, amount).shipping \in 0..S
    BY SystemRowIsRow, AmountsAssumption
  <2>2. /\ refunds' \in [Rows -> Row] /\ opened' \in 0..MaxRefunds
        /\ RowsAreAppended' /\ ShippingIsBounded'
    BY <1>3, <2>1, AddRowAppends, AddRowKeepsShipping DEF IInv
  <2>3. gateway' \in [Keys -> Request] /\ refundable' \in Int /\ AdminRequestsFit'
    BY <1>3, GatewayTakesRequests, SystemKeysAreKeys, AmountsAreNaturals DEF IInv
  <2>4. QED
    BY <2>2, <2>3
<1>4. QED
  BY <1>1, <1>2, <1>3 DEF DecideForBuyer

LEMMA ResolveForBuyerKeeps ==
  ASSUME IInv, ResolveRefund \/ ResolvePartialSplit
  PROVE  IInv'
<1>1. PICK amount \in {Total, PD}, k \in SystemKeys : DecideForBuyer(amount, k)
  BY SystemKeysAreKeys DEF ResolveRefund, ResolvePartialSplit
<1>2. /\ refunds' \in [Rows -> Row] /\ opened' \in 0..MaxRefunds
      /\ RowsAreAppended' /\ ShippingIsBounded'
      /\ gateway' \in [Keys -> Request] /\ refundable' \in Int /\ AdminRequestsFit'
  BY <1>1, DecideForBuyerKeeps
<1>3. TypeOK'
  BY <1>2 DEF IInv, ResolveRefund, ResolvePartialSplit, TypeOK, Statuses,
              paymentVars, ledgerVars, clockVars
<1>4. EscrowMatchesOrder' /\ LedgerMatchesEscrow'
  BY DEF IInv, ResolveRefund, ResolvePartialSplit, EscrowMatchesOrder,
         LedgerMatchesEscrow, ledgerVars
<1>5. QED
  BY <1>2, <1>3, <1>4 DEF IInv

(* The handler's gateway call without its transaction. *)
LEMMA RefundResponseLostKeeps == ASSUME IInv, RefundResponseLost PROVE IInv'
<1>1. PICK k \in Keys, amount \in Nat :
        /\ GatewayAccepts(k, OrderRef, amount)
        /\ k \in {"admin"} \X Rows => amount \in {PD, Total}
  <2>1. CASE \/ MayCancelOverdue /\ GatewayAccepts(OverdueKey, OrderRef, Total - K)
             \/ MayRefundForBan /\ GatewayAccepts(ManualKey, OrderRef, Total - K)
             \/ /\ MayRefundDirectly(Total)
                /\ GatewayAccepts(DisputeRefundKey, OrderRef, Total - K)
             \/ /\ MayRefundDirectly(PD)
                /\ GatewayAccepts(SplitKey, OrderRef, PD - K)
    BY <2>1, SystemKeysAreKeys, AmountsAreNaturals
  <2>2. CASE \E r \in Rows :
               /\ MayApprove(r)
               /\ GatewayAccepts(SellerKey(r), OrderRef, PD + ApprovedShipping(r))
    BY <2>2, NegotiatedKeysAreKeys, AmountsAreNaturals
  <2>3. CASE /\ MayDecideEscalated
             /\ \E amount \in {Total, PD} : GatewayAccepts(AdminKey, OrderRef, amount)
    <3>1. AdminKey \in Keys
      BY <2>3, LatestExists, NegotiatedKeysAreKeys DEF IInv, MayDecideEscalated, AdminKey
    <3>2. QED
      BY <2>3, <3>1, AmountsAreNaturals
  <2>4. QED
    BY <2>1, <2>2, <2>3 DEF RefundResponseLost
<1>2. gateway' \in [Keys -> Request] /\ refundable' \in Int /\ AdminRequestsFit'
  BY <1>1, GatewayTakesRequests DEF IInv
<1>3. QED
  BY <1>2
  DEF IInv, RefundResponseLost, TypeOK, EscrowMatchesOrder, RowsAreAppended,
      ShippingIsBounded, LedgerMatchesEscrow, NoneAcknowledged, dbVars, orderVars,
      paymentVars, refundVars, ledgerVars, clockVars

(* The gateway's own steps, and a notification nobody recognises. *)
LEMMA GatewayKeeps ==
  ASSUME IInv, NEW k \in Keys,
         GatewaySettles(k) \/ GatewayDenies(k) \/ NotificationDropped(k)
  PROVE  IInv'
<1>1. PICK s \in {"settled", "denied", "dropped"} :
        gateway' = [gateway EXCEPT ![k].state = s] /\ gateway[k].state # "none"
  BY DEF GatewaySettles, GatewayDenies, NotificationDropped
<1>2. gateway' \in [Keys -> Request] /\ AdminRequestsFit'
  BY <1>1 DEF IInv, TypeOK, AdminRequestsFit, Request
<1>3. refundable' \in Int
  BY DEF IInv, TypeOK, Request, GatewaySettles, GatewayDenies, NotificationDropped
<1>4. UNCHANGED <<dbVars, ban, clockVars, charge>>
  BY DEF GatewaySettles, GatewayDenies, NotificationDropped
<1>5. QED
  BY <1>2, <1>3, <1>4
  DEF IInv, TypeOK, EscrowMatchesOrder, RowsAreAppended, ShippingIsBounded,
      LedgerMatchesEscrow, NoneAcknowledged, dbVars, orderVars, paymentVars,
      refundVars, ledgerVars, clockVars

(* A refund confirmed.  Its shipping part is within the fee, and no other   *)
(* refund of the order was confirmed before, so the ledger still held the   *)
(* whole order.                                                             *)
LEMMA ShippingOfSettled ==
  ASSUME IInv, NEW r \in Rows, refunds[r].key # NoKey,
         gateway[refunds[r].key].state = "settled"
  PROVE  Rs(r) \in 0..S
BY AmountsAssumption DEF IInv, ShippingIsBounded, AdminRequestsFit, Rs, Total, Unrecorded

LEMMA LedgerBeforeSuccess ==
  ASSUME IInv, NEW r \in Rows, RefundAckSucceeded(r)
  PROVE  held = Total /\ toBuyer = 0 /\ toSeller = 0
<1>1. NoneAcknowledged
  BY DEF RefundAckSucceeded, BreakdownFits, NoneAcknowledged
<1>2. escrow \in {"holding", "refunded"}
  BY DEF RefundAckSucceeded, ReverseAfterFlip, ReverseInFull, ReverseInPart
<1>3. QED
  BY <1>1, <1>2 DEF IInv, LedgerMatchesEscrow

LEMMA RefundAckSucceededKeeps ==
  ASSUME IInv, NEW r \in Rows, RefundAckSucceeded(r)
  PROVE  IInv'
<1> DEFINE row == SucceededRow(r)
<1>1. refunds' = [refunds EXCEPT ![r] = row] /\ opened' = opened
  BY DEF RefundAckSucceeded
<1>2. Rs(r) \in 0..S
  BY ShippingOfSettled DEF RefundAckSucceeded
<1>3. /\ row \in Row /\ row.shipping \in 0..S
      /\ row.gateway = "succeeded" /\ row.policy = refunds[r].policy
  <2>1. Rs(r) \in Nat
    BY <1>2, AmountsAssumption
  <2>2. refunds[r] \in Row
    BY DEF IInv, TypeOK
  <2>3. QED
    BY <1>2, <2>1, <2>2 DEF Row, SucceededRow
<1>4. r <= opened
  BY RowExists DEF IInv, RefundAckSucceeded
<1> HIDE DEF row
<1>5. refunds' \in [Rows -> Row] /\ RowsAreAppended' /\ ShippingIsBounded'
  BY <1>1, <1>3, <1>4, ReplaceRow DEF IInv
<1>6. ~NoneAcknowledged'
  BY <1>1, <1>3 DEF IInv, TypeOK, NoneAcknowledged, RefundAckSucceeded,
                      MovesMoney
<1>7. held' \in Int /\ toBuyer' \in Int /\ toSeller' \in Int
  BY <1>2, AmountsAssumption
  DEF IInv, TypeOK, RefundAckSucceeded, ReverseAfterFlip, ReverseInFull,
      ReverseInPart, ReverseTo
<1>8. TypeOK'
  BY <1>1, <1>5, <1>7
  DEF IInv, TypeOK, RefundAckSucceeded, ReverseAfterFlip, ReverseInFull,
      ReverseInPart, Statuses, paymentVars, clockVars, gatewayVars
<1>9. EscrowMatchesOrder' /\ escrow' \in {"refunded", "released"}
  BY DEF IInv, EscrowMatchesOrder, RefundAckSucceeded, ReverseAfterFlip,
         ReverseInFull, ReverseInPart
<1>10. QED
  BY <1>5, <1>6, <1>8, <1>9
  DEF IInv, RefundAckSucceeded, AdminRequestsFit, LedgerMatchesEscrow, gatewayVars

(* The other changes of a sent refund's row: REC-6 and failures.            *)
LEMMA RowOnlyKeeps ==
  ASSUME IInv, NEW r \in Rows,
         RefundAckFailed(r) \/ Rec6AckSucceeded(r) \/ Rec6Dispatch(r)
  PROVE  IInv'
<1>1. PICK g \in {"pending", "succeeded", "failed"} :
        /\ refunds' = [refunds EXCEPT ![r].gateway = g]
        /\ g = "succeeded" => refunds[r].policy = "rec6"
  BY DEF RefundAckFailed, Rec6AckSucceeded, Rec6Dispatch, Rec6Answered,
         Rec6Unanswered, MovesMoney
<1>2. refunds[r].gateway = "succeeded" => FALSE
  BY DEF RefundAckFailed, Rec6AckSucceeded, Rec6Dispatch, Rec6Answered,
         Rec6Unanswered
<1>3. gateway' \in [Keys -> Request] /\ refundable' \in Int /\ AdminRequestsFit'
  <2>1. CASE UNCHANGED gatewayVars
    BY <2>1 DEF IInv, TypeOK, AdminRequestsFit, gatewayVars
  <2>2. CASE GatewayAccepts(Rec6Key, ChargeRef, Gross)
    <3>1. Rec6Key \in Keys /\ Rec6Key \notin {"admin"} \X Rows /\ Gross \in Nat
      BY AmountsAssumption DEF Rec6Key, Keys, SystemKeys, Gross
    <3>2. QED
      BY <2>2, <3>1, GatewayTakesRequests DEF IInv
  <2>3. QED
    BY <2>1, <2>2 DEF RefundAckFailed, Rec6AckSucceeded, Rec6Dispatch,
                      Rec6Answered, Rec6Unanswered
<1>4. /\ UNCHANGED <<orderVars, paymentVars, escrow, dispute, opened, ledgerVars>>
      /\ UNCHANGED <<ban, clockVars, charge>>
  BY DEF RefundAckFailed, Rec6AckSucceeded, Rec6Dispatch, Rec6Answered,
         Rec6Unanswered
<1>5. refunds' \in [Rows -> Row] /\ ShippingIsBounded' /\ RowsAreAppended'
  <2>1. r <= opened
    BY DEF IInv, TypeOK, RefundAckFailed, Rec6AckSucceeded, Rec6Dispatch,
           Rec6Answered, Rec6Unanswered,
           RowsAreAppended, NoRow, Rows
  <2>2. refunds' \in [Rows -> Row]
    BY <1>1 DEF IInv, TypeOK, Row
  <2>3. \A q \in Rows : refunds'[q].shipping = refunds[q].shipping
                      /\ refunds'[q].key = refunds[q].key
    BY <1>1 DEF IInv, TypeOK, Row
  <2>4. \A q \in Rows : q > opened => refunds'[q] = refunds[q]
    BY <1>1, <2>1 DEF IInv, TypeOK, Rows
  <2>5. ShippingIsBounded' /\ RowsAreAppended'
    BY <1>4, <2>3, <2>4 DEF IInv, ShippingIsBounded, RowsAreAppended
  <2>6. QED
    BY <2>2, <2>5
<1>6. TypeOK'
  BY <1>3, <1>4, <1>5 DEF IInv, TypeOK, orderVars, paymentVars, ledgerVars, clockVars
<1>7. NoneAcknowledged' => NoneAcknowledged
  BY <1>1, <1>2 DEF IInv, TypeOK, NoneAcknowledged
<1>8. QED
  BY <1>3, <1>4, <1>5, <1>6, <1>7
  DEF IInv, EscrowMatchesOrder, LedgerMatchesEscrow, orderVars, ledgerVars

LEMMA NextKeeps == IInv /\ [Next]_vars => IInv'
<1> SUFFICES ASSUME IInv, [Next]_vars PROVE IInv'
  OBVIOUS
<1>1. CASE PaymentNext
  BY <1>1, SurroundingsKeep, ClosingUnpaidOrderKeeps, FinalizeOrderPaymentKeeps,
     RefundCaptureOfInvalidOrderKeeps
  DEF PaymentNext, PaymentSucceededNotice
<1>2. CASE OrderNext
  BY <1>2, MarkShippedKeeps, CompleteKeeps, SystemRefundKeeps, SurroundingsKeep,
     OpenDisputeKeeps, ResolveForBuyerKeeps, ResolveReleaseKeeps
  DEF OrderNext
<1>3. CASE RefundNext
  BY <1>3, CreateRefundKeeps, ApproveRefundKeeps, RejectRefundKeeps,
     EscalateRefundKeeps, RefundAckSucceededKeeps, RowOnlyKeeps,
     RefundResponseLostKeeps, GatewayKeeps
  DEF RefundNext
<1>4. CASE EnvironmentNext
  BY <1>4, SurroundingsKeep, GatewayKeeps DEF EnvironmentNext
<1>5. CASE UNCHANGED vars
  BY <1>5, UntouchedCore
  DEF IInv, TypeOK, vars, dbVars, Core, orderVars, paymentVars, refundVars,
      ledgerVars, clockVars, gatewayVars
<1>6. QED
  BY <1>1, <1>2, <1>3, <1>4, <1>5 DEF Next

(* The invariant holds in every reachable state. *)
THEOREM Invariance == Spec => []IInv
BY InitEstablishes, NextKeeps, PTL DEF Spec

--------------------------------------------------------------------------------
(* The results. *)

(* Every variable stays within its type: no refund row is ever malformed,   *)
(* no shipping part negative, whatever the gateway is asked for.            *)
THEOREM TypeCorrect == Spec => []TypeOK
<1>1. IInv => TypeOK
  BY DEF IInv
<1>2. QED
  BY <1>1, Invariance, PTL

(* Order, escrow and dispute agree, whatever the interleaving of handlers,  *)
(* workers, notifications and lost responses.                               *)
THEOREM OrderMatchesEscrow == Spec => []EscrowMatchesOrder
<1>1. IInv => EscrowMatchesOrder
  BY DEF IInv
<1>2. QED
  BY <1>1, Invariance, PTL

(* A step either leaves the ledger alone or funds the untouched order, or   *)
(* pays out the whole of what is held, once.                                *)
LEMMA LedgerStep ==
  IInv /\ [Next]_vars => [Custodian!Next]_<<held, toBuyer, toSeller>>
<1> SUFFICES ASSUME IInv, [Next]_vars PROVE [Custodian!Next]_<<held, toBuyer, toSeller>>
  OBVIOUS
<1>1. ASSUME NEW n \in Notices, FinalizeOrderPayment(n) PROVE Custodian!Fund
  <2>1. held = 0 /\ toBuyer = 0 /\ toSeller = 0
    BY <1>1 DEF IInv, EscrowMatchesOrder, LedgerMatchesEscrow, FinalizeOrderPayment
  <2>2. QED
    BY <1>1, <2>1, AmountsAreNaturals DEF FinalizeOrderPayment, Custodian!Fund
<1>2. ASSUME ReleaseEscrowToSeller PROVE Custodian!Disburse
  <2>1. /\ held = Total /\ toBuyer' = toBuyer + 0 /\ toSeller' = toSeller + Total
        /\ held' = Total - 0 - Total
    BY <1>2, AmountsAreNaturals
    DEF IInv, LedgerMatchesEscrow, ReleaseEscrowToSeller
  <2>2. 0 \in 0..Total /\ Total \in 0..Total /\ 0 + Total > 0 /\ 0 + Total <= Total
    BY AmountsAssumption DEF Total
  <2>3. QED
    BY <2>1, <2>2 DEF Custodian!Disburse
<1>3. ASSUME NEW r \in Rows, RefundAckSucceeded(r) PROVE Custodian!Disburse
  <2>1. held = Total /\ toBuyer = 0 /\ toSeller = 0
    BY <1>3, LedgerBeforeSuccess
  <2>2. Rs(r) \in 0..S
    BY <1>3, ShippingOfSettled DEF RefundAckSucceeded
  <2>3. PICK s \in 0..Total : ReverseTo(r, s) /\ PD + Rs(r) + s <= Total
    BY <1>3, <2>2, AmountsAssumption
    DEF RefundAckSucceeded, ReverseAfterFlip, ReverseInFull, ReverseInPart, Total
  <2>4. PD + Rs(r) \in 0..Total /\ PD + Rs(r) + s > 0
    BY <2>2, AmountsAssumption DEF Total
  <2>5. /\ toBuyer' = toBuyer + (PD + Rs(r)) /\ toSeller' = toSeller + s
        /\ held' = Total - (PD + Rs(r)) - s
    BY <2>1, <2>2, <2>3, AmountsAssumption DEF ReverseTo, Total
  <2>6. QED
    BY <2>1, <2>3, <2>4, <2>5 DEF Custodian!Disburse
<1>4. CASE PaymentNext
  BY <1>1, <1>4
  DEF PaymentNext, PaymentSucceededNotice, CheckPayable, CreatePayment,
      RefundCaptureOfInvalidOrder, IgnoreCapture, PaymentFailedNotice,
      ExpirePayment, ExpireOrphanOrder, Cancel, ledgerVars, Custodian!Next
<1>5. CASE OrderNext
  BY <1>2, <1>5
  DEF OrderNext, MarkShipped, Complete, CancelOverdue, FindUnshippedOfBannedUser,
      RefundOrder, OpenDispute, ResolveRefund, ResolvePartialSplit, ResolveRelease,
      dbVars, ledgerVars, Custodian!Next
<1>6. CASE RefundNext
  BY <1>3, <1>6
  DEF RefundNext, CreateRefund, ApproveRefund, RejectRefund, EscalateRefund,
      RefundAckFailed, Rec6AckSucceeded, Rec6Dispatch, Rec6Answered,
      Rec6Unanswered, RefundResponseLost,
      NotificationDropped, dbVars, ledgerVars, Custodian!Next
<1>7. CASE EnvironmentNext
  BY <1>7
  DEF EnvironmentNext, PaymentDeadlinePasses, GracePeriodEnds, WindowMoves,
      GatewayCharges, GatewaySettles, GatewayDenies, dbVars, ledgerVars
<1>8. CASE UNCHANGED vars
  BY <1>8 DEF vars, dbVars, ledgerVars
<1>9. QED
  BY <1>4, <1>5, <1>6, <1>7, <1>8 DEF Next

(* The settlement of an order implements the custodian: its money comes in  *)
(* at most once and goes out at most once, and no more of it than came in.  *)
THEOREM CustodyRefinement == Spec => CustodySpec
<1>1. Init => Custodian!Init
  BY DEF Init, Custodian!Init
<1>2. QED
  BY <1>1, LedgerStep, Invariance, PTL
  DEF Spec, CustodySpec, Custodian!Spec, Custodian!vars

Stays ==
  /\ status \in {"completed", "refunded", "cancelled", "cancelled_timeout",
                  "expired"} => status' = status
  /\ escrow \in {"released", "refunded"} => escrow' = escrow

(* Every handler that could still change a closed order or a closed escrow  *)
(* wants the escrow holding, or the order pending.                          *)
LEMMA StepStays == IInv /\ [Next]_vars => Stays
<1> USE DEF Stays
<1> SUFFICES ASSUME IInv, [Next]_vars PROVE Stays
  OBVIOUS
<1> USE DEF IInv, EscrowMatchesOrder
<1>1. CASE PaymentNext
  BY <1>1
  DEF PaymentNext, PaymentSucceededNotice, FinalizeOrderPayment, CheckPayable,
      CreatePayment, RefundCaptureOfInvalidOrder, IgnoreCapture,
      PaymentFailedNotice, ExpirePayment, ExpireOrphanOrder, Cancel, orderVars
<1>2. CASE OrderNext
  BY <1>2
  DEF OrderNext, MarkShipped, Complete, ReleaseEscrowToSeller, CancelOverdue,
      MayCancelOverdue, FindUnshippedOfBannedUser, RefundOrder, MayRefundForBan,
      OpenDispute, ResolveRefund, ResolvePartialSplit, ResolveRelease,
      DecideForBuyer, MayDecideEscalated, MayKeepDecision, MayRefundDirectly,
      DisputeOpen, dbVars, orderVars
<1>3. CASE RefundNext
  BY <1>3
  DEF RefundNext, CreateRefund, ApproveRefund, RejectRefund, EscalateRefund,
      RefundAckSucceeded, ReverseAfterFlip, ReverseInFull, ReverseInPart,
      RefundAckFailed, Rec6AckSucceeded, Rec6Dispatch, Rec6Answered,
      Rec6Unanswered, RefundResponseLost,
      NotificationDropped, dbVars, orderVars
<1>4. CASE EnvironmentNext \/ UNCHANGED vars
  BY <1>4
  DEF EnvironmentNext, PaymentDeadlinePasses, GracePeriodEnds, WindowMoves,
      GatewayCharges, GatewaySettles, GatewayDenies, vars, dbVars, orderVars
<1>5. QED
  BY <1>1, <1>2, <1>3, <1>4 DEF Next

(* A closed order and a closed escrow stay closed, in every step.           *)
THEOREM ClosedStaysClosed == Spec => ClosedOrderStaysClosed
<1>1. IInv /\ [Next]_vars => [Stays]_vars
  BY StepStays
<1>2. QED
  BY <1>1, Invariance, PTL DEF Spec, ClosedOrderStaysClosed, Stays

================================================================================
