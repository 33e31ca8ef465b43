--------------------------- MODULE OrderRefunds_proofs ---------------------------
(***************************************************************************)
(* Proofs about the refunds of OrderSettlement, upon its invariant.         *)
(*                                                                         *)
(* That the ledger's debt to the buyer mirrors what the gateway gave back   *)
(* holds for every value of the constants.  The other three theorems name   *)
(* what they need: one success notification (a second one lets REC-6 refund *)
(* a finished order); for one refund in flight a shipping fee (without it   *)
(* the ban handler can refund an order over a refund not yet settled); and  *)
(* for the double payout no lost responses (a request whose transaction is  *)
(* gone is in nobody's way at a release).                                   *)
(***************************************************************************)
EXTENDS OrderSettlement_proofs

--------------------------------------------------------------------------------
(* Rows and requests that fit each other. *)

OwnKeys == {OverdueKey, ManualKey, DisputeRefundKey, SplitKey}

(* A row nobody decided for the buyer was never sent.  A row that was sent  *)
(* has the key of the way it took, and its shipping part is recorded as     *)
(* that way records it; an admin's is derived when the refund succeeds.     *)
RowFits(r, row) ==
  /\ ~OwesBuyerRefund(row) =>
       /\ row.key = NoKey /\ row.shipping = Unrecorded
       /\ row.gateway = "unsubmitted" /\ row.policy # "rec6"
  /\ OwesBuyerRefund(row) /\ row.policy # "rec6" =>
       \/ row.key \in OwnKeys /\ row.shipping = 0
       \/ /\ row.key = SellerKey(r)
          /\ row.shipping = IF row.policy = "product" THEN 0 ELSE S
       \/ /\ row.key = <<"admin", r>>
          /\ row.gateway # "succeeded" => row.shipping = Unrecorded

RowsFit == \A r \in Rows : RowFits(r, refunds[r])

(* What is asked of the gateway under a key follows from the key.           *)
AmountFits(k, amount) ==
  /\ k \in OwnKeys => amount = PD - K
  /\ \A r \in Rows : k = SellerKey(r) =>
       r <= opened /\ amount = PD + ApprovedShipping(r)

RequestsFit ==
  \A k \in Keys : gateway[k].state # "none" => AmountFits(k, gateway[k].amount)

MirrorInv == RowsFit /\ RequestsFit /\ LedgerMirrorsGateway

--------------------------------------------------------------------------------
(* What a step other than a confirmation does to the rows and the requests. *)

RowChange ==
  \/ UNCHANGED refundVars
  \/ \E row \in Row : /\ AddRow(row)
                      /\ RowFits(opened + 1, row) /\ row.gateway # "succeeded"
  \/ \E r \in Rows, row \in Row :
       /\ refunds' = [refunds EXCEPT ![r] = row] /\ opened' = opened
       /\ RowFits(r, row) /\ row.policy = refunds[r].policy
       /\ \/ row.policy = "rec6"
          \/ row.gateway # "succeeded" /\ refunds[r].gateway # "succeeded"

RequestChange ==
  \/ UNCHANGED gateway
  \/ \E k \in Keys, amount \in Nat :
       /\ gateway[k].state \in {"none", "denied"} /\ AmountFits(k, amount)
       /\ gateway' = [gateway EXCEPT ![k] =
                        [state |-> "accepted", amount |-> amount]]
  \/ \E k \in Keys, s \in {"settled", "denied", "dropped"} :
       /\ gateway[k].state # "none"
       /\ gateway[k].state = "settled" => \A r \in Rows : refunds[r].key # k
       /\ gateway' = [gateway EXCEPT ![k].state = s]

LEMMA KeysDiffer ==
  /\ OwnKeys \subseteq Keys /\ NoKey \notin OwnKeys
  /\ \A r \in Rows :
       /\ SellerKey(r) \in Keys /\ <<"admin", r>> \in Keys
       /\ SellerKey(r) \notin OwnKeys /\ <<"admin", r>> \notin OwnKeys
       /\ SellerKey(r) # NoKey /\ <<"admin", r>> # NoKey
       /\ \A q \in Rows : <<"admin", r>> # SellerKey(q)
       /\ \A q \in Rows : SellerKey(r) = SellerKey(q) => r = q
BY DEF OwnKeys, OverdueKey, ManualKey, DisputeRefundKey, SplitKey, SystemKeys, Keys,
       SellerKey, NoKey, Rows

LEMMA AcceptIsRequestChange ==
  ASSUME NEW k \in Keys, NEW ref, NEW amount \in Nat, AmountFits(k, amount),
         GatewayAccepts(k, ref, amount)
  PROVE  RequestChange
BY DEF GatewayAccepts, RequestChange, gatewayVars

(* An acknowledged row was sent to the gateway, under a key it knows.       *)
LEMMA SucceededWasSent ==
  ASSUME MirrorInv, NEW r \in Rows, refunds[r].gateway = "succeeded",
         refunds[r].policy # "rec6"
  PROVE  refunds[r].key \in Keys /\ OwesBuyerRefund(refunds[r])
BY KeysDiffer DEF MirrorInv, RowsFit, RowFits

(* The policy of a row never changes, so what was asked for still fits.     *)
LEMMA FittingRequestsStay ==
  ASSUME IInv, RowChange, NEW k, NEW amount, AmountFits(k, amount)
  PROVE  AmountFits(k, amount)'
<1>1. opened' >= opened /\ opened \in Nat /\ opened' \in Nat
      /\ \A r \in Rows : r <= opened => refunds'[r].policy = refunds[r].policy
  <2>1. CASE UNCHANGED refundVars
    BY <2>1 DEF IInv, TypeOK, refundVars
  <2>2. CASE \E row \in Row : AddRow(row)
    <3>1. PICK row \in Row : AddRow(row)
      BY <2>2
    <3>2. /\ opened' = opened + 1 /\ opened + 1 \in Rows
          /\ refunds' = [refunds EXCEPT ![opened + 1] = row]
      BY <3>1, AddRowAppends DEF IInv
    <3>3. QED
      BY <3>2 DEF IInv, TypeOK, Rows
  <2>3. CASE \E r \in Rows, row \in Row :
               /\ refunds' = [refunds EXCEPT ![r] = row] /\ opened' = opened
               /\ row.policy = refunds[r].policy
    BY <2>3 DEF IInv, TypeOK
  <2>4. QED
    BY <2>1, <2>2, <2>3 DEF RowChange
<1>2. ASSUME NEW r \in Rows, k = SellerKey(r)
      PROVE  r <= opened' /\ amount = PD + ApprovedShipping(r)'
  BY <1>1, <1>2 DEF AmountFits, ApprovedShipping, Rows
<1>3. QED
  BY <1>2 DEF AmountFits, SellerKey

LEMMA ChangesKeepMirror ==
  ASSUME IInv, MirrorInv, RowChange, RequestChange, toBuyer' = toBuyer
  PROVE  MirrorInv'
<1> DEFINE Acked(r) == refunds[r].gateway = "succeeded" /\ refunds[r].policy # "rec6"
<1>1. /\ RowsFit'
      /\ \A r \in Rows : /\ Acked(r)' <=> Acked(r)
                         /\ Acked(r) => refunds'[r].key = refunds[r].key
  <2>1. CASE UNCHANGED refundVars
    BY <2>1 DEF MirrorInv, RowsFit, RowFits, OwesBuyerRefund, refundVars
  <2>2. CASE \E row \in Row : /\ AddRow(row) /\ RowFits(opened + 1, row)
                              /\ row.gateway # "succeeded"
    <3>1. PICK row \in Row : /\ AddRow(row) /\ RowFits(opened + 1, row)
                             /\ row.gateway # "succeeded"
      BY <2>2
    <3>2. /\ opened + 1 \in Rows /\ refunds' = [refunds EXCEPT ![opened + 1] = row]
          /\ refunds[opened + 1] = NoRow
      BY <3>1, AddRowAppends DEF IInv, TypeOK, RowsAreAppended
    <3>3. QED
      BY <3>1, <3>2
      DEF IInv, TypeOK, MirrorInv, RowsFit, RowFits, OwesBuyerRefund, SellerKey, NoRow
  <2>3. CASE \E r \in Rows, row \in Row :
               /\ refunds' = [refunds EXCEPT ![r] = row] /\ RowFits(r, row)
               /\ row.policy = refunds[r].policy
               /\ \/ row.policy = "rec6"
                  \/ row.gateway # "succeeded" /\ refunds[r].gateway # "succeeded"
    BY <2>3 DEF IInv, TypeOK, MirrorInv, RowsFit, RowFits, OwesBuyerRefund, SellerKey
  <2>4. QED
    BY <2>1, <2>2, <2>3 DEF RowChange
<1>2. \A r \in Rows : Acked(r) => refunds[r].key \in Keys
  BY SucceededWasSent
<1>3. ASSUME NEW r \in Rows, Acked(r)
      PROVE  gateway'[refunds[r].key] = gateway[refunds[r].key]
  <2>1. refunds[r].key \in Keys /\ gateway[refunds[r].key].state = "settled"
    BY <1>2, <1>3 DEF MirrorInv, LedgerMirrorsGateway
  <2>2. QED
    BY <2>1 DEF IInv, TypeOK, RequestChange
<1>4. RequestsFit'
  <2>1. ASSUME NEW k \in Keys, gateway'[k].state # "none"
        PROVE  AmountFits(k, gateway'[k].amount)
    BY <2>1 DEF IInv, TypeOK, Request, MirrorInv, RequestsFit, RequestChange
  <2>2. QED
    BY <2>1, FittingRequestsStay DEF RequestsFit
<1>5. LedgerMirrorsGateway'
  BY <1>1, <1>3 DEF MirrorInv, LedgerMirrorsGateway
<1>6. QED
  BY <1>1, <1>4, <1>5 DEF MirrorInv

--------------------------------------------------------------------------------
(* Every step changes rows and requests in those ways, or confirms a refund. *)

Change == RowChange /\ RequestChange /\ toBuyer' = toBuyer

LEMMA InitMirrors == Init => MirrorInv
BY KeysDiffer
DEF Init, MirrorInv, RowsFit, RowFits, RequestsFit, LedgerMirrorsGateway, NoRow,
    OwesBuyerRefund

LEMMA OwnAmountFits ==
  ASSUME NEW k \in OwnKeys, NEW amount, amount - K = PD - K
  PROVE  AmountFits(k, amount - K)
BY KeysDiffer DEF AmountFits

LEMMA SystemRowFits ==
  ASSUME NEW r \in Rows, NEW k \in OwnKeys, NEW amount
  PROVE  /\ SystemRow(k, amount) \in Row /\ RowFits(r, SystemRow(k, amount))
         /\ SystemRow(k, amount).gateway # "succeeded"
BY KeysDiffer DEF SystemRow, RowFits, OwesBuyerRefund, Row, Decisions, Policies

(* The system refunds itself no more than the product: only an order        *)
(* without a shipping fee is refunded as a whole.                           *)
LEMMA SystemRefundIsProduct ==
  /\ SystemRefundFits(Total) => Total = PD
  /\ SystemRefundFits(PD) => PD = PD
BY AmountsAssumption DEF SystemRefundFits, Total

LEMMA DirectRefundChanges ==
  ASSUME IInv, MirrorInv, NEW k \in OwnKeys, NEW amount \in {Total, PD},
         SystemRefundFits(amount), GatewayAccepts(k, OrderRef, amount - K)
  PROVE  RequestChange
<1>1. amount - K = PD - K /\ amount - K \in Nat
  BY AmountsAreNaturals, SystemRefundIsProduct
<1>2. AmountFits(k, amount - K) /\ k \in Keys
  BY <1>1, OwnAmountFits, KeysDiffer
<1>3. QED
  BY <1>1, <1>2, AcceptIsRequestChange

LEMMA AppendSystemRow ==
  ASSUME IInv, NEW k \in OwnKeys, NEW amount, AddRow(SystemRow(k, amount))
  PROVE  RowChange
<1> DEFINE row == SystemRow(k, amount)
<1>1. opened + 1 \in Rows
  BY GatewayAssumption DEF IInv, TypeOK, AddRow, Rows
<1>2. row \in Row /\ RowFits(opened + 1, row) /\ row.gateway # "succeeded"
  BY <1>1, SystemRowFits
<1> HIDE DEF row
<1>3. AddRow(row)
  BY DEF row
<1>4. QED
  BY <1>2, <1>3 DEF RowChange

(* A row that is not decided for the buyer was never sent. *)
LEMMA UndecidedRow ==
  ASSUME IInv, MirrorInv, NEW r \in Rows, ~OwesBuyerRefund(refunds[r])
  PROVE  /\ refunds[r] \in Row /\ refunds[r].policy # "rec6"
         /\ refunds[r].gateway = "unsubmitted" /\ refunds[r].key = NoKey
         /\ refunds[r].shipping = Unrecorded
BY DEF IInv, TypeOK, MirrorInv, RowsFit, RowFits

LEMMA UnsentStepsChange ==
  ASSUME IInv, MirrorInv,
         \/ PaymentNext \/ MarkShipped \/ Complete \/ FindUnshippedOfBannedUser
         \/ OpenDispute \/ CreateRefund
         \/ \E r \in Rows : RejectRefund(r) \/ EscalateRefund(r)
  PROVE  Change
<1> USE DEF dbVars, orderVars, paymentVars, refundVars, ledgerVars, clockVars,
            gatewayVars
<1>1. CASE PaymentNext
  <2>1. ASSUME NEW n \in Notices, RefundCaptureOfInvalidOrder(n) PROVE Change
    <3> DEFINE row == [status |-> "system_refunded", gateway |-> "unsubmitted",
                       key |-> Rec6Key, policy |-> "rec6", shipping |-> 0]
    <3>1. row \in Row /\ RowFits(opened + 1, row) /\ row.gateway # "succeeded"
      BY DEF Row, Rec6Key, Keys, SystemKeys, Decisions, Policies, RowFits,
             OwesBuyerRefund
    <3>2. UNCHANGED refundVars \/ AddRow(row)
      BY <2>1 DEF RefundCaptureOfInvalidOrder
    <3> HIDE DEF row
    <3>3. QED
      BY <2>1, <3>1, <3>2
      DEF RefundCaptureOfInvalidOrder, Change, RowChange, RequestChange
  <2>2. QED
    BY <1>1, <2>1
    DEF PaymentNext, PaymentSucceededNotice, FinalizeOrderPayment, CheckPayable,
        CreatePayment, IgnoreCapture, PaymentFailedNotice, ExpirePayment,
        ExpireOrphanOrder, Cancel, Change, RowChange, RequestChange
<1>2. CASE MarkShipped \/ Complete \/ FindUnshippedOfBannedUser \/ OpenDispute
  BY <1>2
  DEF MarkShipped, Complete, ReleaseEscrowToSeller, FindUnshippedOfBannedUser,
      OpenDispute, Change, RowChange, RequestChange
<1>3. CASE CreateRefund
  <2>1. PICK p \in BuyerPolicies :
          AddRow([NoRow EXCEPT !.status = "pending_seller_review", !.policy = p])
    BY <1>3 DEF CreateRefund
  <2> DEFINE row == [NoRow EXCEPT !.status = "pending_seller_review", !.policy = p]
  <2>2. row \in Row /\ RowFits(opened + 1, row) /\ row.gateway # "succeeded"
    BY NoRowIsRow
    DEF Row, NoRow, Decisions, Policies, BuyerPolicies, RowFits, OwesBuyerRefund
  <2> HIDE DEF row
  <2>3. QED
    BY <1>3, <2>1, <2>2 DEF CreateRefund, Change, RowChange, RequestChange, row
<1>4. ASSUME NEW r \in Rows, RejectRefund(r) \/ EscalateRefund(r) PROVE Change
  <2>1. PICK s \in {"seller_rejected", "escalated_to_admin"} :
          /\ refunds' = [refunds EXCEPT ![r].status = s] /\ opened' = opened
          /\ ~OwesBuyerRefund(refunds[r])
    BY <1>4 DEF RejectRefund, EscalateRefund, OwesBuyerRefund
  <2> DEFINE row == [refunds[r] EXCEPT !.status = s]
  <2>2. /\ row \in Row /\ RowFits(r, row) /\ row.policy = refunds[r].policy
        /\ row.gateway # "succeeded" /\ refunds[r].gateway # "succeeded"
    BY <2>1, UndecidedRow DEF Row, Decisions, RowFits, OwesBuyerRefund
  <2>3. refunds' = [refunds EXCEPT ![r] = row]
    BY <2>1 DEF IInv, TypeOK
  <2>4. UNCHANGED gateway /\ toBuyer' = toBuyer
    BY <1>4 DEF RejectRefund, EscalateRefund
  <2> HIDE DEF row
  <2>5. RowChange
    BY <2>1, <2>2, <2>3 DEF RowChange
  <2>6. QED
    BY <2>4, <2>5 DEF Change, RequestChange
<1>5. QED
  BY <1>1, <1>2, <1>3, <1>4

LEMMA SystemRefundChanges ==
  ASSUME IInv, MirrorInv, CancelOverdue \/ RefundOrder
  PROVE  Change
<1>1. PICK k \in OwnKeys :
        GatewayAccepts(k, OrderRef, Total - K) /\ AddRow(SystemRow(k, Total))
  BY DEF CancelOverdue, RefundOrder, OwnKeys
<1>2. SystemRefundFits(Total) /\ toBuyer' = toBuyer
  BY DEF CancelOverdue, MayCancelOverdue, RefundOrder, MayRefundForBan, ledgerVars
<1>3. QED
  BY <1>1, <1>2, DirectRefundChanges, AppendSystemRow DEF Change

LEMMA ApproveRefundChanges ==
  ASSUME IInv, MirrorInv, NEW r \in Rows, ApproveRefund(r)
  PROVE  Change
<1> DEFINE row == [refunds[r] EXCEPT !.status = "seller_approved",
                                     !.gateway = "pending", !.key = SellerKey(r),
                                     !.shipping = ApprovedShipping(r)]
<1>1. /\ refunds' = [refunds EXCEPT ![r] = row] /\ opened' = opened
      /\ toBuyer' = toBuyer
  BY DEF ApproveRefund, ledgerVars
<1>2. /\ row \in Row /\ RowFits(r, row) /\ row.policy = refunds[r].policy
      /\ row.gateway # "succeeded" /\ refunds[r].gateway # "succeeded"
  <2>1. ApprovedShipping(r) \in Nat /\ SellerKey(r) \in Keys
    BY AmountsAssumption, KeysDiffer DEF ApprovedShipping
  <2>2. ~OwesBuyerRefund(refunds[r])
    BY DEF ApproveRefund, MayApprove, OwesBuyerRefund
  <2>3. /\ row \in Row /\ row.policy = refunds[r].policy /\ row.policy # "rec6"
        /\ row.status = "seller_approved" /\ row.gateway = "pending"
        /\ row.key = SellerKey(r) /\ row.shipping = ApprovedShipping(r)
        /\ refunds[r].gateway = "unsubmitted"
    BY <2>1, <2>2, UndecidedRow DEF Row, Decisions
  <2> HIDE DEF row
  <2>4. QED
    BY <2>3 DEF RowFits, OwesBuyerRefund, ApprovedShipping
<1> HIDE DEF row
<1>3. r <= opened
  BY RowExists DEF IInv, ApproveRefund, MayApprove
<1>4. RequestChange
  <2>1. AmountFits(SellerKey(r), PD + ApprovedShipping(r))
    BY <1>3, KeysDiffer DEF AmountFits
  <2>2. QED
    BY <2>1, AcceptIsRequestChange, KeysDiffer, AmountsAreNaturals DEF ApproveRefund
<1>5. QED
  BY <1>1, <1>2, <1>4 DEF Change, RowChange

LEMMA AdminAmountFits ==
  ASSUME NEW r \in Rows, NEW amount PROVE AmountFits(<<"admin", r>>, amount)
BY KeysDiffer DEF AmountFits

LEMMA DecideForBuyerChanges ==
  ASSUME IInv, MirrorInv, NEW amount \in {Total, PD}, NEW k \in OwnKeys,
         DecideForBuyer(amount, k)
  PROVE  RowChange /\ RequestChange
<1>1. CASE /\ MayDecideEscalated
           /\ GatewayAccepts(AdminKey, OrderRef, amount)
           /\ refunds' = [refunds EXCEPT ![opened] =
                [@ EXCEPT !.status = "admin_refunded", !.gateway = "pending",
                          !.key = AdminKey]]
           /\ UNCHANGED opened
  <2> DEFINE row == [refunds[opened] EXCEPT !.status = "admin_refunded",
                                            !.gateway = "pending", !.key = AdminKey]
  <2>1. opened \in Rows
    BY <1>1, LatestExists DEF IInv, MayDecideEscalated
  <2>2. AdminKey \in Keys /\ AdminKey = <<"admin", opened>>
    BY <2>1, KeysDiffer DEF AdminKey
  <2>3. ~OwesBuyerRefund(refunds[opened])
    BY <1>1 DEF MayDecideEscalated, Latest, OwesBuyerRefund
  <2>4. /\ row \in Row /\ RowFits(opened, row) /\ row.policy = refunds[opened].policy
        /\ row.gateway # "succeeded" /\ refunds[opened].gateway # "succeeded"
    <3>1. /\ row \in Row /\ row.policy = refunds[opened].policy /\ row.policy # "rec6"
          /\ row.status = "admin_refunded" /\ row.gateway = "pending"
          /\ row.key = <<"admin", opened>> /\ row.shipping = Unrecorded
          /\ refunds[opened].gateway = "unsubmitted"
      BY <2>1, <2>2, <2>3, UndecidedRow DEF Row, Decisions
    <3> HIDE DEF row
    <3>2. QED
      BY <3>1 DEF RowFits, OwesBuyerRefund
  <2>5. refunds' = [refunds EXCEPT ![opened] = row] /\ opened' = opened
    BY <1>1
  <2> HIDE DEF row
  <2>6. RequestChange
    BY <1>1, <2>1, <2>2, AdminAmountFits, AcceptIsRequestChange, AmountsAreNaturals
  <2>7. QED
    BY <2>1, <2>4, <2>5, <2>6 DEF RowChange
<1>2. CASE MayKeepDecision /\ UNCHANGED <<refundVars, gatewayVars>>
  BY <1>2 DEF RowChange, RequestChange, gatewayVars
<1>3. CASE /\ MayRefundDirectly(amount)
           /\ GatewayAccepts(k, OrderRef, amount - K)
           /\ AddRow(SystemRow(k, amount))
  BY <1>3, DirectRefundChanges, AppendSystemRow DEF MayRefundDirectly
<1>4. QED
  BY <1>1, <1>2, <1>3 DEF DecideForBuyer

LEMMA ResolveChanges ==
  ASSUME IInv, MirrorInv, ResolveRefund \/ ResolvePartialSplit \/ ResolveRelease
  PROVE  Change
<1>1. CASE ResolveRefund \/ ResolvePartialSplit
  BY <1>1, DecideForBuyerChanges
  DEF ResolveRefund, ResolvePartialSplit, OwnKeys, Change, ledgerVars
<1>2. CASE ResolveRelease
  <2>1. toBuyer' = toBuyer /\ UNCHANGED gateway
    BY <1>2 DEF ResolveRelease, ReleaseEscrowToSeller, gatewayVars
  <2>2. CASE UNCHANGED refundVars
    BY <2>1, <2>2 DEF Change, RowChange, RequestChange
  <2>3. CASE /\ opened > 0 /\ Latest.status = "escalated_to_admin"
             /\ refunds' = [refunds EXCEPT ![opened].status = "admin_released"]
             /\ UNCHANGED opened
    <3> DEFINE row == [refunds[opened] EXCEPT !.status = "admin_released"]
    <3>1. opened \in Rows /\ ~OwesBuyerRefund(refunds[opened])
      BY <2>3, LatestExists DEF IInv, Latest, OwesBuyerRefund
    <3>2. /\ row \in Row /\ RowFits(opened, row) /\ row.policy = refunds[opened].policy
          /\ row.gateway # "succeeded" /\ refunds[opened].gateway # "succeeded"
      BY <3>1
      DEF IInv, TypeOK, Row, Decisions, MirrorInv, RowsFit, RowFits, OwesBuyerRefund
    <3>3. refunds' = [refunds EXCEPT ![opened] = row] /\ opened' = opened
      BY <2>3, <3>1 DEF IInv, TypeOK
    <3> HIDE DEF row
    <3>4. QED
      BY <2>1, <3>1, <3>2, <3>3 DEF Change, RowChange, RequestChange
  <2>4. QED
    BY <1>2, <2>2, <2>3 DEF ResolveRelease
<1>3. QED
  BY <1>1, <1>2

(* A failed refund, and the rows of REC-6. *)
LEMMA RowOnlyChanges ==
  ASSUME IInv, MirrorInv, NEW r \in Rows,
         RefundAckFailed(r) \/ Rec6AckSucceeded(r) \/ Rec6Dispatch(r)
  PROVE  Change
<1>1. PICK g \in {"pending", "succeeded", "failed"} :
        /\ refunds' = [refunds EXCEPT ![r].gateway = g] /\ opened' = opened
        /\ toBuyer' = toBuyer
        /\ \/ refunds[r].policy = "rec6"
           \/ g # "succeeded" /\ refunds[r].key # NoKey
        /\ refunds[r].gateway # "succeeded"
  BY DEF RefundAckFailed, Rec6AckSucceeded, Rec6Dispatch, Rec6Answered,
         Rec6Unanswered, MovesMoney, ledgerVars
<1> DEFINE row == [refunds[r] EXCEPT !.gateway = g]
<1>2. /\ row \in Row /\ RowFits(r, row) /\ row.policy = refunds[r].policy
      /\ row.policy = "rec6" \/ row.gateway # "succeeded"
  BY <1>1
  DEF IInv, TypeOK, Row, MirrorInv, RowsFit, RowFits, OwesBuyerRefund
<1>3. refunds' = [refunds EXCEPT ![r] = row]
  BY <1>1 DEF IInv, TypeOK
<1>4. RequestChange
  <2>1. Rec6Key \in Keys /\ AmountFits(Rec6Key, Gross) /\ Gross \in Nat
    BY AmountsAssumption
    DEF Rec6Key, Keys, SystemKeys, AmountFits, OwnKeys, OverdueKey, ManualKey,
        DisputeRefundKey, SplitKey, SellerKey, Gross
  <2>2. CASE UNCHANGED gatewayVars
    BY <2>2 DEF RequestChange, gatewayVars
  <2>3. CASE GatewayAccepts(Rec6Key, ChargeRef, Gross)
    BY <2>1, <2>3, AcceptIsRequestChange
  <2>4. QED
    BY <2>2, <2>3 DEF RefundAckFailed, Rec6AckSucceeded, Rec6Dispatch,
                      Rec6Answered, Rec6Unanswered
<1> HIDE DEF row
<1>5. QED
  BY <1>1, <1>2, <1>3, <1>4 DEF Change, RowChange

LEMMA EnvironmentChanges ==
  ASSUME IInv, MirrorInv,
         \/ EnvironmentNext \/ UNCHANGED vars
         \/ \E k \in Keys : NotificationDropped(k)
  PROVE  Change
<1>1. UNCHANGED dbVars
  BY DEF EnvironmentNext, PaymentDeadlinePasses, GracePeriodEnds, WindowMoves,
         GatewayCharges, GatewaySettles, GatewayDenies, NotificationDropped, vars
<1>2. RequestChange
  BY DEF EnvironmentNext, PaymentDeadlinePasses, GracePeriodEnds, WindowMoves,
         GatewayCharges, GatewaySettles, GatewayDenies, NotificationDropped, vars,
         gatewayVars, RequestChange
<1>3. QED
  BY <1>1, <1>2 DEF Change, RowChange, dbVars, ledgerVars

LEMMA RefundResponseLostChanges ==
  ASSUME IInv, MirrorInv, RefundResponseLost
  PROVE  Change
<1>1. UNCHANGED dbVars
  BY DEF RefundResponseLost
<1>2. RequestChange
  <2>1. CASE \/ MayCancelOverdue /\ GatewayAccepts(OverdueKey, OrderRef, Total - K)
             \/ MayRefundForBan /\ GatewayAccepts(ManualKey, OrderRef, Total - K)
             \/ /\ MayRefundDirectly(Total)
                /\ GatewayAccepts(DisputeRefundKey, OrderRef, Total - K)
             \/ /\ MayRefundDirectly(PD)
                /\ GatewayAccepts(SplitKey, OrderRef, PD - K)
    <3>1. PICK k \in OwnKeys, amount \in {Total, PD} :
            SystemRefundFits(amount) /\ GatewayAccepts(k, OrderRef, amount - K)
      BY <2>1 DEF MayCancelOverdue, MayRefundForBan, MayRefundDirectly, OwnKeys
    <3>2. QED
      BY <3>1, DirectRefundChanges
  <2>2. CASE \E r \in Rows :
               /\ MayApprove(r)
               /\ GatewayAccepts(SellerKey(r), OrderRef, PD + ApprovedShipping(r))
    <3>1. PICK r \in Rows :
            /\ MayApprove(r)
            /\ GatewayAccepts(SellerKey(r), OrderRef, PD + ApprovedShipping(r))
      BY <2>2
    <3>2. r <= opened
      BY <3>1, RowExists DEF IInv, MayApprove
    <3>3. AmountFits(SellerKey(r), PD + ApprovedShipping(r))
      BY <3>2, KeysDiffer DEF AmountFits
    <3>4. QED
      BY <3>1, <3>3, AcceptIsRequestChange, KeysDiffer, AmountsAreNaturals
  <2>3. CASE /\ MayDecideEscalated
             /\ \E amount \in {Total, PD} : GatewayAccepts(AdminKey, OrderRef, amount)
    <3>1. opened \in Rows
      BY <2>3, LatestExists DEF IInv, MayDecideEscalated
    <3>2. QED
      BY <2>3, <3>1, AdminAmountFits, AcceptIsRequestChange, KeysDiffer,
         AmountsAreNaturals
      DEF AdminKey
  <2>4. QED
    BY <2>1, <2>2, <2>3 DEF RefundResponseLost
<1>3. QED
  BY <1>1, <1>2 DEF Change, RowChange, dbVars, ledgerVars

--------------------------------------------------------------------------------
(* A confirmation posts what the gateway settled. *)

(* The first confirmed refund of an order without coins posts exactly the   *)
(* amount of the settled request.                                           *)
LEMMA PostedIsSettled ==
  ASSUME IInv, MirrorInv, NEW r \in Rows, RefundAckSucceeded(r)
  PROVE  /\ toBuyer' = PD + Rs(r) /\ Rs(r) \in Nat /\ refunds[r].key \in Keys
         /\ gateway[refunds[r].key] = [state |-> "settled", amount |-> PD + Rs(r)]
         /\ RowFits(r, SucceededRow(r))
<1>1. toBuyer = 0 /\ Rs(r) \in 0..S /\ K = 0
  BY LedgerBeforeSuccess, ShippingOfSettled DEF RefundAckSucceeded, LedgerAcceptsReversal
<1>2. toBuyer' = PD + Rs(r) /\ Rs(r) \in Nat
  BY <1>1, AmountsAssumption
  DEF RefundAckSucceeded, ReverseAfterFlip, ReverseInFull, ReverseInPart, ReverseTo
<1>3. /\ RowFits(r, refunds[r]) /\ OwesBuyerRefund(refunds[r])
      /\ refunds[r].policy # "rec6" /\ refunds[r].key \in Keys
      /\ refunds[r].gateway # "succeeded"
      /\ gateway[refunds[r].key].state = "settled"
  BY KeysDiffer
  DEF MirrorInv, RowsFit, RowFits, RefundAckSucceeded, MovesMoney
<1>4. /\ gateway[refunds[r].key] \in Request
      /\ AmountFits(refunds[r].key, gateway[refunds[r].key].amount)
  BY <1>3 DEF IInv, TypeOK, MirrorInv, RequestsFit
<1>5. gateway[refunds[r].key].amount = PD + Rs(r)
  BY <1>1, <1>3, <1>4, AmountsAssumption, KeysDiffer
  DEF RowFits, AmountFits, Rs, Request, ApprovedShipping, Unrecorded
<1>6. RowFits(r, SucceededRow(r))
  BY <1>1, <1>3, AmountsAssumption, KeysDiffer
  DEF IInv, TypeOK, Row, RowFits, SucceededRow, OwesBuyerRefund, Rs, Unrecorded,
      SellerKey
<1>7. QED
  BY <1>2, <1>3, <1>4, <1>5, <1>6 DEF Request

LEMMA RefundAckSucceededMirrors ==
  ASSUME IInv, MirrorInv, NEW r \in Rows, RefundAckSucceeded(r)
  PROVE  MirrorInv'
<1> DEFINE row == SucceededRow(r)
<1>1. /\ refunds' = [refunds EXCEPT ![r] = row] /\ UNCHANGED <<opened, gateway>>
      /\ \A o \in Rows \ {r} : refunds[o].gateway # "succeeded"
      /\ refunds[r].policy # "rec6"
  BY DEF RefundAckSucceeded, BreakdownFits, MovesMoney, gatewayVars
<1>2. /\ row.gateway = "succeeded" /\ row.key = refunds[r].key
      /\ row.policy = refunds[r].policy
  BY DEF IInv, TypeOK, Row, SucceededRow
<1>3. /\ toBuyer' = PD + Rs(r) /\ Rs(r) \in Nat /\ refunds[r].key \in Keys
      /\ gateway[refunds[r].key] = [state |-> "settled", amount |-> PD + Rs(r)]
      /\ RowFits(r, row)
  BY PostedIsSettled
<1> HIDE DEF row
<1>4. RowsFit'
  BY <1>1, <1>3
  DEF IInv, TypeOK, MirrorInv, RowsFit, RowFits, OwesBuyerRefund, SellerKey
<1>5. RequestsFit'
  BY <1>1, <1>2
  DEF IInv, TypeOK, MirrorInv, RequestsFit, AmountFits, ApprovedShipping, SellerKey
<1>6. LedgerMirrorsGateway'
  <2>1. toBuyer' > 0
    BY <1>3, AmountsAssumption
  <2>2. \A o \in Rows :
          (refunds'[o].gateway = "succeeded" /\ refunds'[o].policy # "rec6") <=> o = r
    BY <1>1, <1>2 DEF IInv, TypeOK
  <2>3. gateway'[refunds'[r].key] = [state |-> "settled", amount |-> toBuyer']
    BY <1>1, <1>2, <1>3 DEF IInv, TypeOK
  <2>4. QED
    BY <2>1, <2>2, <2>3 DEF LedgerMirrorsGateway
<1>7. QED
  BY <1>4, <1>5, <1>6 DEF MirrorInv

LEMMA StepChanges ==
  ASSUME IInv, MirrorInv, [Next]_vars
  PROVE  Change \/ \E r \in Rows : RefundAckSucceeded(r)
<1>1. CASE PaymentNext
  BY <1>1, UnsentStepsChange
<1>2. CASE OrderNext
  BY <1>2, UnsentStepsChange, SystemRefundChanges, ResolveChanges DEF OrderNext
<1>3. CASE RefundNext
  BY <1>3, UnsentStepsChange, ApproveRefundChanges, RowOnlyChanges,
     RefundResponseLostChanges, EnvironmentChanges
  DEF RefundNext
<1>4. CASE EnvironmentNext \/ UNCHANGED vars
  BY <1>4, EnvironmentChanges
<1>5. QED
  BY <1>1, <1>2, <1>3, <1>4 DEF Next

LEMMA NextMirrors == IInv /\ MirrorInv /\ [Next]_vars => MirrorInv'
BY StepChanges, RefundAckSucceededMirrors, ChangesKeepMirror DEF Change

LEMMA MirrorInvariance == Spec => []MirrorInv
BY InitMirrors, NextMirrors, Invariance, PTL DEF Spec

(* What the ledger owes the buyer is what the gateway settled, for one      *)
(* refund and to its amount: with or without coins and shipping, lost       *)
(* responses, denials and any number of notifications.                      *)
THEOREM LedgerMirrors == Spec => []LedgerMirrorsGateway
<1>1. MirrorInv => LedgerMirrorsGateway
  BY DEF MirrorInv
<1>2. QED
  BY <1>1, MirrorInvariance, PTL

--------------------------------------------------------------------------------
(* One refund after the other. *)

OneNotice == \A m, n \in Notices : m = n

(* With one notification, an order that got its escrow has seen it, and one *)
(* that has not seen it yet has no refund.                                  *)
NoticeSpent ==
  /\ escrow # "none" => processed = Notices
  /\ escrow = "none" => opened <= 1 /\ (processed = {} => opened = 0)

(* While the escrow holds, only the newest refund is still to be decided or *)
(* settled.                                                                 *)
OnlyLatestIsOpen ==
  escrow = "holding" => \A r \in Rows : r < opened =>
    ~IsSettlementPending(refunds[r]) /\ ~AwaitsDecision(refunds[r])

OrderlyInv == NoticeSpent /\ OnlyLatestIsOpen /\ NoOwedRefundBehindRelease

LEMMA InitOrderly == Init => OrderlyInv
BY DEF Init, OrderlyInv, NoticeSpent, OnlyLatestIsOpen, NoOwedRefundBehindRelease

LEMMA NothingBeyondTheLatest ==
  ASSUME IInv, NEW r \in Rows, r > opened
  PROVE  ~IsSettlementPending(refunds[r]) /\ ~AwaitsDecision(refunds[r])
BY DEF IInv, RowsAreAppended, NoRow, IsSettlementPending, OwesBuyerRefund,
       AwaitsDecision

(* A step that opens no refund, gives the order no escrow, completes nothing *)
(* and takes back no notification.                                          *)
Calm ==
  /\ opened' = opened
  /\ \A r \in Rows :
       /\ IsSettlementPending(refunds'[r]) => IsSettlementPending(refunds[r])
       /\ AwaitsDecision(refunds'[r]) => AwaitsDecision(refunds[r])
  /\ escrow' = "holding" => escrow = "holding"
  /\ escrow' = "none" <=> escrow = "none"
  /\ status' = "completed" => status = "completed"
  /\ processed \subseteq processed' /\ processed' \subseteq Notices

LEMMA CalmKeepsOrder == ASSUME IInv, OrderlyInv, Calm PROVE OrderlyInv'
BY DEF IInv, TypeOK, OrderlyInv, NoticeSpent, OnlyLatestIsOpen,
       NoOwedRefundBehindRelease, Calm

LEMMA UnpaidStepsAreCalm ==
  ASSUME IInv,
         \/ CheckPayable \/ CreatePayment \/ PaymentFailedNotice
         \/ ExpirePayment \/ ExpireOrphanOrder \/ Cancel
         \/ \E n \in Notices : IgnoreCapture(n)
  PROVE  Calm
BY DEF IInv, TypeOK, CheckPayable, CreatePayment, PaymentFailedNotice,
       ExpirePayment, ExpireOrphanOrder, Cancel, IgnoreCapture, Calm, orderVars,
       paymentVars, refundVars

LEMMA SurroundingsAreCalm ==
  ASSUME IInv,
         \/ MarkShipped \/ FindUnshippedOfBannedUser \/ OpenDispute
         \/ RefundResponseLost \/ \E k \in Keys : NotificationDropped(k)
         \/ EnvironmentNext \/ UNCHANGED vars
  PROVE  Calm
<1>1. CASE MarkShipped \/ OpenDispute
  BY <1>1 DEF IInv, TypeOK, MarkShipped, OpenDispute, Calm, paymentVars, refundVars
<1>2. CASE UNCHANGED dbVars
  BY <1>2 DEF IInv, TypeOK, Calm, dbVars, orderVars, paymentVars, refundVars
<1>3. QED
  BY <1>1, <1>2
  DEF FindUnshippedOfBannedUser, RefundResponseLost, NotificationDropped, vars,
      EnvironmentNext, PaymentDeadlinePasses, GracePeriodEnds, WindowMoves,
      GatewayCharges, GatewaySettles, GatewayDenies

(* Rejecting and escalating leave a refund undecided; an acknowledgement    *)
(* settles it or leaves it owed; a round of REC-6 leaves it owed.           *)
LEMMA RowStepsAreCalm ==
  ASSUME IInv, NEW r \in Rows,
         \/ RejectRefund(r) \/ EscalateRefund(r) \/ RefundAckSucceeded(r)
         \/ RefundAckFailed(r) \/ Rec6AckSucceeded(r) \/ Rec6Dispatch(r)
  PROVE  Calm
<1> USE DEF IInv, TypeOK, IsSettlementPending, OwesBuyerRefund, AwaitsDecision,
            IsDecisionFinal, orderVars, paymentVars, refundVars, Calm
<1>1. CASE RejectRefund(r) \/ EscalateRefund(r)
  <2>1. PICK s \in {"seller_rejected", "escalated_to_admin"} :
          refunds' = [refunds EXCEPT ![r].status = s] /\ opened' = opened
    BY <1>1 DEF RejectRefund, EscalateRefund
  <2>2. AwaitsDecision(refunds[r])
    BY <1>1 DEF RejectRefund, EscalateRefund
  <2>3. escrow' = escrow /\ processed' = processed /\ (status' = status \/ status' = "dispute_open")
    BY <1>1 DEF RejectRefund, EscalateRefund
  <2>4. \A q \in Rows : /\ q # r => refunds'[q] = refunds[q]
                        /\ refunds'[r].status = s
    BY <2>1 DEF Row
  <2>5. QED
    BY <2>1, <2>2, <2>3, <2>4
<1>2. CASE RefundAckSucceeded(r)
  <2>1. /\ refunds' = [refunds EXCEPT ![r] = SucceededRow(r)] /\ opened' = opened
        /\ escrow # "none" /\ escrow' \notin {"none", "holding"}
        /\ status' = status \/ status' # "completed"
        /\ processed' = processed
    BY <1>2 DEF RefundAckSucceeded, ReverseAfterFlip, ReverseInFull, ReverseInPart
  <2>2. SucceededRow(r).gateway = "succeeded" /\ SucceededRow(r).status = refunds[r].status
    BY DEF Row, SucceededRow
  <2>3. QED
    BY <2>1, <2>2
<1>3. CASE RefundAckFailed(r) \/ Rec6AckSucceeded(r) \/ Rec6Dispatch(r)
  <2>1. PICK g \in {"pending", "succeeded", "failed"} :
          refunds' = [refunds EXCEPT ![r].gateway = g] /\ opened' = opened
    BY <1>3 DEF RefundAckFailed, Rec6AckSucceeded, Rec6Dispatch, Rec6Answered,
                Rec6Unanswered
  <2>2. refunds[r].gateway # "succeeded"
    BY <1>3 DEF RefundAckFailed, Rec6AckSucceeded, Rec6Dispatch, Rec6Answered,
                Rec6Unanswered
  <2>3. UNCHANGED <<status, escrow, processed>>
    BY <1>3 DEF RefundAckFailed, Rec6AckSucceeded, Rec6Dispatch, Rec6Answered,
                Rec6Unanswered
  <2>4. QED
    BY <2>1, <2>2, <2>3
<1>4. QED
  BY <1>1, <1>2, <1>3

(* The one notification finalizes the payment or records a refund.          *)
LEMMA NoticeKeepsOrder ==
  ASSUME OneNotice, IInv, OrderlyInv, IInv', NEW n \in Notices,
         FinalizeOrderPayment(n) \/ RefundCaptureOfInvalidOrder(n)
  PROVE  OrderlyInv'
<1>1. n \in Notices \ processed /\ processed' = processed \cup {n}
  BY DEF FinalizeOrderPayment, RefundCaptureOfInvalidOrder
<1>2. processed = {} /\ processed' = Notices
  BY <1>1 DEF IInv, TypeOK, OneNotice
<1>3. escrow = "none" /\ opened = 0
  BY <1>1, <1>2 DEF OrderlyInv, NoticeSpent
<1>4. status' # "completed"
  BY <1>3
  DEF FinalizeOrderPayment, RefundCaptureOfInvalidOrder, orderVars, IInv,
      EscrowMatchesOrder
<1>5. NoOwedRefundBehindRelease'
  BY <1>4 DEF NoOwedRefundBehindRelease
<1>6. CASE FinalizeOrderPayment(n)
  <2>1. escrow' = "holding" /\ opened' = opened
    BY <1>6 DEF FinalizeOrderPayment, refundVars
  <2>2. QED
    BY <1>2, <1>3, <1>5, <2>1
    DEF OrderlyInv, NoticeSpent, OnlyLatestIsOpen, Rows
<1>7. CASE RefundCaptureOfInvalidOrder(n)
  <2>1. escrow' = "none" /\ opened' \in {0, 1}
    BY <1>3, <1>7 DEF RefundCaptureOfInvalidOrder, refundVars, AddRow
  <2>2. QED
    BY <1>1, <1>5, <2>1 DEF OrderlyInv, NoticeSpent, OnlyLatestIsOpen
<1>8. QED
  BY <1>6, <1>7

(* A release: none of the rows is owed, by HasRefundBlockingRelease or by   *)
(* the decision of the newest row.                                          *)
LEMMA ReleaseKeepsOrder ==
  ASSUME IInv, OrderlyInv, IInv', Complete \/ ResolveRelease
  PROVE  OrderlyInv'
<1>1. /\ escrow = "holding" /\ escrow' = "released"
      /\ processed' = processed /\ processed = Notices
  BY DEF Complete, ResolveRelease, ReleaseEscrowToSeller, paymentVars, OrderlyInv,
         NoticeSpent
<1>2. \A r \in Rows : ~IsSettlementPending(refunds'[r])
  <2>1. CASE Complete
    BY <2>1 DEF Complete, RefundBlocksRelease, refundVars
  <2>2. CASE ResolveRelease
    <3>1. \A r \in Rows : r # opened => ~IsSettlementPending(refunds[r])
      BY <1>1, NothingBeyondTheLatest
      DEF IInv, TypeOK, OrderlyInv, OnlyLatestIsOpen, Rows
    <3>2. CASE opened = 0 /\ UNCHANGED refundVars
      BY <3>1, <3>2 DEF refundVars, Rows
    <3>3. CASE /\ opened > 0 /\ Latest.status = "escalated_to_admin"
               /\ refunds' = [refunds EXCEPT ![opened].status = "admin_released"]
               /\ UNCHANGED opened
      BY <3>1, <3>3, LatestExists
      DEF IInv, TypeOK, IsSettlementPending, OwesBuyerRefund
    <3>4. CASE /\ opened > 0 /\ Latest.status = "admin_released"
               /\ UNCHANGED refundVars
      BY <3>1, <3>4 DEF Latest, refundVars, IsSettlementPending, OwesBuyerRefund
    <3>5. QED
      BY <2>2, <3>2, <3>3, <3>4 DEF ResolveRelease
  <2>3. QED
    BY <2>1, <2>2
<1>3. QED
  BY <1>1, <1>2 DEF OrderlyInv, NoticeSpent, OnlyLatestIsOpen, NoOwedRefundBehindRelease

LEMMA SystemRefundKeepsOrder ==
  ASSUME IInv, OrderlyInv, CancelOverdue \/ RefundOrder
  PROVE  OrderlyInv'
BY DEF CancelOverdue, MayCancelOverdue, RefundOrder, MayRefundForBan, OrderlyInv,
       NoticeSpent, OnlyLatestIsOpen, NoOwedRefundBehindRelease, paymentVars

(* A new refund follows ones that are decided and settled.                  *)
LEMMA CreateRefundKeepsOrder ==
  ASSUME IInv, OrderlyInv, CreateRefund
  PROVE  OrderlyInv'
<1>1. /\ escrow = "holding" /\ escrow' = "holding" /\ status' = "shipped"
      /\ processed' = processed
      /\ opened > 0 => ~AwaitsDecision(Latest) /\ ~IsSettlementPending(Latest)
  BY DEF CreateRefund, orderVars, paymentVars
<1>2. PICK row : AddRow(row)
  BY DEF CreateRefund
<1>3. opened' = opened + 1 /\ refunds' = [refunds EXCEPT ![opened + 1] = row]
  BY <1>2 DEF AddRow
<1>4. ASSUME NEW r \in Rows, r < opened'
      PROVE  ~IsSettlementPending(refunds'[r]) /\ ~AwaitsDecision(refunds'[r])
  <2>1. r < opened \/ r = opened
    BY <1>3, <1>4, GatewayAssumption DEF IInv, TypeOK, Rows
  <2>2. refunds'[r] = refunds[r]
    BY <1>3, <2>1, GatewayAssumption DEF IInv, TypeOK, Rows
  <2>3. QED
    BY <1>1, <2>1, <2>2 DEF OrderlyInv, OnlyLatestIsOpen, Latest, Rows
<1>5. QED
  BY <1>1, <1>4
  DEF OrderlyInv, NoticeSpent, OnlyLatestIsOpen, NoOwedRefundBehindRelease

LEMMA ApproveRefundKeepsOrder ==
  ASSUME IInv, OrderlyInv, NEW r \in Rows, ApproveRefund(r)
  PROVE  OrderlyInv'
<1>1. /\ escrow = "holding" /\ escrow' = "holding" /\ status' = status
      /\ processed' = processed /\ opened' = opened
      /\ AwaitsDecision(refunds[r])
  BY DEF ApproveRefund, MayApprove, orderVars, paymentVars, AwaitsDecision,
         IsDecisionFinal
<1>2. \A q \in Rows : q # r => refunds'[q] = refunds[q]
  BY DEF ApproveRefund, IInv, TypeOK
<1>3. status # "completed"
  BY <1>1 DEF IInv, EscrowMatchesOrder
<1>4. QED
  BY <1>1, <1>2, <1>3
  DEF OrderlyInv, NoticeSpent, OnlyLatestIsOpen, NoOwedRefundBehindRelease

(* A resolution for the buyer decides the newest refund or is the first.    *)
LEMMA DecisionIsOnLatest ==
  ASSUME IInv, OrderlyInv, NEW amount \in {Total, PD}, NEW k \in OwnKeys,
         escrow = "holding", DecideForBuyer(amount, k)
  PROVE  /\ opened' \in Nat
         /\ \A r \in Rows : r < opened' =>
              ~IsSettlementPending(refunds'[r]) /\ ~AwaitsDecision(refunds'[r])
<1>1. CASE /\ MayDecideEscalated
           /\ refunds' = [refunds EXCEPT ![opened] =
                [@ EXCEPT !.status = "admin_refunded", !.gateway = "pending",
                          !.key = AdminKey]]
           /\ UNCHANGED opened
  <2>1. \A r \in Rows : r < opened => refunds'[r] = refunds[r]
    BY <1>1 DEF IInv, TypeOK, Rows
  <2>2. QED
    BY <1>1, <2>1 DEF IInv, TypeOK, OrderlyInv, OnlyLatestIsOpen
<1>2. CASE MayKeepDecision /\ UNCHANGED refundVars
  BY <1>2 DEF IInv, TypeOK, OrderlyInv, OnlyLatestIsOpen, refundVars
<1>3. CASE MayRefundDirectly(amount) /\ AddRow(SystemRow(k, amount))
  BY <1>3 DEF MayRefundDirectly, AddRow, Rows
<1>4. QED
  BY <1>1, <1>2, <1>3 DEF DecideForBuyer

LEMMA ResolveKeepsOrder ==
  ASSUME IInv, OrderlyInv, ResolveRefund \/ ResolvePartialSplit
  PROVE  OrderlyInv'
<1>1. /\ escrow = "holding" /\ escrow' # "none"
      /\ status' # "completed" /\ processed' = processed
  BY DEF ResolveRefund, ResolvePartialSplit, paymentVars
<1>2. \A r \in Rows : r < opened' =>
        ~IsSettlementPending(refunds'[r]) /\ ~AwaitsDecision(refunds'[r])
  BY <1>1, DecisionIsOnLatest DEF ResolveRefund, ResolvePartialSplit, OwnKeys
<1>3. QED
  BY <1>1, <1>2
  DEF OrderlyInv, NoticeSpent, OnlyLatestIsOpen, NoOwedRefundBehindRelease

LEMMA NextOrderly ==
  ASSUME OneNotice PROVE IInv /\ OrderlyInv /\ [Next]_vars => OrderlyInv'
<1> SUFFICES ASSUME IInv, OrderlyInv, [Next]_vars PROVE OrderlyInv'
  OBVIOUS
<1>1. IInv'
  BY NextKeeps
<1>2. CASE PaymentNext
  BY <1>1, <1>2, UnpaidStepsAreCalm, CalmKeepsOrder, NoticeKeepsOrder
  DEF PaymentNext, PaymentSucceededNotice
<1>3. CASE OrderNext
  BY <1>1, <1>3, SurroundingsAreCalm, CalmKeepsOrder, ReleaseKeepsOrder,
     SystemRefundKeepsOrder, ResolveKeepsOrder
  DEF OrderNext
<1>4. CASE RefundNext
  BY <1>4, SurroundingsAreCalm, RowStepsAreCalm, CalmKeepsOrder,
     CreateRefundKeepsOrder, ApproveRefundKeepsOrder
  DEF RefundNext
<1>5. CASE EnvironmentNext \/ UNCHANGED vars
  BY <1>5, SurroundingsAreCalm, CalmKeepsOrder
<1>6. QED
  BY <1>2, <1>3, <1>4, <1>5 DEF Next

LEMMA OrderlyInvariance == ASSUME OneNotice PROVE Spec => []OrderlyInv
<1>1. IInv /\ OrderlyInv /\ [Next]_vars => OrderlyInv'
  BY NextOrderly
<1>2. QED
  BY <1>1, InitOrderly, Invariance, PTL DEF Spec

(* With one success notification, no completed order owes its buyer a       *)
(* refund: at a release only the newest refund could be open, and           *)
(* HasRefundBlockingRelease or the admin's decision rules that out.         *)
THEOREM ReleaseOwesNothing ==
  ASSUME OneNotice PROVE Spec => []NoOwedRefundBehindRelease
<1>1. OrderlyInv => NoOwedRefundBehindRelease
  BY DEF OrderlyInv
<1>2. QED
  BY <1>1, OrderlyInvariance, PTL

--------------------------------------------------------------------------------
(* One refund in flight. *)

(* A step either owes no more than before, or leaves all but the newest row *)
(* settled, or leaves an escrow that OrderlyInv speaks of.                  *)
LEMMA OweNoMore ==
  ASSUME S > 0, IInv, OrderlyInv, [Next]_vars
  PROVE  \/ escrow' \in {"none", "holding"}
         \/ \A r \in Rows :
              IsSettlementPending(refunds'[r]) => IsSettlementPending(refunds[r])
         \/ \A r \in Rows : r < opened' => ~IsSettlementPending(refunds'[r])
<1>1. ~SystemRefundFits(Total)
  BY AmountsAssumption DEF SystemRefundFits, Total
<1>2. CASE PaymentNext
  BY <1>2, UnpaidStepsAreCalm
  DEF PaymentNext, PaymentSucceededNotice, FinalizeOrderPayment,
      RefundCaptureOfInvalidOrder, Calm, IInv, TypeOK, OrderlyInv, NoticeSpent
<1>3. CASE OrderNext
  <2>1. CASE MarkShipped \/ FindUnshippedOfBannedUser \/ OpenDispute
    BY <2>1, SurroundingsAreCalm DEF Calm
  <2>2. CASE Complete \/ ResolveRelease
    <3>1. OrderlyInv'
      BY <2>2, NextKeeps, ReleaseKeepsOrder
    <3>2. status' = "completed"
      BY <2>2 DEF Complete, ResolveRelease
    <3>3. QED
      BY <3>1, <3>2 DEF OrderlyInv, NoOwedRefundBehindRelease
  <2>3. CASE ResolveRefund \/ ResolvePartialSplit
    BY <2>3, DecisionIsOnLatest DEF ResolveRefund, ResolvePartialSplit, OwnKeys
  <2>4. QED
    BY <1>1, <1>3, <2>1, <2>2, <2>3
    DEF OrderNext, CancelOverdue, MayCancelOverdue, RefundOrder, MayRefundForBan
<1>4. CASE RefundNext
  <2>1. CASE CreateRefund \/ \E r \in Rows : ApproveRefund(r)
    BY <2>1 DEF CreateRefund, ApproveRefund, MayApprove
  <2>2. QED
    BY <1>4, <2>1, SurroundingsAreCalm, RowStepsAreCalm DEF RefundNext, Calm
<1>5. CASE EnvironmentNext \/ UNCHANGED vars
  BY <1>5, SurroundingsAreCalm DEF Calm
<1>6. QED
  BY <1>2, <1>3, <1>4, <1>5 DEF Next

LEMMA NextOneInFlight ==
  ASSUME S > 0, IInv, OrderlyInv, OneRefundInFlight, [Next]_vars, IInv', OrderlyInv'
  PROVE  OneRefundInFlight'
<1>1. CASE \A r \in Rows : r < opened' => ~IsSettlementPending(refunds'[r])
  <2>1. \A r \in Rows : r > opened' => ~IsSettlementPending(refunds'[r])
    BY DEF IInv, RowsAreAppended, NoRow, IsSettlementPending, OwesBuyerRefund
  <2>2. opened' \in Int /\ Rows \subseteq Int
    BY DEF IInv, TypeOK, Rows
  <2>3. \A r \in Rows : r # opened' => ~IsSettlementPending(refunds'[r])
    BY <1>1, <2>1, <2>2
  <2>4. QED
    BY <2>3 DEF OneRefundInFlight
<1>2. CASE escrow' \in {"none", "holding"}
  <2>1. \A r \in Rows : r < opened' => ~IsSettlementPending(refunds'[r])
    BY <1>2 DEF IInv, TypeOK, OrderlyInv, NoticeSpent, OnlyLatestIsOpen, Rows
  <2>2. QED
    BY <1>1, <2>1
<1>3. CASE \A r \in Rows :
             IsSettlementPending(refunds'[r]) => IsSettlementPending(refunds[r])
  BY <1>3 DEF OneRefundInFlight
<1>4. QED
  BY <1>1, <1>2, <1>3, OweNoMore

LEMMA InitOneInFlight == Init => OneRefundInFlight
BY DEF Init, OneRefundInFlight, NoRow, IsSettlementPending, OwesBuyerRefund

(* Of an order with a shipping fee and one success notification, at most    *)
(* one refund at a time is decided and not yet settled.                     *)
THEOREM OneInFlight ==
  ASSUME OneNotice, S > 0 PROVE Spec => []OneRefundInFlight
<1>1. /\ IInv /\ OrderlyInv /\ OneRefundInFlight /\ [Next]_vars /\ IInv' /\ OrderlyInv'
      => OneRefundInFlight'
  BY NextOneInFlight
<1>2. Spec => []OrderlyInv
  BY OrderlyInvariance
<1>3. QED
  BY <1>1, <1>2, InitOneInFlight, Invariance, PTL DEF Spec

--------------------------------------------------------------------------------
(* The gateway's books.  Of an order whose escrow is refunded only that its *)
(* seller got nothing matters: without a shipping fee the ban handler can   *)
(* ask for a second refund of it.                                           *)

Active(k) == gateway[k].state \in {"accepted", "settled", "dropped"}

ChargeFollowsCheckout ==
  /\ checkout # "done" => charge = "none"
  /\ charge # "captured" =>
       escrow = "none" /\ \A k \in Keys : gateway[k].state = "none"

(* Nothing is asked of the gateway but for a row, and nothing for two.      *)
RequestsHaveRows ==
  \A k \in Keys : gateway[k].state # "none" => \E r \in Rows : refunds[r].key = k
OneRequest ==
  \A j, k \in Keys : gateway[j].state # "none" /\ gateway[k].state # "none" => j = k

(* What the gateway can no longer refund is what that request asked for.    *)
RefundableIsTheRest ==
  charge = "captured" =>
    /\ (\A k \in Keys : ~Active(k)) => refundable = Gross
    /\ \A k \in Keys : Active(k) => refundable = Gross - gateway[k].amount

(* The rows of REC-6 have its key, and their order never gets an escrow.    *)
Rec6RowsFit ==
  \A r \in Rows : refunds[r].policy = "rec6" =>
                    refunds[r].key = Rec6Key /\ escrow = "none"

BooksInv ==
  /\ ChargeFollowsCheckout
  /\ escrow # "refunded" => RequestsHaveRows /\ OneRequest /\ RefundableIsTheRest
  /\ escrow = "refunded" => toSeller = 0
  /\ Rec6RowsFit
  /\ NoDoublePayout

Sound == IInv /\ MirrorInv /\ OrderlyInv /\ BooksInv /\ escrow # "refunded"

LEMMA InitBooks == Init => BooksInv
BY DEF Init, BooksInv, ChargeFollowsCheckout, RequestsHaveRows, OneRequest,
       RefundableIsTheRest, Rec6RowsFit, NoDoublePayout, NoRow

(* Steps that touch neither rows nor requests nor the seller's money.       *)
LEMMA UntouchedBooks ==
  ASSUME Sound, UNCHANGED <<refunds, gatewayVars, toSeller, escrow, charge>>,
         checkout = "done" => checkout' = "done"
  PROVE  BooksInv'
BY DEF Sound, BooksInv, ChargeFollowsCheckout, RequestsHaveRows, OneRequest,
       RefundableIsTheRest, Active, Rec6RowsFit, NoDoublePayout, gatewayVars

LEMMA SurroundingsKeepBooks ==
  ASSUME Sound,
         \/ CheckPayable \/ PaymentFailedNotice
         \/ ExpirePayment \/ ExpireOrphanOrder \/ Cancel
         \/ \E n \in Notices : IgnoreCapture(n)
         \/ MarkShipped \/ FindUnshippedOfBannedUser \/ OpenDispute
         \/ PaymentDeadlinePasses \/ GracePeriodEnds \/ WindowMoves
         \/ UNCHANGED vars
  PROVE  BooksInv'
<1>1. /\ UNCHANGED <<refunds, gatewayVars, toSeller, escrow, charge>>
      /\ checkout = "done" => checkout' = "done"
  <2> USE DEF paymentVars, refundVars, ledgerVars
  <2>1. CASE \/ CheckPayable \/ PaymentFailedNotice
             \/ ExpirePayment \/ ExpireOrphanOrder \/ Cancel
             \/ \E n \in Notices : IgnoreCapture(n)
    BY <2>1
    DEF CheckPayable, PaymentFailedNotice, ExpirePayment, ExpireOrphanOrder, Cancel,
        IgnoreCapture
  <2>2. CASE MarkShipped \/ OpenDispute
    BY <2>2 DEF MarkShipped, OpenDispute
  <2>3. CASE \/ FindUnshippedOfBannedUser \/ PaymentDeadlinePasses \/ GracePeriodEnds
             \/ WindowMoves \/ UNCHANGED vars
    BY <2>3
    DEF FindUnshippedOfBannedUser, PaymentDeadlinePasses, GracePeriodEnds,
        WindowMoves, vars, dbVars
  <2>4. QED
    BY <2>1, <2>2, <2>3
<1>2. QED
  BY <1>1, UntouchedBooks

LEMMA ChargingKeepsBooks ==
  ASSUME Sound, CreatePayment \/ GatewayCharges
  PROVE  BooksInv'
<1> USE DEF Sound, BooksInv, ChargeFollowsCheckout, RequestsHaveRows, OneRequest,
            RefundableIsTheRest, Active, Rec6RowsFit, NoDoublePayout
<1>1. /\ UNCHANGED <<refunds, gateway, toSeller, escrow>> /\ charge # "captured"
      /\ checkout' = "done"
  BY DEF CreatePayment, GatewayCharges, refundVars, ledgerVars, gatewayVars, dbVars,
         paymentVars
<1>2. \A k \in Keys : gateway[k].state = "none"
  BY <1>1
<1>3. toSeller = 0
  BY <1>1 DEF IInv, LedgerMatchesEscrow
<1>4. charge' = "captured" => refundable' = Gross
  BY DEF CreatePayment, GatewayCharges
<1>5. QED
  BY <1>1, <1>2, <1>3, <1>4

(* The keys of rows are given once, and the policies stay.                  *)
RowsKeepKeys ==
  \A r \in Rows :
    /\ refunds[r].key # NoKey => refunds'[r].key = refunds[r].key
    /\ refunds'[r].policy = "rec6" => refunds[r].policy = "rec6"

LEMMA KeptKeysKeepRows ==
  ASSUME Sound, RowsKeepKeys, NEW k \in Keys, gateway[k].state # "none"
  PROVE  \E r \in Rows : refunds'[r].key = k
BY KeysDiffer DEF Sound, BooksInv, RequestsHaveRows, RowsKeepKeys, NoKey, Keys,
                  SystemKeys

LEMMA UnsentKeepsBooks ==
  ASSUME Sound, RowsKeepKeys,
         UNCHANGED <<gatewayVars, toSeller, escrow, charge, checkout>>
  PROVE  BooksInv'
<1>1. RequestsHaveRows'
  BY KeptKeysKeepRows DEF RequestsHaveRows, gatewayVars
<1>2. Rec6RowsFit'
  BY DEF Sound, BooksInv, Rec6RowsFit, RowsKeepKeys, Rec6Key, NoKey
<1>3. QED
  BY <1>1, <1>2
  DEF Sound, BooksInv, ChargeFollowsCheckout, OneRequest, RefundableIsTheRest,
      Active, NoDoublePayout, gatewayVars

(* The notification, as long as it is the only one.                         *)
LEMMA NoticeKeepsBooks ==
  ASSUME OneNotice, Sound, NEW n \in Notices,
         FinalizeOrderPayment(n) \/ RefundCaptureOfInvalidOrder(n)
  PROVE  BooksInv'
<1>1. processed = {} /\ charge = "captured"
  BY DEF FinalizeOrderPayment, RefundCaptureOfInvalidOrder, Sound, IInv, TypeOK,
         OneNotice
<1>2. escrow = "none" /\ opened = 0
  BY <1>1
  DEF Sound, OrderlyInv, NoticeSpent, FinalizeOrderPayment,
      RefundCaptureOfInvalidOrder
<1>3. \A r \in Rows : refunds[r] = NoRow
  BY <1>2 DEF Sound, IInv, RowsAreAppended, Rows
<1>4. /\ UNCHANGED <<gatewayVars, toSeller, charge, checkout>>
      /\ \A k \in Keys : gateway[k].state = "none"
  BY <1>3
  DEF FinalizeOrderPayment, RefundCaptureOfInvalidOrder, ledgerVars, Sound, BooksInv,
      RequestsHaveRows, NoRow, NoKey, Keys, SystemKeys
<1>5. Rec6RowsFit'
  <2>1. CASE UNCHANGED refunds
    BY <1>3, <2>1 DEF Rec6RowsFit, NoRow
  <2>2. CASE RefundCaptureOfInvalidOrder(n) /\ ~UNCHANGED refunds
    BY <1>2, <1>3, <2>2
    DEF RefundCaptureOfInvalidOrder, refundVars, AddRow, Rec6RowsFit, NoRow, Sound,
        IInv, TypeOK
  <2>3. QED
    BY <2>1, <2>2 DEF FinalizeOrderPayment, refundVars
<1>6. escrow' # "refunded"
  BY <1>2 DEF FinalizeOrderPayment, RefundCaptureOfInvalidOrder
<1>7. QED
  BY <1>1, <1>4, <1>5, <1>6
  DEF Sound, BooksInv, ChargeFollowsCheckout, RequestsHaveRows, OneRequest,
      RefundableIsTheRest, Active, NoDoublePayout, gatewayVars

LEMMA UnsentStepsKeepBooks ==
  ASSUME Sound,
         \/ CreateRefund
         \/ \E r \in Rows : \/ RejectRefund(r) \/ EscalateRefund(r)
                            \/ RefundAckFailed(r) \/ Rec6AckSucceeded(r)
                            \/ Rec6Dispatch(r) /\ UNCHANGED gatewayVars
  PROVE  BooksInv'
<1>1. UNCHANGED <<gatewayVars, toSeller, escrow, charge, checkout>>
  BY DEF CreateRefund, RejectRefund, EscalateRefund, RefundAckFailed,
         Rec6AckSucceeded, Rec6Dispatch, Rec6Answered, Rec6Unanswered,
         ledgerVars, paymentVars
<1>2. CASE CreateRefund
  <2>1. PICK p \in BuyerPolicies :
          AddRow([NoRow EXCEPT !.status = "pending_seller_review", !.policy = p])
    BY <1>2 DEF CreateRefund
  <2> DEFINE row == [NoRow EXCEPT !.status = "pending_seller_review", !.policy = p]
  <2>2. row.policy # "rec6" /\ refunds' = [refunds EXCEPT ![opened + 1] = row]
    BY <2>1 DEF AddRow, NoRow, BuyerPolicies
  <2>3. opened + 1 \in Rows => refunds[opened + 1].key = NoKey
    BY GatewayAssumption
    DEF Sound, IInv, TypeOK, RowsAreAppended, NoRow, Rows
  <2> HIDE DEF row
  <2>4. RowsKeepKeys
    BY <2>2, <2>3 DEF RowsKeepKeys, Sound, IInv, TypeOK
  <2>5. QED
    BY <1>1, <2>4, UnsentKeepsBooks
<1>3. ASSUME NEW r \in Rows,
             \/ RejectRefund(r) \/ EscalateRefund(r) \/ RefundAckFailed(r)
             \/ Rec6AckSucceeded(r) \/ Rec6Dispatch(r)
      PROVE  RowsKeepKeys
  <2>1. \/ \E s \in {"seller_rejected", "escalated_to_admin"} :
             refunds' = [refunds EXCEPT ![r].status = s]
        \/ \E g \in {"pending", "succeeded", "failed"} :
             refunds' = [refunds EXCEPT ![r].gateway = g]
    BY <1>3
    DEF RejectRefund, EscalateRefund, RefundAckFailed, Rec6AckSucceeded,
        Rec6Dispatch, Rec6Answered, Rec6Unanswered
  <2>2. QED
    BY <2>1 DEF RowsKeepKeys, Sound, IInv, TypeOK, Row
<1>4. QED
  BY <1>1, <1>2, <1>3, UnsentKeepsBooks

--------------------------------------------------------------------------------
(* While the escrow holds, and the newest refund is not owed, the gateway   *)
(* has not been asked for anything.                                         *)
LEMMA NothingAsked ==
  ASSUME Sound, escrow = "holding",
         \A r \in Rows : r = opened => ~IsSettlementPending(refunds[r])
  PROVE  \A k \in Keys : gateway[k].state = "none"
<1> SUFFICES ASSUME NEW k \in Keys, gateway[k].state # "none" PROVE FALSE
  OBVIOUS
<1>1. PICK r \in Rows : refunds[r].key = k
  BY DEF Sound, BooksInv, RequestsHaveRows
<1>2. refunds[r].key # NoKey
  BY <1>1 DEF NoKey, Keys, SystemKeys
<1>3. OwesBuyerRefund(refunds[r]) /\ refunds[r].policy # "rec6"
  BY <1>2 DEF Sound, MirrorInv, RowsFit, RowFits, BooksInv, Rec6RowsFit
<1>4. r <= opened
  BY <1>2, RowExists DEF Sound, IInv
<1>5. ~IsSettlementPending(refunds[r])
  BY <1>4 DEF Sound, OrderlyInv, OnlyLatestIsOpen, IInv, TypeOK, Rows
<1>6. refunds[r].gateway = "succeeded"
  BY <1>3, <1>5 DEF IsSettlementPending
<1>7. toBuyer > 0
  BY <1>3, <1>6 DEF Sound, MirrorInv, LedgerMirrorsGateway
<1>8. QED
  BY <1>7 DEF Sound, IInv, LedgerMatchesEscrow

(* The gateway is asked under a key, and for no other at the time.          *)
LEMMA AskingKeepsBooks ==
  ASSUME Sound, NEW k \in Keys, NEW ref, NEW amount \in Nat,
         GatewayAccepts(k, ref, amount),
         \A j \in Keys : j # k => gateway[j].state = "none",
         RowsKeepKeys, \E r \in Rows : refunds'[r].key = k,
         toSeller = 0, UNCHANGED <<toSeller, charge, checkout>>,
         escrow' = "none" <=> escrow = "none"
  PROVE  BooksInv'
<1> DEFINE request == [state |-> "accepted", amount |-> amount]
<1>1. charge = "captured"
  BY DEF GatewayAccepts
<1>2. \A j \in Keys : j # k => gateway'[j] = gateway[j]
  BY DEF GatewayAccepts, gatewayVars, Sound, IInv, TypeOK
<1>3. ChargeFollowsCheckout'
  BY <1>1 DEF Sound, BooksInv, ChargeFollowsCheckout
<1>4. RequestsHaveRows' /\ OneRequest'
  BY <1>2 DEF RequestsHaveRows, OneRequest
<1>5. RefundableIsTheRest'
  <2>1. CASE UNCHANGED gatewayVars
    BY <1>1, <2>1 DEF Sound, BooksInv, RefundableIsTheRest, Active, gatewayVars
  <2>2. CASE /\ gateway[k].state \in {"none", "denied"}
             /\ gateway' = [gateway EXCEPT ![k] = request]
             /\ refundable' = refundable - amount
    <3>1. \A j \in Keys : ~Active(j)
      BY <2>2 DEF Active
    <3>2. refundable = Gross
      BY <1>1, <3>1 DEF Sound, BooksInv, RefundableIsTheRest
    <3>3. gateway'[k] = request /\ refundable' = Gross - amount
      BY <2>2, <3>2 DEF Sound, IInv, TypeOK
    <3>4. Active(k)' /\ \A j \in Keys : j # k => ~Active(j)'
      BY <1>2, <3>1, <3>3 DEF Active
    <3>5. QED
      BY <3>3, <3>4 DEF RefundableIsTheRest
  <2>3. QED
    BY <2>1, <2>2 DEF GatewayAccepts
<1>6. Rec6RowsFit'
  BY DEF Sound, BooksInv, Rec6RowsFit, RowsKeepKeys, Rec6Key, NoKey
<1>7. NoDoublePayout'
  BY DEF NoDoublePayout
<1>8. QED
  BY <1>3, <1>4, <1>5, <1>6, <1>7 DEF BooksInv

LEMMA SellerUnpaid ==
  ASSUME Sound, escrow \in {"none", "holding"} PROVE toSeller = 0 /\ toBuyer = 0
BY DEF Sound, IInv, LedgerMatchesEscrow

LEMMA ApproveRefundKeepsBooks ==
  ASSUME Sound, NEW r \in Rows, ApproveRefund(r)
  PROVE  BooksInv'
<1>1. /\ escrow = "holding" /\ refunds[r].status = "pending_seller_review"
      /\ GatewayAccepts(SellerKey(r), OrderRef, PD + ApprovedShipping(r))
      /\ UNCHANGED <<toSeller, charge, checkout, escrow>>
  BY DEF ApproveRefund, MayApprove, ledgerVars, paymentVars
<1>2. AwaitsDecision(refunds[r]) /\ ~OwesBuyerRefund(refunds[r])
  BY <1>1 DEF AwaitsDecision, IsDecisionFinal, OwesBuyerRefund
<1>3. r = opened
  <2>1. r <= opened
    BY <1>1, RowExists DEF Sound, IInv
  <2>2. QED
    BY <1>1, <1>2, <2>1 DEF Sound, OrderlyInv, OnlyLatestIsOpen, IInv, TypeOK, Rows
<1>4. \A j \in Keys : gateway[j].state = "none"
  BY <1>1, <1>2, <1>3, NothingAsked DEF IsSettlementPending
<1>5. RowsKeepKeys /\ refunds'[r].key = SellerKey(r)
  <2>1. refunds[r].key = NoKey
    BY <1>2 DEF Sound, MirrorInv, RowsFit, RowFits
  <2>2. QED
    BY <2>1 DEF ApproveRefund, RowsKeepKeys, Sound, IInv, TypeOK, Row
<1>6. QED
  BY <1>1, <1>4, <1>5, AskingKeepsBooks, SellerUnpaid, KeysDiffer, AmountsAreNaturals

LEMMA ResolveForBuyerKeepsBooks ==
  ASSUME Sound, ResolveRefund \/ ResolvePartialSplit
  PROVE  BooksInv'
<1>1. PICK amount \in {Total, PD}, k \in OwnKeys : DecideForBuyer(amount, k)
  BY DEF ResolveRefund, ResolvePartialSplit, OwnKeys
<1>2. /\ escrow = "holding" /\ escrow' # "none"
      /\ UNCHANGED <<toSeller, charge, checkout>>
  BY DEF ResolveRefund, ResolvePartialSplit, ledgerVars, paymentVars
<1>3. CASE /\ MayDecideEscalated
           /\ GatewayAccepts(AdminKey, OrderRef, amount)
           /\ refunds' = [refunds EXCEPT ![opened] =
                [@ EXCEPT !.status = "admin_refunded", !.gateway = "pending",
                          !.key = AdminKey]]
  <2>1. opened \in Rows /\ ~OwesBuyerRefund(refunds[opened])
    BY <1>3, LatestExists
    DEF Sound, IInv, MayDecideEscalated, Latest, OwesBuyerRefund
  <2>2. \A j \in Keys : gateway[j].state = "none"
    BY <1>2, <2>1, NothingAsked DEF IsSettlementPending
  <2>3. refunds[opened].key = NoKey
    BY <2>1 DEF Sound, MirrorInv, RowsFit, RowFits
  <2>4. RowsKeepKeys /\ refunds'[opened].key = AdminKey
    BY <1>3, <2>1, <2>3 DEF RowsKeepKeys, Sound, IInv, TypeOK, Row
  <2>5. AdminKey \in Keys
    BY <2>1, KeysDiffer DEF AdminKey
  <2>6. QED
    BY <1>2, <1>3, <2>1, <2>2, <2>4, <2>5, AskingKeepsBooks, SellerUnpaid,
       AmountsAreNaturals
<1>4. CASE MayKeepDecision /\ UNCHANGED <<refundVars, gatewayVars>>
  BY <1>2, <1>4, SellerUnpaid
  DEF Sound, BooksInv, ChargeFollowsCheckout, RequestsHaveRows, OneRequest,
      RefundableIsTheRest, Active, Rec6RowsFit, NoDoublePayout, refundVars,
      gatewayVars
<1>5. CASE /\ MayRefundDirectly(amount)
           /\ GatewayAccepts(k, OrderRef, amount - K)
           /\ AddRow(SystemRow(k, amount))
  <2>1. opened = 0 /\ amount - K \in Nat
    BY <1>5, AmountsAreNaturals DEF MayRefundDirectly
  <2>2. 1 \in Rows /\ refunds[1].key = NoKey
    BY <2>1, GatewayAssumption DEF Sound, IInv, RowsAreAppended, NoRow, Rows
  <2>3. refunds' = [refunds EXCEPT ![1] = SystemRow(k, amount)]
    BY <1>5, <2>1 DEF AddRow
  <2>4. RowsKeepKeys /\ refunds'[1].key = k
    BY <2>2, <2>3 DEF RowsKeepKeys, SystemRow, Sound, IInv, TypeOK
  <2>5. \A j \in Keys : gateway[j].state = "none"
    BY <1>2, <2>1, NothingAsked DEF Rows
  <2>6. QED
    BY <1>2, <1>5, <2>1, <2>2, <2>4, <2>5, AskingKeepsBooks, SellerUnpaid, KeysDiffer
<1>6. QED
  BY <1>1, <1>3, <1>4, <1>5 DEF DecideForBuyer

(* The REC-6 refund is the only refund of an order without an escrow.       *)
LEMMA Rec6DispatchKeepsBooks ==
  ASSUME Sound, NEW r \in Rows, Rec6Dispatch(r)
  PROVE  BooksInv'
<1>1. CASE UNCHANGED gatewayVars
  BY <1>1, UnsentStepsKeepBooks
<1>2. CASE GatewayAccepts(Rec6Key, ChargeRef, Gross)
  <2>1. /\ escrow = "none" /\ refunds[r].key = Rec6Key
        /\ UNCHANGED <<toSeller, charge, checkout, escrow>>
    BY DEF Rec6Dispatch, Sound, BooksInv, Rec6RowsFit, ledgerVars, paymentVars
  <2>2. r <= opened /\ opened <= 1
    BY <2>1, RowExists DEF Sound, IInv, OrderlyInv, NoticeSpent, Rec6Key, NoKey
  <2>3. \A q \in Rows : q # r => refunds[q].key = NoKey
    BY <2>2 DEF Sound, IInv, TypeOK, RowsAreAppended, NoRow, Rows
  <2>4. \A j \in Keys : j # Rec6Key => gateway[j].state = "none"
    BY <2>1, <2>3
    DEF Sound, BooksInv, RequestsHaveRows, NoKey, Keys, SystemKeys
  <2>5. RowsKeepKeys /\ refunds'[r].key = Rec6Key
    BY <2>1 DEF Rec6Dispatch, Rec6Answered, Rec6Unanswered, RowsKeepKeys, Sound,
                IInv, TypeOK, Row
  <2>6. Rec6Key \in Keys /\ Gross \in Nat
    BY AmountsAssumption DEF Rec6Key, Keys, SystemKeys, Gross
  <2>7. QED
    BY <1>2, <2>1, <2>4, <2>5, <2>6, AskingKeepsBooks, SellerUnpaid
<1>3. QED
  BY <1>1, <1>2 DEF Rec6Dispatch, Rec6Answered, Rec6Unanswered

(* A release pays the seller the whole order: nothing was asked for.        *)
LEMMA ReleaseKeepsBooks ==
  ASSUME Sound, Complete \/ ResolveRelease
  PROVE  BooksInv'
<1>1. /\ escrow = "holding" /\ escrow' = "released" /\ toSeller' = toSeller + Total
      /\ UNCHANGED <<gatewayVars, charge, checkout>>
  BY DEF Complete, ResolveRelease, ReleaseEscrowToSeller, paymentVars
<1>2. \A r \in Rows : r = opened => ~IsSettlementPending(refunds[r])
  BY DEF Complete, RefundBlocksRelease, ResolveRelease, Latest, IsSettlementPending,
         OwesBuyerRefund, Rows
<1>3. \A k \in Keys : gateway[k].state = "none"
  BY <1>1, <1>2, NothingAsked
<1>4. toSeller' = Total
  BY <1>1, SellerUnpaid, AmountsAreNaturals
<1>5. charge = "captured" /\ refundable = Gross
  BY <1>1, <1>3
  DEF Sound, BooksInv, ChargeFollowsCheckout, RefundableIsTheRest, Active
<1>6. NoDoublePayout'
  BY <1>1, <1>4, <1>5, AmountsAssumption DEF NoDoublePayout, gatewayVars, Gross, Total
<1>7. RowsKeepKeys
  <2>1. CASE UNCHANGED refunds
    BY <2>1 DEF RowsKeepKeys
  <2>2. CASE /\ opened > 0
             /\ refunds' = [refunds EXCEPT ![opened].status = "admin_released"]
    BY <2>2, LatestExists DEF RowsKeepKeys, Sound, IInv, TypeOK, Row
  <2>3. QED
    BY <2>1, <2>2 DEF Complete, ResolveRelease, refundVars
<1>8. Rec6RowsFit'
  BY <1>1, <1>7 DEF Sound, BooksInv, Rec6RowsFit, RowsKeepKeys
<1>9. QED
  BY <1>1, <1>3, <1>5, <1>6, <1>8
  DEF Sound, BooksInv, ChargeFollowsCheckout, RequestsHaveRows, OneRequest,
      RefundableIsTheRest, Active, gatewayVars

(* A confirmation pays the seller no more than the refund left.             *)
LEMMA RefundAckSucceededKeepsBooks ==
  ASSUME Sound, NEW r \in Rows, RefundAckSucceeded(r)
  PROVE  BooksInv'
<1>1. /\ escrow # "none" /\ escrow' # "none"
      /\ UNCHANGED <<gatewayVars, charge, checkout>>
      /\ refunds' = [refunds EXCEPT ![r] = SucceededRow(r)]
      /\ toSeller' = toSeller + 0 \/ toSeller' = toSeller + (S - Rs(r))
  BY DEF RefundAckSucceeded, ReverseAfterFlip, ReverseInFull, ReverseInPart, ReverseTo,
         paymentVars
<1>2. /\ toSeller = 0 /\ refunds[r].key \in Keys /\ Rs(r) \in Nat
      /\ gateway[refunds[r].key] = [state |-> "settled", amount |-> PD + Rs(r)]
  BY LedgerBeforeSuccess, PostedIsSettled DEF Sound
<1>3. charge = "captured"
  BY <1>1 DEF Sound, BooksInv, ChargeFollowsCheckout
<1>4. refundable = Gross - (PD + Rs(r))
  BY <1>2, <1>3 DEF Sound, BooksInv, RefundableIsTheRest, Active
<1>5. NoDoublePayout'
  BY <1>1, <1>2, <1>4, AmountsAssumption DEF NoDoublePayout, gatewayVars, Gross, Total
<1>6. RowsKeepKeys
  BY <1>1 DEF RowsKeepKeys, SucceededRow, Sound, IInv, TypeOK, Row
<1>7. RequestsHaveRows' /\ Rec6RowsFit'
  <2>1. RequestsHaveRows'
    BY <1>1, <1>6, KeptKeysKeepRows DEF RequestsHaveRows, gatewayVars
  <2>2. Rec6RowsFit'
    BY <1>1, <1>6 DEF Sound, BooksInv, Rec6RowsFit, RowsKeepKeys
  <2>3. QED
    BY <2>1, <2>2
<1>8. escrow' = "refunded" => toSeller' = 0
  BY <1>2
  DEF RefundAckSucceeded, ReverseAfterFlip, ReverseInFull, ReverseInPart, ReverseTo, Sound
<1>9. QED
  BY <1>1, <1>3, <1>5, <1>7, <1>8
  DEF Sound, BooksInv, ChargeFollowsCheckout, OneRequest, RefundableIsTheRest, Active,
      gatewayVars

(* The gateway's own steps: a request it denies is refundable again.        *)
LEMMA GatewayKeepsBooks ==
  ASSUME Sound, NEW k \in Keys,
         GatewaySettles(k) \/ GatewayDenies(k) \/ NotificationDropped(k)
  PROVE  BooksInv'
<1>1. PICK s \in {"settled", "denied", "dropped"} :
        /\ gateway' = [gateway EXCEPT ![k].state = s] /\ gateway[k].state # "none"
        /\ Active(k)
        /\ s = "denied" => refundable' = refundable + gateway[k].amount
        /\ s # "denied" => refundable' = refundable
  BY DEF GatewaySettles, GatewayDenies, NotificationDropped, Active
<1>2. UNCHANGED <<refunds, toSeller, escrow, charge, checkout>>
  BY DEF GatewaySettles, GatewayDenies, NotificationDropped, dbVars, refundVars,
         ledgerVars, paymentVars
<1>3. /\ gateway'[k].state = s /\ gateway'[k].amount = gateway[k].amount
      /\ gateway[k].amount \in Nat
      /\ \A j \in Keys : j # k => gateway'[j] = gateway[j]
  BY <1>1 DEF Sound, IInv, TypeOK, Request
<1>4. charge = "captured"
  BY <1>1 DEF Sound, BooksInv, ChargeFollowsCheckout
<1>5. \A j \in Keys : j # k => gateway[j].state = "none"
  BY <1>1 DEF Sound, BooksInv, OneRequest
<1>6. refundable = Gross - gateway[k].amount
  BY <1>1, <1>4 DEF Sound, BooksInv, RefundableIsTheRest
<1>7. ChargeFollowsCheckout'
  BY <1>2, <1>4 DEF Sound, BooksInv, ChargeFollowsCheckout
<1>8. RequestsHaveRows' /\ OneRequest' /\ Rec6RowsFit'
  BY <1>1, <1>2, <1>3, <1>5
  DEF Sound, BooksInv, RequestsHaveRows, OneRequest, Rec6RowsFit
<1>9. RefundableIsTheRest'
  BY <1>1, <1>3, <1>5, <1>6, AmountsAssumption DEF RefundableIsTheRest, Active, Gross
<1>10. NoDoublePayout'
  BY <1>1, <1>2, <1>3, <1>6, AmountsAssumption
  DEF Sound, BooksInv, NoDoublePayout, Gross, Total, IInv, TypeOK
<1>11. QED
  BY <1>2, <1>7, <1>8, <1>9, <1>10 DEF Sound, BooksInv

(* The system's own refunds of a whole order flip its escrow.               *)
LEMMA SystemRefundKeepsBooks ==
  ASSUME Sound, CancelOverdue \/ RefundOrder
  PROVE  BooksInv'
<1>1. /\ escrow = "holding" /\ escrow' = "refunded"
      /\ UNCHANGED <<toSeller, charge, checkout>>
      /\ \E k \in OwnKeys : AddRow(SystemRow(k, Total))
  BY DEF CancelOverdue, MayCancelOverdue, RefundOrder, MayRefundForBan, OwnKeys,
         ledgerVars, paymentVars
<1>2. charge = "captured" /\ toSeller' = 0
  BY <1>1, SellerUnpaid DEF Sound, BooksInv, ChargeFollowsCheckout
<1>3. \A r \in Rows : refunds'[r].policy # "rec6"
  BY <1>1 DEF AddRow, SystemRow, Sound, BooksInv, Rec6RowsFit, IInv, TypeOK
<1>4. QED
  BY <1>1, <1>2, <1>3
  DEF Sound, BooksInv, ChargeFollowsCheckout, Rec6RowsFit, NoDoublePayout

(* Once its escrow is refunded the seller of an order gets nothing, and     *)
(* REC-6 has no part in it.                                                 *)
LEMMA RefundedKeepsBooks ==
  ASSUME OneNotice, IInv, OrderlyInv, BooksInv, escrow = "refunded", [Next]_vars
  PROVE  BooksInv'
<1>1. escrow' = "refunded"
  BY StepStays DEF Stays
<1>2. /\ charge = "captured" /\ checkout = "done" /\ toSeller = 0
      /\ \A r \in Rows : refunds[r].policy # "rec6"
      /\ processed = Notices
  BY DEF BooksInv, ChargeFollowsCheckout, Rec6RowsFit, OrderlyInv, NoticeSpent
<1>3. /\ charge' = "captured" /\ checkout' = "done" /\ toSeller' = 0
      /\ \A r \in Rows : refunds'[r].policy # "rec6"
  <2>1. CASE PaymentNext
    BY <1>2, <2>1
    DEF PaymentNext, PaymentSucceededNotice, FinalizeOrderPayment, CheckPayable,
        CreatePayment, RefundCaptureOfInvalidOrder, IgnoreCapture, PaymentFailedNotice,
        ExpirePayment, ExpireOrphanOrder, Cancel, refundVars, ledgerVars, paymentVars
  <2>2. CASE OrderNext
    BY <1>2, <2>2
    DEF OrderNext, MarkShipped, Complete, ReleaseEscrowToSeller, CancelOverdue,
        MayCancelOverdue, FindUnshippedOfBannedUser, RefundOrder, MayRefundForBan,
        OpenDispute, ResolveRefund, ResolvePartialSplit, ResolveRelease, dbVars,
        refundVars, ledgerVars, paymentVars
  <2>3. CASE RefundNext
    <3>1. CASE \E r \in Rows : RefundAckSucceeded(r)
      BY <1>2, <3>1
      DEF RefundAckSucceeded, ReverseAfterFlip, ReverseInFull, ReverseInPart, ReverseTo,
          SucceededRow, paymentVars, IInv, TypeOK, Row
    <3>2. CASE CreateRefund \/ RefundResponseLost \/ \E k \in Keys : NotificationDropped(k)
      BY <1>2, <3>2
      DEF CreateRefund, RefundResponseLost, NotificationDropped, dbVars, refundVars,
          ledgerVars, paymentVars
    <3>3. ASSUME NEW r \in Rows,
                 \/ ApproveRefund(r) \/ RejectRefund(r) \/ EscalateRefund(r)
                 \/ RefundAckFailed(r) \/ Rec6AckSucceeded(r) \/ Rec6Dispatch(r)
          PROVE  /\ charge' = "captured" /\ checkout' = "done" /\ toSeller' = 0
                 /\ \A q \in Rows : refunds'[q].policy # "rec6"
      BY <1>2, <3>3
      DEF ApproveRefund, MayApprove, RejectRefund, EscalateRefund, RefundAckFailed,
          Rec6AckSucceeded, MovesMoney, Rec6Dispatch, ledgerVars, paymentVars, IInv,
          TypeOK, Row
    <3>4. QED
      BY <2>3, <3>1, <3>2, <3>3 DEF RefundNext
  <2>4. CASE EnvironmentNext \/ UNCHANGED vars
    BY <1>2, <2>4
    DEF EnvironmentNext, PaymentDeadlinePasses, GracePeriodEnds, WindowMoves,
        GatewayCharges, GatewaySettles, GatewayDenies, vars, dbVars, refundVars,
        ledgerVars, paymentVars
  <2>5. QED
    BY <2>1, <2>2, <2>3, <2>4 DEF Next
<1>4. QED
  BY <1>1, <1>3 DEF BooksInv, ChargeFollowsCheckout, Rec6RowsFit, NoDoublePayout

LEMMA NextKeepsBooks ==
  ASSUME OneNotice, ~ResponsesMayBeLost
  PROVE  IInv /\ MirrorInv /\ OrderlyInv /\ BooksInv /\ [Next]_vars => BooksInv'
<1> SUFFICES ASSUME Sound, [Next]_vars PROVE BooksInv'
  BY RefundedKeepsBooks DEF Sound
<1>1. CASE PaymentNext
  BY <1>1, SurroundingsKeepBooks, ChargingKeepsBooks, NoticeKeepsBooks
  DEF PaymentNext, PaymentSucceededNotice
<1>2. CASE OrderNext
  BY <1>2, SurroundingsKeepBooks, ReleaseKeepsBooks, ResolveForBuyerKeepsBooks,
     SystemRefundKeepsBooks
  DEF OrderNext
<1>3. CASE RefundNext
  BY <1>3, UnsentStepsKeepBooks, ApproveRefundKeepsBooks, RefundAckSucceededKeepsBooks,
     Rec6DispatchKeepsBooks, GatewayKeepsBooks
  DEF RefundNext, RefundResponseLost
<1>4. CASE EnvironmentNext \/ UNCHANGED vars
  BY <1>4, SurroundingsKeepBooks, ChargingKeepsBooks, GatewayKeepsBooks
  DEF EnvironmentNext
<1>5. QED
  BY <1>1, <1>2, <1>3, <1>4 DEF Next

(* Of an order with one success notification and no lost responses, what    *)
(* the gateway gave back and what the seller side got are together no more  *)
(* than the order: while the escrow is not refunded the gateway holds one   *)
(* request, and the seller is paid before it is made or what it leaves.     *)
THEOREM NothingPaidTwice ==
  ASSUME OneNotice, ~ResponsesMayBeLost PROVE Spec => []NoDoublePayout
<1>1. IInv /\ MirrorInv /\ OrderlyInv /\ BooksInv /\ [Next]_vars => BooksInv'
  BY NextKeepsBooks
<1>2. Spec => []OrderlyInv
  BY OrderlyInvariance
<1>3. Spec => []BooksInv
  BY <1>1, <1>2, InitBooks, Invariance, MirrorInvariance, PTL DEF Spec
<1>4. BooksInv => NoDoublePayout
  BY DEF BooksInv
<1>5. QED
  BY <1>3, <1>4, PTL

--------------------------------------------------------------------------------
(* What the refusals of the code amount to, for every order they concern.   *)

(* With coins redeemed the ledger accepts no acknowledgement of a refund    *)
(* (LedgerAcceptsReversal), so the books never show the buyer's money, and  *)
(* no refund of the order's own money is ever confirmed.                    *)
THEOREM CoinsBlockReversal ==
  ASSUME K > 0 PROVE Spec => [](toBuyer = 0 /\ NoneAcknowledged)
<1> DEFINE I == toBuyer = 0
<1>1. Init => I
  BY DEF Init
<1>2. IInv /\ MirrorInv /\ I /\ [Next]_vars => I'
  BY StepChanges DEF Change, RefundAckSucceeded, LedgerAcceptsReversal
<1>3. MirrorInv /\ I => toBuyer = 0 /\ NoneAcknowledged
  BY DEF MirrorInv, LedgerMirrorsGateway, NoneAcknowledged
<1> HIDE DEF I
<1>4. QED
  BY <1>1, <1>2, <1>3, Invariance, MirrorInvariance, PTL DEF Spec

(* The keys under which the system refunds a whole order of its own accord. *)
WholeKeys == {OverdueKey, ManualKey, DisputeRefundKey}
NothingWhole == \A r \in Rows : refunds[r].key \notin WholeKeys

(* A row that is appended, and a change of one.                             *)
LEMMA AppendedKey ==
  ASSUME IInv, NothingWhole, NEW row, AddRow(row), row.key \notin WholeKeys
  PROVE  NothingWhole'
BY DEF AddRow, NothingWhole, IInv, TypeOK

LEMMA ChangedKey ==
  ASSUME IInv, NothingWhole, NEW r \in Rows, NEW row,
         refunds' = [refunds EXCEPT ![r] = row], row.key \notin WholeKeys
  PROVE  NothingWhole'
BY DEF NothingWhole, IInv, TypeOK

(* With a shipping fee the system refunds no order as a whole, since it     *)
(* hands all of it to the product component (SystemRefundFits): no overdue  *)
(* order is ever cancelled, none is refunded by the ban handler or by a     *)
(* dispute without a refund row, whatever the gateway, workers and admins   *)
(* do.                                                                      *)
THEOREM WholeRefundsRefused ==
  ASSUME S > 0 PROVE Spec => [](status # "cancelled_timeout" /\ NothingWhole)
<1> DEFINE I == status # "cancelled_timeout" /\ NothingWhole
<1>1. Init => I
  BY KeysDiffer DEF Init, NothingWhole, NoRow, WholeKeys, OwnKeys
<1>2. IInv /\ I /\ [Next]_vars => I'
  <2> SUFFICES ASSUME IInv, I, [Next]_vars PROVE I'
    OBVIOUS
  <2>1. ~SystemRefundFits(Total)
    BY AmountsAssumption DEF SystemRefundFits, Total
  <2>2. /\ NoKey \notin WholeKeys /\ Rec6Key \notin WholeKeys /\ SplitKey \notin WholeKeys
        /\ \A r \in Rows : SellerKey(r) \notin WholeKeys /\ <<"admin", r>> \notin WholeKeys
    BY KeysDiffer
    DEF WholeKeys, OwnKeys, Rec6Key, OverdueKey, ManualKey, DisputeRefundKey, SplitKey
  <2>3. status' # "cancelled_timeout"
    <3>1. CASE PaymentNext
      BY <3>1
      DEF PaymentNext, PaymentSucceededNotice, FinalizeOrderPayment, CheckPayable,
          CreatePayment, RefundCaptureOfInvalidOrder, IgnoreCapture,
          PaymentFailedNotice, ExpirePayment, ExpireOrphanOrder, Cancel, orderVars
    <3>2. CASE OrderNext
      BY <2>1, <3>2
      DEF OrderNext, MarkShipped, Complete, CancelOverdue, MayCancelOverdue,
          FindUnshippedOfBannedUser, RefundOrder, MayRefundForBan, OpenDispute,
          ResolveRefund, ResolvePartialSplit, ResolveRelease, dbVars, orderVars
    <3>3. CASE RefundNext
      BY <3>3
      DEF RefundNext, CreateRefund, ApproveRefund, RejectRefund, EscalateRefund,
          RefundAckSucceeded, ReverseAfterFlip, ReverseInFull, ReverseInPart,
          RefundAckFailed, Rec6AckSucceeded, Rec6Dispatch, RefundResponseLost,
          NotificationDropped, dbVars, orderVars
    <3>4. CASE EnvironmentNext \/ UNCHANGED vars
      BY <3>4
      DEF EnvironmentNext, PaymentDeadlinePasses, GracePeriodEnds, WindowMoves,
          GatewayCharges, GatewaySettles, GatewayDenies, vars, dbVars, orderVars
    <3>5. QED
      BY <3>1, <3>2, <3>3, <3>4 DEF Next
  <2>4. CASE UNCHANGED refunds
    BY <2>3, <2>4 DEF NothingWhole
  <2>5. ASSUME NEW n \in Notices, RefundCaptureOfInvalidOrder(n), ~UNCHANGED refunds
        PROVE  NothingWhole'
    <3> DEFINE row == [status |-> "system_refunded", gateway |-> "unsubmitted",
                       key |-> Rec6Key, policy |-> "rec6", shipping |-> 0]
    <3>1. AddRow(row) /\ row.key = Rec6Key
      BY <2>5 DEF RefundCaptureOfInvalidOrder, refundVars
    <3> HIDE DEF row
    <3>2. QED
      BY <2>2, <3>1, AppendedKey
  <2>6. CASE PaymentNext
    BY <2>3, <2>4, <2>5, <2>6
    DEF PaymentNext, PaymentSucceededNotice, FinalizeOrderPayment, CheckPayable,
        CreatePayment, IgnoreCapture, PaymentFailedNotice, ExpirePayment,
        ExpireOrphanOrder, Cancel, refundVars
  <2>7. CASE ResolveRefund \/ ResolvePartialSplit
    <3>1. PICK k \in {DisputeRefundKey, SplitKey}, amount \in {Total, PD} :
            DecideForBuyer(amount, k) /\ (k = DisputeRefundKey => amount = Total)
      BY <2>7 DEF ResolveRefund, ResolvePartialSplit, SplitKey, DisputeRefundKey
    <3>2. CASE /\ MayDecideEscalated
               /\ refunds' = [refunds EXCEPT ![opened] =
                    [@ EXCEPT !.status = "admin_refunded", !.gateway = "pending",
                              !.key = AdminKey]]
      <4>1. opened \in Rows
        BY <3>2, LatestExists DEF IInv, MayDecideEscalated
      <4>2. [refunds[opened] EXCEPT !.status = "admin_refunded", !.gateway = "pending",
                                    !.key = AdminKey].key = AdminKey
        BY <4>1 DEF IInv, TypeOK, Row
      <4>3. QED
        BY <2>2, <2>3, <3>2, <4>1, <4>2, ChangedKey DEF AdminKey, IInv, TypeOK
    <3>3. CASE MayRefundDirectly(amount) /\ AddRow(SystemRow(k, amount))
      <4>1. k = SplitKey
        BY <2>1, <3>1, <3>3 DEF MayRefundDirectly
      <4>2. SystemRow(k, amount).key = k
        BY DEF SystemRow
      <4>3. QED
        BY <2>2, <2>3, <3>3, <4>1, <4>2, AppendedKey
    <3>4. QED
      BY <2>4, <3>1, <3>2, <3>3 DEF DecideForBuyer, refundVars
  <2>8. CASE ResolveRelease
    <3>1. CASE /\ opened > 0
               /\ refunds' = [refunds EXCEPT ![opened].status = "admin_released"]
      BY <2>3, <3>1, LatestExists DEF IInv, TypeOK, Row, NothingWhole
    <3>2. QED
      BY <2>4, <2>8, <3>1 DEF ResolveRelease, refundVars
  <2>9. CASE OrderNext
    BY <2>1, <2>4, <2>7, <2>8, <2>9
    DEF OrderNext, MarkShipped, Complete, CancelOverdue, MayCancelOverdue,
        FindUnshippedOfBannedUser, RefundOrder, MayRefundForBan, OpenDispute, dbVars,
        refundVars
  <2>10. CASE CreateRefund
    <3>1. PICK row : AddRow(row) /\ row.key = NoKey
      <4>1. PICK p \in BuyerPolicies :
              AddRow([NoRow EXCEPT !.status = "pending_seller_review", !.policy = p])
        BY <2>10 DEF CreateRefund
      <4>2. [NoRow EXCEPT !.status = "pending_seller_review", !.policy = p].key = NoKey
        BY DEF NoRow
      <4>3. QED
        BY <4>1, <4>2
    <3>2. QED
      BY <2>2, <2>3, <3>1, AppendedKey
  <2>11. ASSUME NEW r \in Rows,
                \/ ApproveRefund(r) \/ RejectRefund(r) \/ EscalateRefund(r)
                \/ RefundAckSucceeded(r) \/ RefundAckFailed(r)
                \/ Rec6AckSucceeded(r) \/ Rec6Dispatch(r)
         PROVE  NothingWhole'
    <3>1. CASE ApproveRefund(r)
      <4>1. PICK row : refunds' = [refunds EXCEPT ![r] = row] /\ row.key = SellerKey(r)
        <5> DEFINE row == [refunds[r] EXCEPT !.status = "seller_approved",
                             !.gateway = "pending", !.key = SellerKey(r),
                             !.shipping = ApprovedShipping(r)]
        <5>1. refunds' = [refunds EXCEPT ![r] = row]
          BY <3>1 DEF ApproveRefund, IInv, TypeOK
        <5>2. row.key = SellerKey(r)
          BY DEF IInv, TypeOK, Row
        <5> HIDE DEF row
        <5>3. QED
          BY <5>1, <5>2
      <4>2. QED
        BY <2>2, <4>1, ChangedKey
    <3>2. CASE RefundAckSucceeded(r)
      <4>1. SucceededRow(r).key = refunds[r].key
        BY DEF SucceededRow, IInv, TypeOK, Row
      <4>2. refunds[r].key \notin WholeKeys
        BY DEF NothingWhole
      <4>3. QED
        BY <3>2, <4>1, <4>2, ChangedKey DEF RefundAckSucceeded
    <3>3. CASE RejectRefund(r) \/ EscalateRefund(r)
      BY <3>3 DEF RejectRefund, EscalateRefund, NothingWhole, IInv, TypeOK, Row
    <3>4. CASE RefundAckFailed(r) \/ Rec6AckSucceeded(r) \/ Rec6Dispatch(r)
      BY <3>4
      DEF RefundAckFailed, Rec6AckSucceeded, Rec6Dispatch, Rec6Answered,
          Rec6Unanswered, NothingWhole, IInv, TypeOK, Row
    <3>5. QED
      BY <2>11, <3>1, <3>2, <3>3, <3>4
  <2>12. CASE RefundNext
    BY <2>3, <2>4, <2>10, <2>11, <2>12
    DEF RefundNext, RefundResponseLost, NotificationDropped, dbVars, refundVars
  <2>13. CASE EnvironmentNext \/ UNCHANGED vars
    BY <2>4, <2>13
    DEF EnvironmentNext, PaymentDeadlinePasses, GracePeriodEnds, WindowMoves,
        GatewayCharges, GatewaySettles, GatewayDenies, vars, dbVars, refundVars
  <2>14. QED
    BY <2>6, <2>9, <2>12, <2>13 DEF Next
<1> HIDE DEF I
<1>3. Spec => []I
  BY <1>1, <1>2, Invariance, PTL DEF Spec
<1>4. QED
  BY <1>3 DEF I

================================================================================
