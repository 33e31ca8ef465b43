--------------------------- MODULE Rec6Dispatch_proofs ---------------------------
(***************************************************************************)
(* Proofs about Rec6Dispatch, for any number of server processes.           *)
(***************************************************************************)
EXTENDS Rec6Dispatch, FiniteSetTheorems, TLAPS

--------------------------------------------------------------------------------
(* The inductive invariant.  All requests carry the payment's key, so the   *)
(* gateway knows none other; what the row, a worker and a notice say of the *)
(* request under it is so.                                                  *)

OneKeyUsed == \A k \in Keys : gateway[k] # "none" => k = Payment

Received == gateway[Payment] # "none"
Settled == gateway[Payment] = "settled"

RowIsTrue ==
  /\ gatewayStatus = "succeeded" => Settled
  /\ requested => Received

WorkersAreTrue ==
  \A w \in Workers : /\ pc[w] = "accepted" => Received
                     /\ pc[w] # "idle" => gatewayStatus # "unsubmitted"

NoticesAreTrue == "success" \in notices => Settled

IInv == TypeOK /\ OneKeyUsed /\ RowIsTrue /\ WorkersAreTrue /\ NoticesAreTrue

--------------------------------------------------------------------------------

LEMMA InitEstablishes == Init => IInv
BY DEF Init, IInv, TypeOK, OneKeyUsed, RowIsTrue, WorkersAreTrue, NoticesAreTrue

(* Steps that leave the gateway alone. *)
LEMMA PersistKeeps ==
  ASSUME IInv, NEW w \in Workers,
         Claim(w) \/ PersistSuccess(w) \/ PersistFailure(w) \/ Crash(w)
  PROVE  IInv'
<1> USE DEF IInv
<1>1. TypeOK'
  BY DEF TypeOK, Claim, PersistSuccess, PersistFailure, Crash, rowVars
<1>2. UNCHANGED <<gateway, notices>>
  BY DEF Claim, PersistSuccess, PersistFailure, Crash
<1>3. \A v \in Workers : pc'[v] = "accepted" => pc[v] = "accepted"
  BY DEF TypeOK, Claim, PersistSuccess, PersistFailure, Crash
<1>4. RowIsTrue'
  BY <1>2 DEF RowIsTrue, WorkersAreTrue, Received, Settled,
              Claim, PersistSuccess, PersistFailure, Crash, rowVars
<1>5. /\ gatewayStatus # "unsubmitted" => gatewayStatus' # "unsubmitted"
      /\ \A v \in Workers : pc'[v] # "idle" => pc[v] # "idle" \/ gatewayStatus' = "pending"
  BY DEF TypeOK, Claim, PersistSuccess, PersistFailure, Crash, rowVars
<1>6. (OneKeyUsed /\ WorkersAreTrue /\ NoticesAreTrue)'
  BY <1>2, <1>3, <1>5 DEF OneKeyUsed, WorkersAreTrue, NoticesAreTrue, Received, Settled
<1>7. QED
  BY <1>1, <1>4, <1>6

(* A request: the gateway knows it afterwards, or is as it was, and what it *)
(* has settled stays settled.                                               *)
LEMMA SendKeeps ==
  ASSUME IInv, NEW w \in Workers, SendAccepted(w) \/ SendFailed(w)
  PROVE  IInv'
<1> USE DEF IInv
<1>1. Payment \in Keys
  BY DEF Keys
<1>2. /\ gateway' \in [Keys -> {"none", "accepted", "settled", "denied"}]
      /\ \A k \in Keys : k # Payment => gateway'[k] = gateway[k]
      /\ Settled => Settled'
      /\ Received => Received'
  BY <1>1
  DEF TypeOK, SendAccepted, SendFailed, Submit, Held, Rec6IdempotencyKey, Settled, Received
<1>3. SendAccepted(w) => Received'
  BY <1>1
  DEF TypeOK, SendAccepted, Submit, Held, Rec6IdempotencyKey, Received
<1>4. UNCHANGED <<rowVars, notices>>
  BY DEF SendAccepted, SendFailed
<1>5. TypeOK'
  BY <1>2, <1>4 DEF TypeOK, rowVars, SendAccepted, SendFailed
<1>6. \A v \in Workers : /\ pc'[v] = "accepted" => pc[v] = "accepted" \/ SendAccepted(w)
                         /\ pc'[v] # "idle" => pc[v] # "idle"
  BY DEF TypeOK, SendAccepted, SendFailed
<1>7. OneKeyUsed'
  BY <1>2 DEF OneKeyUsed
<1>8. (RowIsTrue /\ NoticesAreTrue)'
  BY <1>2, <1>4 DEF RowIsTrue, NoticesAreTrue, rowVars
<1>9. WorkersAreTrue'
  BY <1>2, <1>3, <1>4, <1>6 DEF WorkersAreTrue, rowVars
<1>10. QED
  BY <1>5, <1>7, <1>8, <1>9

LEMMA GatewayKeeps ==
  ASSUME IInv, NEW k \in Keys, GatewaySettles(k) \/ GatewayDenies(k)
  PROVE  IInv'
<1> USE DEF IInv
<1>1. k = Payment /\ ~Settled
  BY DEF OneKeyUsed, Settled, GatewaySettles, GatewayDenies
<1>2. TypeOK' /\ OneKeyUsed'
  BY DEF TypeOK, OneKeyUsed, GatewaySettles, GatewayDenies, rowVars
<1>3. Received' /\ (GatewaySettles(k) => Settled')
  BY <1>1 DEF TypeOK, Received, Settled, GatewaySettles, GatewayDenies
<1>4. (RowIsTrue /\ WorkersAreTrue)'
  BY <1>1, <1>3 DEF RowIsTrue, WorkersAreTrue, GatewaySettles, GatewayDenies, rowVars
<1>5. NoticesAreTrue'
  BY <1>1, <1>3 DEF NoticesAreTrue, GatewaySettles, GatewayDenies
<1>6. QED
  BY <1>2, <1>4, <1>5

LEMMA NextKeeps == IInv /\ [Next]_vars => IInv'
<1> SUFFICES ASSUME IInv, [Next]_vars PROVE IInv'
  OBVIOUS
<1> USE DEF IInv, TypeOK, OneKeyUsed, RowIsTrue, WorkersAreTrue, NoticesAreTrue,
            Received, Settled
<1>1. CASE GraceElapses
  BY <1>1 DEF GraceElapses
<1>2. ASSUME NEW w \in Workers,
             Claim(w) \/ PersistSuccess(w) \/ PersistFailure(w) \/ Crash(w)
      PROVE  IInv'
  BY <1>2, PersistKeeps
<1>3. ASSUME NEW w \in Workers, SendAccepted(w) \/ SendFailed(w) PROVE IInv'
  BY <1>3, SendKeeps
<1>4. ASSUME NEW k \in Keys, GatewaySettles(k) \/ GatewayDenies(k) PROVE IInv'
  BY <1>4, GatewayKeeps
<1>5. CASE AckSucceeded
  BY <1>5 DEF AckSucceeded
<1>6. CASE AckFailed
  BY <1>6 DEF AckFailed
<1>7. CASE UNCHANGED vars
  BY <1>7 DEF vars, rowVars
<1>8. QED
  BY <1>1, <1>2, <1>3, <1>4, <1>5, <1>6, <1>7 DEF Next

--------------------------------------------------------------------------------
(* The theorems. *)

(* The invariant holds: one key, and what is recorded of it is so.          *)
THEOREM Invariance == Spec => []IInv
BY InitEstablishes, NextKeeps, PTL DEF Spec

(* The types, with any number of processes. *)
THEOREM TypeCorrect == Spec => []TypeOK
<1>1. IInv => TypeOK
  BY DEF IInv
<1>2. QED
  BY <1>1, Invariance, PTL

(* The gateway holds one refund of the charge at most. *)
THEOREM RefundedOnce == Spec => []OneRefundAtGateway
<1>1. IInv => OneRefundAtGateway
  <2> SUFFICES ASSUME IInv PROVE Cardinality({k \in Keys : Held(k)}) <= 1
    BY DEF OneRefundAtGateway
  <2>1. {k \in Keys : Held(k)} \subseteq {Payment}
    BY DEF IInv, OneKeyUsed, Held
  <2>2. IsFiniteSet({Payment}) /\ Cardinality({Payment}) = 1
    BY FS_Singleton
  <2>3. Cardinality({k \in Keys : Held(k)}) <= Cardinality({Payment})
    BY <2>1, <2>2, FS_Subset
  <2>4. QED
    BY <2>2, <2>3
<1>2. QED
  BY <1>1, Invariance, PTL

(* What the row calls confirmed the gateway has settled.                    *)
THEOREM ConfirmedTruly == Spec => []ConfirmedOnlyIfSettled
<1>1. IInv => ConfirmedOnlyIfSettled
  BY DEF IInv, RowIsTrue, Settled, ConfirmedOnlyIfSettled, Keys
<1>2. QED
  BY <1>1, Invariance, PTL

(* What the row calls submitted the gateway has received.                   *)
THEOREM SubmittedTruly == Spec => []SubmittedWasReceived
<1>1. IInv => SubmittedWasReceived
  BY DEF IInv, RowIsTrue, Received, SubmittedWasReceived, Keys
<1>2. QED
  BY <1>1, Invariance, PTL

(* A confirmed refund stays confirmed and is not claimed again.             *)
THEOREM ConfirmedForGood == Spec => ConfirmedStays
<1> DEFINE Stays ==
      gatewayStatus = "succeeded" =>
        /\ gatewayStatus' = "succeeded"
        /\ \A w \in Workers : pc'[w] = "claimed" => pc[w] = "claimed"
<1>1. IInv /\ [Next]_vars => Stays
  <2> SUFFICES ASSUME IInv, [Next]_vars, gatewayStatus = "succeeded"
               PROVE  /\ gatewayStatus' = "succeeded"
                      /\ \A w \in Workers : pc'[w] = "claimed" => pc[w] = "claimed"
    OBVIOUS
  <2>1. ASSUME NEW w \in Workers,
               \/ Claim(w) \/ SendAccepted(w) \/ SendFailed(w)
               \/ PersistSuccess(w) \/ PersistFailure(w) \/ Crash(w)
        PROVE  /\ gatewayStatus' = "succeeded"
               /\ \A v \in Workers : pc'[v] = "claimed" => pc[v] = "claimed"
    BY <2>1
    DEF IInv, TypeOK, Claim, SendAccepted, SendFailed, PersistSuccess, PersistFailure,
        Crash, rowVars
  <2>2. CASE UNCHANGED pc
    BY <2>2
    DEF Next, vars, rowVars, IInv, TypeOK, GraceElapses, Claim, SendAccepted, SendFailed,
        PersistSuccess, PersistFailure, Crash, GatewaySettles, GatewayDenies,
        AckSucceeded, AckFailed
  <2>3. CASE ~UNCHANGED pc
    BY <2>1, <2>3
    DEF Next, vars, GraceElapses, GatewaySettles, GatewayDenies, AckSucceeded, AckFailed
  <2>4. QED
    BY <2>2, <2>3
<1>2. IInv /\ [Next]_vars => [Stays]_vars
  BY <1>1
<1>3. QED
  BY <1>2, Invariance, PTL DEF Spec, ConfirmedStays

--------------------------------------------------------------------------------
(* The dispatch implements OrderSettlement's.                               *)

(* The order's keys and rows, as the instance has them.                     *)
LEMMA OneRowOfOrder ==
  /\ Order!Rows = {1} /\ Order!Keys = OrderKeys /\ Order!Rec6Key = <<"rec6", 0>>
  /\ Order!Rec6Key \in OrderKeys /\ Order!Gross = Amount
<1>1. Order!Rows = {1}
  BY DEF Order!Rows
<1>2. Order!Rec6Key = <<"rec6", 0>> /\ Order!Keys = OrderKeys
  BY <1>1 DEF Order!Rec6Key, Order!Keys, Order!SystemKeys, OrderKeys
<1>3. Order!Rec6Key \in OrderKeys
  BY <1>2 DEF OrderKeys
<1>4. Order!Gross = Amount
  BY AmountAssumption DEF Order!Gross
<1>5. QED
  BY <1>1, <1>2, <1>3, <1>4

Requests == [k \in OrderKeys |-> RequestOfOrder(k)]

(* A change of the request under the payment's key is one of the order's    *)
(* request, and of no other.                                                *)
LEMMA RequestMoves ==
  ASSUME NEW s \in {"accepted", "settled", "denied"}, IInv,
         gateway' = [gateway EXCEPT ![Payment] = s]
  PROVE  Requests' = [Requests EXCEPT ![Order!Rec6Key] = [state |-> s, amount |-> Amount]]
<1>1. gateway'[Payment] = s
  BY DEF IInv, TypeOK, Keys
<1>2. \A k \in OrderKeys :
        RequestOfOrder(k)' = IF k = Order!Rec6Key THEN [state |-> s, amount |-> Amount]
                                                  ELSE RequestOfOrder(k)
  BY <1>1, OneRowOfOrder DEF RequestOfOrder
<1>3. QED
  BY <1>2 DEF Requests

(* What the order sees of the request.                                      *)
LEMMA RequestIs ==
  ASSUME IInv
  PROVE  /\ Requests[Order!Rec6Key].state = gateway[Payment]
         /\ gateway[Payment] # "none" => Requests[Order!Rec6Key].amount = Amount
BY OneRowOfOrder DEF Requests, RequestOfOrder

(* A call that reaches the gateway is taken there as the order's would be.  *)
LEMMA SubmitIsAccepted ==
  ASSUME IInv, NEW w \in Workers, Submit(w)
  PROVE  Order!GatewayAccepts(Order!Rec6Key, Payment, Order!Gross)
<1>1. Payment \in Keys
  BY DEF Keys
<1>2. CASE Held(Payment)
  <2>1. gateway' = gateway
    BY <1>1, <1>2 DEF Submit, Rec6IdempotencyKey, IInv, TypeOK
  <2>2. UNCHANGED Order!gatewayVars
    BY <2>1 DEF Order!gatewayVars, RequestOfOrder, Held
  <2>3. Requests[Order!Rec6Key].state \in {"accepted", "settled", "dropped"}
    BY <1>2, RequestIs DEF Held
  <2>4. QED
    BY <2>2, <2>3 DEF Order!GatewayAccepts, Requests
<1>3. CASE ~Held(Payment)
  <2>1. gateway' = [gateway EXCEPT ![Payment] = "accepted"]
    BY <1>3 DEF Submit, Rec6IdempotencyKey
  <2>2. Requests' = [Requests EXCEPT ![Order!Rec6Key] =
                       [state |-> "accepted", amount |-> Order!Gross]]
    BY <2>1, RequestMoves, OneRowOfOrder
  <2>3. Requests[Order!Rec6Key].state \in {"none", "denied"}
    BY <1>1, <1>3, RequestIs DEF Held, IInv, TypeOK
  <2>4. Held(Payment)'
    BY <1>1, <2>1 DEF Held, IInv, TypeOK
  <2>5. QED
    BY <1>3, <2>2, <2>3, <2>4, OneRowOfOrder, AmountAssumption
    DEF Order!GatewayAccepts, Requests
<1>4. QED
  BY <1>2, <1>3

(* A worker's step on the row or at the gateway is a dispatch of the order. *)
LEMMA IsDispatch ==
  ASSUME gatewayStatus \in {"unsubmitted", "pending", "failed"},
         gatewayStatus' \in {"pending", "failed"},
         \/ Order!GatewayAccepts(Order!Rec6Key, Payment, Order!Gross)
         \/ UNCHANGED Order!gatewayVars
  PROVE  Order!Next
<1>1. Order!Rec6Dispatch(1)
  BY DEF Order!Rec6Dispatch, Order!Rec6Unanswered, RowOfOrder, Order!orderVars,
         Order!paymentVars, Order!ledgerVars, Order!clockVars
<1>2. QED
  BY <1>1, OneRowOfOrder DEF Order!Next, Order!RefundNext

LEMMA WorkerIsOrderStep ==
  ASSUME IInv, IInv', NEW w \in Workers,
         \/ Claim(w) \/ SendAccepted(w) \/ SendFailed(w)
         \/ PersistSuccess(w) \/ PersistFailure(w) \/ Crash(w)
  PROVE  [Order!Next]_(Order!vars)
<1>1. CASE UNCHANGED <<gatewayStatus, gateway>>
  BY <1>1
  DEF Order!vars, Order!dbVars, Order!orderVars, Order!paymentVars, Order!refundVars,
      Order!ledgerVars, Order!clockVars, Order!gatewayVars, RowOfOrder, RequestOfOrder,
      Held
<1>2. CASE Claim(w) \/ PersistSuccess(w) \/ PersistFailure(w) \/ Crash(w)
  <2>1. UNCHANGED gateway
    BY <1>2 DEF Claim, PersistSuccess, PersistFailure, Crash
  <2>2. UNCHANGED Order!gatewayVars
    BY <2>1 DEF Order!gatewayVars, RequestOfOrder, Held
  <2>3. CASE gatewayStatus' # gatewayStatus
    <3>1. gatewayStatus \in {"unsubmitted", "pending", "failed"} /\
          gatewayStatus' \in {"pending", "failed"}
      BY <1>2, <2>3 DEF Claim, PersistSuccess, PersistFailure, Crash, rowVars
    <3>2. QED
      BY <2>2, <3>1, IsDispatch
  <2>4. QED
    BY <1>1, <2>1, <2>3
<1>3. CASE SendAccepted(w) \/ SendFailed(w)
  <2>1. UNCHANGED gatewayStatus /\ gatewayStatus # "unsubmitted"
    BY <1>3 DEF SendAccepted, SendFailed, rowVars, IInv, WorkersAreTrue
  <2>2. CASE UNCHANGED gateway
    BY <1>1, <2>1, <2>2
  <2>3. CASE gateway' # gateway
    <3>1. Submit(w)
      BY <1>3, <2>3 DEF SendAccepted, SendFailed
    <3>2. gatewayStatus # "succeeded"
      <4>1. SUFFICES ASSUME Settled PROVE gateway' = gateway
        BY <2>3 DEF IInv, RowIsTrue
      <4>2. QED
        BY <3>1, <4>1 DEF Submit, Rec6IdempotencyKey, Held, Settled, IInv, TypeOK, Keys
    <3>3. gatewayStatus \in {"pending", "failed"}
      BY <2>1, <3>2 DEF IInv, TypeOK
    <3>4. QED
      BY <2>1, <3>1, <3>3, SubmitIsAccepted, IsDispatch
  <2>4. QED
    BY <2>2, <2>3
<1>4. QED
  BY <1>2, <1>3

LEMMA GatewayIsOrderStep ==
  ASSUME IInv, NEW k \in Keys, GatewaySettles(k) \/ GatewayDenies(k)
  PROVE  Order!Next
<1>1. k = Payment /\ gateway[Payment] = "accepted" /\ UNCHANGED gatewayStatus
  BY DEF IInv, OneKeyUsed, GatewaySettles, GatewayDenies, rowVars
<1>2. Held(Payment) /\ Payment \in Keys
  BY <1>1 DEF Held
<1>3. Requests[Order!Rec6Key] = [state |-> "accepted", amount |-> Amount]
  BY <1>1, OneRowOfOrder DEF Requests, RequestOfOrder
<1>4. \A s : [Requests EXCEPT ![Order!Rec6Key].state = s] =
             [Requests EXCEPT ![Order!Rec6Key] = [state |-> s, amount |-> Amount]]
  <2>1. \A s : [[state |-> "accepted", amount |-> Amount] EXCEPT !.state = s] =
               [state |-> s, amount |-> Amount]
    OBVIOUS
  <2>2. \A s : [Requests EXCEPT ![Order!Rec6Key].state = s] =
               [Requests EXCEPT ![Order!Rec6Key] =
                  [[state |-> "accepted", amount |-> Amount] EXCEPT !.state = s]]
    BY <1>3, Zenon
  <2>3. QED
    BY <2>1, <2>2
<1>5. CASE GatewaySettles(k)
  <2>1. gateway' = [gateway EXCEPT ![Payment] = "settled"] /\ Held(Payment)'
    BY <1>1, <1>2, <1>5 DEF GatewaySettles, Held, IInv, TypeOK
  <2>2. Requests' = [Requests EXCEPT ![Order!Rec6Key].state = "settled"]
    BY <1>4, <2>1, RequestMoves
  <2>3. Order!GatewaySettles(Order!Rec6Key)
    BY <1>1, <1>2, <1>3, <2>1, <2>2
    DEF Order!GatewaySettles, Order!dbVars, Order!orderVars, Order!paymentVars,
        Order!refundVars, Order!ledgerVars, Order!clockVars, RowOfOrder, Requests
  <2>4. QED
    BY <2>3, OneRowOfOrder DEF Order!Next, Order!EnvironmentNext
<1>6. CASE GatewayDenies(k)
  <2>1. gateway' = [gateway EXCEPT ![Payment] = "denied"] /\ ~Held(Payment)'
    BY <1>1, <1>2, <1>6 DEF GatewayDenies, Held, IInv, TypeOK
  <2>2. Requests' = [Requests EXCEPT ![Order!Rec6Key].state = "denied"]
    BY <1>4, <2>1, RequestMoves
  <2>3. Order!GatewayDenies(Order!Rec6Key)
    BY <1>1, <1>2, <1>3, <2>1, <2>2, AmountAssumption
    DEF Order!GatewayDenies, Order!dbVars, Order!orderVars, Order!paymentVars,
        Order!refundVars, Order!ledgerVars, Order!clockVars, RowOfOrder, Requests
  <2>4. QED
    BY <2>3, OneRowOfOrder DEF Order!Next, Order!EnvironmentNext
<1>7. QED
  BY <1>5, <1>6

LEMMA AckIsOrderStep ==
  ASSUME IInv, AckSucceeded \/ AckFailed
  PROVE  [Order!Next]_(Order!vars)
<1>1. UNCHANGED gateway
  BY DEF AckSucceeded, AckFailed
<1>2. UNCHANGED Order!gatewayVars
  BY <1>1 DEF Order!gatewayVars, RequestOfOrder, Held
<1>3. CASE UNCHANGED gatewayStatus
  BY <1>2, <1>3
  DEF Order!vars, Order!dbVars, Order!orderVars, Order!paymentVars, Order!refundVars,
      Order!ledgerVars, Order!clockVars, RowOfOrder
<1>4. CASE AckSucceeded /\ gatewayStatus' # gatewayStatus
  <2>1. gatewayStatus \in {"pending", "failed"} /\ gatewayStatus' = "succeeded"
    BY <1>4 DEF AckSucceeded
  <2>2. Requests[Order!Rec6Key].state = "settled"
    BY <1>4, RequestIs DEF AckSucceeded, IInv, NoticesAreTrue, Settled
  <2>3. Order!Rec6AckSucceeded(1)
    BY <1>2, <2>1, <2>2, OneRowOfOrder
    DEF Order!Rec6AckSucceeded, Order!MovesMoney, Order!orderVars, Order!paymentVars,
        Order!ledgerVars, Order!clockVars, RowOfOrder, Requests
  <2>4. QED
    BY <2>3, OneRowOfOrder DEF Order!Next, Order!RefundNext
<1>5. CASE AckFailed /\ gatewayStatus' # gatewayStatus
  BY <1>2, <1>5, IsDispatch DEF AckFailed
<1>6. QED
  BY <1>3, <1>4, <1>5

(* Every step of the workers, the gateway and the webhook is one the order  *)
(* allows for, or invisible to it: OrderSettlement may take the dispatch of *)
(* a REC-6 refund for one action.                                           *)
THEOREM DispatchOfOrder == Spec => OrderStep
<1>1. IInv /\ IInv' /\ [Next]_vars => [Order!Next]_(Order!vars)
  <2> SUFFICES ASSUME IInv, IInv', [Next]_vars PROVE [Order!Next]_(Order!vars)
    OBVIOUS
  <2>1. CASE GraceElapses \/ UNCHANGED vars
    BY <2>1
    DEF GraceElapses, vars, rowVars, Order!vars, Order!dbVars, Order!orderVars,
        Order!paymentVars, Order!refundVars, Order!ledgerVars, Order!clockVars,
        Order!gatewayVars, RowOfOrder, RequestOfOrder, Held
  <2>2. ASSUME NEW w \in Workers,
               \/ Claim(w) \/ SendAccepted(w) \/ SendFailed(w)
               \/ PersistSuccess(w) \/ PersistFailure(w) \/ Crash(w)
        PROVE  [Order!Next]_(Order!vars)
    BY <2>2, WorkerIsOrderStep
  <2>3. ASSUME NEW k \in Keys, GatewaySettles(k) \/ GatewayDenies(k)
        PROVE  [Order!Next]_(Order!vars)
    BY <2>3, GatewayIsOrderStep
  <2>4. CASE AckSucceeded \/ AckFailed
    BY <2>4, AckIsOrderStep
  <2>5. QED
    BY <2>1, <2>2, <2>3, <2>4 DEF Next
<1>2. QED
  BY <1>1, Invariance, PTL DEF Spec, OrderStep

================================================================================
