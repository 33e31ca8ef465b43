------------------------------ MODULE Rec6Dispatch ------------------------------
(***************************************************************************)
(* Sending one REC-6 refund, the return of a charge the gateway captured    *)
(* for an order that could no longer be paid, in the steps it really takes: *)
(* a worker claims the row in one transaction, calls the gateway outside    *)
(* any, and persists the outcome in another.  Several server processes run  *)
(* the worker; each may crash between any two steps or be so slow that the  *)
(* claim passes to another, while the gateway's notifications come in when  *)
(* they please.  OrderSettlement has all this as one action, Rec6Dispatch;   *)
(* OrderStep at the end says that it is right to.                           *)
(***************************************************************************)
EXTENDS Integers, FiniteSets

CONSTANTS
  Workers,    \* the server processes running the dispatch worker
  Payment,    \* the payment whose charge is refunded
  Amount      \* payments.gross_amount, all of which is refunded

ASSUME WorkersAssumption == Payment \notin Workers /\ Workers # {}
ASSUME AmountAssumption == Amount \in Nat \ {0}

VARIABLES
  gatewayStatus,   \* refunds.gateway_status
  requested,       \* refunds.gateway_requested_at IS NOT NULL
  stale,           \* refunds.updated_at is older than the recovery grace
  pc,              \* what each worker does with the row
  gateway,         \* refund requests at the gateway, by refund_key
  notices          \* notifications on their way to the webhook

rowVars == <<gatewayStatus, requested, stale>>
vars == <<rowVars, pc, gateway, notices>>

(* Mutant of Rec6IdempotencyKey: a key per dispatch. *)
KeyOfDispatch(w) == w

(* The merchant key depends on the payment alone, not on the worker or the  *)
(* attempt.  A request under any other key would be a refund of its own.    *)
Rec6IdempotencyKey(w) == Payment
Keys == Workers \cup {Payment}

Held(k) == gateway[k] \in {"accepted", "settled"}

Init ==
  /\ gatewayStatus = "unsubmitted" /\ requested = FALSE /\ stale = FALSE
  /\ pc = [w \in Workers |-> "idle"]
  /\ gateway = [k \in Keys |-> "none"] /\ notices = {}

--------------------------------------------------------------------------------
(* The dispatch worker. *)

GraceElapses ==
  /\ gatewayStatus = "pending" /\ ~stale
  /\ stale' = TRUE
  /\ UNCHANGED <<gatewayStatus, requested, pc, gateway, notices>>

(* Mutants of Claim: a status the table's constraint does not admit, and a  *)
(* scan without crash recovery.                                             *)
ClaimAsProcessing(w) ==
  /\ pc[w] = "idle"
  /\ gatewayStatus \in {"unsubmitted", "failed"}
  /\ gatewayStatus' = "processing" /\ stale' = FALSE
  /\ pc' = [pc EXCEPT ![w] = "claimed"]
  /\ UNCHANGED <<requested, gateway, notices>>

ClaimFreshOnly(w) ==
  /\ pc[w] = "idle"
  /\ gatewayStatus \in {"unsubmitted", "failed"}
  /\ gatewayStatus' = "pending" /\ stale' = FALSE
  /\ pc' = [pc EXCEPT ![w] = "claimed"]
  /\ UNCHANGED <<requested, gateway, notices>>

(* claimRec6DispatchBatch: fresh or failed rows, and rows claimed before    *)
(* whose submission was not recorded within the grace.                      *)
Claim(w) ==
  /\ pc[w] = "idle"
  /\ \/ gatewayStatus \in {"unsubmitted", "failed"}
     \/ gatewayStatus = "pending" /\ ~requested /\ stale
  /\ gatewayStatus' = "pending" /\ stale' = FALSE
  /\ pc' = [pc EXCEPT ![w] = "claimed"]
  /\ UNCHANGED <<requested, gateway, notices>>

(* The gateway takes the request, or finds that it has taken it before.     *)
Submit(w) ==
  gateway' = [gateway EXCEPT ![Rec6IdempotencyKey(w)] =
                IF Held(Rec6IdempotencyKey(w)) THEN @ ELSE "accepted"]

SendAccepted(w) ==
  /\ pc[w] = "claimed"
  /\ Submit(w)
  /\ pc' = [pc EXCEPT ![w] = "accepted"]
  /\ UNCHANGED <<rowVars, notices>>

(* The call fails: the gateway never got the request, or it took it and the *)
(* response was lost.                                                       *)
SendFailed(w) ==
  /\ pc[w] = "claimed"
  /\ UNCHANGED gateway \/ Submit(w)
  /\ pc' = [pc EXCEPT ![w] = "refused"]
  /\ UNCHANGED <<rowVars, notices>>

(* Mutant of PersistSuccess: submitted is taken for confirmed. *)
PersistConfirmed(w) ==
  /\ pc[w] = "accepted"
  /\ \/ /\ gatewayStatus = "pending"
        /\ gatewayStatus' = "succeeded" /\ requested' = TRUE /\ stale' = FALSE
     \/ gatewayStatus # "pending" /\ UNCHANGED rowVars
  /\ pc' = [pc EXCEPT ![w] = "idle"]
  /\ UNCHANGED <<gateway, notices>>

(* Both writes of an outcome insist that the row is still pending.          *)
PersistSuccess(w) ==
  /\ pc[w] = "accepted"
  /\ \/ /\ gatewayStatus = "pending"
        /\ requested' = TRUE /\ stale' = FALSE
        /\ UNCHANGED gatewayStatus
     \/ gatewayStatus # "pending" /\ UNCHANGED rowVars
  /\ pc' = [pc EXCEPT ![w] = "idle"]
  /\ UNCHANGED <<gateway, notices>>

(* Mutant of PersistFailure: whatever has become of the row. *)
PersistFailureBlindly(w) ==
  /\ pc[w] \in {"accepted", "refused"}
  /\ gatewayStatus' = "failed" /\ stale' = FALSE
  /\ pc' = [pc EXCEPT ![w] = "idle"]
  /\ UNCHANGED <<requested, gateway, notices>>

(* Also what follows an outcome that could not be persisted as a success.   *)
PersistFailure(w) ==
  /\ pc[w] \in {"accepted", "refused"}
  /\ \/ /\ gatewayStatus = "pending"
        /\ gatewayStatus' = "failed" /\ stale' = FALSE
        /\ UNCHANGED requested
     \/ gatewayStatus # "pending" /\ UNCHANGED rowVars
  /\ pc' = [pc EXCEPT ![w] = "idle"]
  /\ UNCHANGED <<gateway, notices>>

(* The process dies, or can persist nothing at all. *)
Crash(w) ==
  /\ pc[w] # "idle"
  /\ pc' = [pc EXCEPT ![w] = "idle"]
  /\ UNCHANGED <<rowVars, gateway, notices>>

--------------------------------------------------------------------------------
(* The gateway, and HandleGatewayRefundAck for a REC-6 row.                 *)

GatewaySettles(k) ==
  /\ gateway[k] = "accepted"
  /\ gateway' = [gateway EXCEPT ![k] = "settled"]
  /\ notices' = notices \cup {"success"}
  /\ UNCHANGED <<rowVars, pc>>

GatewayDenies(k) ==
  /\ gateway[k] = "accepted"
  /\ gateway' = [gateway EXCEPT ![k] = "denied"]
  /\ notices' = notices \cup {"failure"}
  /\ UNCHANGED <<rowVars, pc>>

AckSucceeded ==
  /\ "success" \in notices
  /\ gatewayStatus' = IF gatewayStatus \in {"pending", "failed"}
                        THEN "succeeded" ELSE gatewayStatus
  /\ stale' = FALSE
  /\ notices' = notices \ {"success"}
  /\ UNCHANGED <<requested, pc, gateway>>

(* A confirmed refund does not fail any more; a failed one already has.     *)
AckFailed ==
  /\ "failure" \in notices
  /\ \/ /\ gatewayStatus \in {"unsubmitted", "pending"}
        /\ gatewayStatus' = "failed" /\ stale' = FALSE
     \/ gatewayStatus \in {"failed", "succeeded"} /\ UNCHANGED <<gatewayStatus, stale>>
  /\ notices' = notices \ {"failure"}
  /\ UNCHANGED <<requested, pc, gateway>>

Next ==
  \/ GraceElapses
  \/ \E w \in Workers : \/ Claim(w) \/ SendAccepted(w) \/ SendFailed(w)
                        \/ PersistSuccess(w) \/ PersistFailure(w) \/ Crash(w)
  \/ \E k \in Keys : GatewaySettles(k) \/ GatewayDenies(k)
  \/ AckSucceeded \/ AckFailed

Spec == Init /\ [][Next]_vars

(* Some process keeps polling, time passes, the gateway settles what it     *)
(* holds and delivers its notices.  Calls may fail and processes crash over *)
(* and over, but not every single time, hence strong fairness of a call     *)
(* that goes through.                                                       *)
FairSpec ==
  /\ Spec
  /\ WF_vars(GraceElapses)
  /\ WF_vars(\E w \in Workers : Claim(w))
  /\ SF_vars(\E w \in Workers : SendAccepted(w))
  /\ \A w \in Workers : WF_vars(PersistSuccess(w) \/ PersistFailure(w))
  /\ \A k \in Keys : WF_vars(GatewaySettles(k) \/ GatewayDenies(k))
  /\ WF_vars(AckSucceeded) /\ WF_vars(AckFailed)

--------------------------------------------------------------------------------
(* Properties. *)

TypeOK ==
  /\ gatewayStatus \in {"unsubmitted", "pending", "succeeded", "failed"}
  /\ requested \in BOOLEAN /\ stale \in BOOLEAN
  /\ pc \in [Workers -> {"idle", "claimed", "accepted", "refused"}]
  /\ gateway \in [Keys -> {"none", "accepted", "settled", "denied"}]
  /\ notices \subseteq {"success", "failure"}

(* However often the row is claimed and sent, by however many workers, the  *)
(* gateway holds one refund of the charge at most: what makes re-sending    *)
(* after a crash or a lost response safe.                                   *)
OneRefundAtGateway == Cardinality({k \in Keys : Held(k)}) <= 1

(* The row says succeeded only of a refund the gateway has settled: neither *)
(* a claim nor a submission counts as a confirmation.                       *)
ConfirmedOnlyIfSettled ==
  gatewayStatus = "succeeded" => \E k \in Keys : gateway[k] = "settled"

(* A row recorded as submitted, which no later scan claims again, is one    *)
(* the gateway did receive.                                                 *)
SubmittedWasReceived ==
  requested => \E k \in Keys : gateway[k] # "none"

(* A confirmed refund stays confirmed: the outcome of a slow worker or a    *)
(* late failure notice does not overwrite it, and no scan sends it again.   *)
ConfirmedStays ==
  [][gatewayStatus = "succeeded" =>
       /\ gatewayStatus' = "succeeded"
       /\ \A w \in Workers : pc'[w] = "claimed" => pc[w] = "claimed"]_vars

(* As long as the gateway turns nothing down, the buyer gets the money and  *)
(* the row says so, for all the crashes, lost responses and reclaims.       *)
RefundIsConfirmed ==
  [](\A k \in Keys : gateway[k] # "denied") => <>[](gatewayStatus = "succeeded")

(* "A crash between (1) and (3) leaves the row durable and retryable"       *)
(* (refund_rec6_dispatch.go): an intent due for sending is sent in the end. *)
IntentReachesGateway ==
  (gatewayStatus \in {"unsubmitted", "failed"}) ~> Held(Payment)

(* The dispatch seen from the order: its refund row, the request under the  *)
(* row's key, and the rest as RefundCaptureOfInvalidOrder leaves it with an *)
(* order that has expired.                                                  *)
OrderKeys == ({"seller", "admin"} \X {1}) \cup
             ({"overdue", "manual", "dispute", "split", "rec6"} \X {0})
RowOfOrder ==
  [status |-> "system_refunded", gateway |-> gatewayStatus, key |-> <<"rec6", 0>>,
   policy |-> "rec6", shipping |-> 0]
RequestOfOrder(k) ==
  IF k = <<"rec6", 0>> /\ gateway[Payment] # "none"
  THEN [state |-> gateway[Payment], amount |-> Amount]
  ELSE [state |-> "none", amount |-> 0]

Order == INSTANCE OrderSettlement WITH
  PD <- Amount, S <- 0, K <- 0, Fee <- 0, MaxRefunds <- 1, Notices <- {"capture"},
  OrderRef <- Payment, ChargeRef <- Payment,
  GatewayMayDeny <- TRUE, ResponsesMayBeLost <- TRUE,
  status <- "expired", hasDispute <- FALSE, checkout <- "done", payment <- "failed",
  processed <- {"capture"}, escrow <- "none", dispute <- "none",
  refunds <- [r \in {1} |-> RowOfOrder], opened <- 1,
  held <- 0, toBuyer <- 0, toSeller <- 0, ban <- "idle",
  deadlinePassed <- TRUE, overdue <- FALSE, window <- "none", charge <- "captured",
  gateway <- [k \in OrderKeys |-> RequestOfOrder(k)],
  refundable <- IF Held(Payment) THEN 0 ELSE Amount

(* What the order sees of claims, calls, crashes, reclaims and late notices *)
(* are dispatches, acknowledgements and moves of the gateway as             *)
(* OrderSettlement has them: nothing the steps in between can do to the row *)
(* or at the gateway is missing there.                                      *)
OrderStep == [][Order!Next]_(Order!vars)

================================================================================
