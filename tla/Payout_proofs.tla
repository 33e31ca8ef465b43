------------------------------ MODULE Payout_proofs ------------------------------
(***************************************************************************)
(* Proofs about Payout, for any sellers, withdrawals, workers and callback  *)
(* handlers, any amounts and any number of retries.                         *)
(***************************************************************************)
EXTENDS Payout, FiniteSetTheorems, TLAPS

--------------------------------------------------------------------------------
(* The first invariant needs nothing of the gateway or the admins: a        *)
(* withdrawal has one reference for life, and whoever is at work on it      *)
(* knows it by that.                                                        *)

RefIsOwn == \A w \in Withdrawals : ref[w] # NoRef => ref[w][1] = w

Referred(r) == r \in Refs /\ ref[r[1]] = r

HeldIsReferred == \A k \in Workers : at[k] # "idle" => Referred(held[k])

HookIsReferred == \A h \in Hooks : hook[h] # IdleHook => Referred(hook[h].ref)

(* A withdrawal that is not approved has no reference yet, one the gateway  *)
(* may have heard of has one.                                               *)
Sent == {"SUBMITTED", "SETTLING", "SETTLED", "FAILED_RETRYABLE", "FAILED_FINAL"}
RefByStatus ==
  \A w \in Withdrawals :
    /\ status[w] \in {"NONE", "REQUESTED", "COMPLETED"} => ref[w] = NoRef
    /\ status[w] \in Sent => ref[w] # NoRef

UnderWay(w) == status[w] # "NONE" /\ ~IsFinal(status[w])
OneUnderWay ==
  \A v, w \in Withdrawals :
    SellerOf[v] = SellerOf[w] /\ UnderWay(v) /\ UnderWay(w) => v = w

Base ==
  /\ TypeOK /\ RefIsOwn /\ HeldIsReferred /\ HookIsReferred /\ RefByStatus /\ OneUnderWay

--------------------------------------------------------------------------------
(* Facts about the operators. *)

LEMMA RefParts == \A r \in Refs : r[1] \in Withdrawals /\ r = <<r[1], r[2]>> /\ r[2] \in Workers
BY DEF Refs

LEMMA ActiveIsUnderWay ==
  ASSUME TypeOK
  PROVE  \A w \in Withdrawals : Active(w) <=> UnderWay(w)
BY DEF TypeOK, Statuses, Active, UnderWay, IsFinal

PostedOf(w) == {kind \in Kinds : <<kind, w>> \in posted}

(* A posting keeps the ledger's types and adds one kind to one withdrawal.  *)
LEMMA Posting ==
  ASSUME TypeOK, NEW w \in Withdrawals, NEW kind \in Kinds, Post(kind, w)
  PROVE  /\ payable' \in [Sellers -> Nat]
         /\ pending' \in Nat /\ committed' \in Nat /\ bank' \in Nat /\ revenue' \in Nat
         /\ posted' \subseteq Kinds \X Withdrawals
         /\ PostedOf(w)' = PostedOf(w) \cup {kind}
         /\ \A v \in Withdrawals : v # w => PostedOf(v)' = PostedOf(v)
<1>1. SellerOf[w] \in Sellers
  BY SellerAssumption
<1>2. CASE <<kind, w>> \in posted
  BY <1>2 DEF Post, ledgerVars, TypeOK, PostedOf
<1>3. CASE <<kind, w>> \notin posted
  <2> DEFINE moved(plus, minus) ==
        IF kind \in plus THEN Amount ELSE IF kind \in minus THEN -Amount ELSE 0
  <2>1. /\ posted' = posted \cup {<<kind, w>>}
        /\ payable' = [payable EXCEPT ![SellerOf[w]] = @ + moved(Returns, {"request"})]
        /\ pending' = pending + moved({"request"}, {"commit", "reject"})
        /\ committed' = committed + moved({"commit"}, {"restore", "return"} \cup Payouts)
        /\ bank' = bank - (IF kind \in Payouts THEN Amount - Fee ELSE 0)
        /\ revenue' = revenue + (IF kind \in Payouts THEN Fee ELSE 0)
        /\ payable'[SellerOf[w]] >= 0 /\ pending' >= 0 /\ committed' >= 0 /\ bank' >= 0
    BY <1>3 DEF Post
  <2>2. \A plus, minus : moved(plus, minus) \in Int
    BY AmountAssumption
  <2> HIDE DEF moved
  <2>3. pending' \in Nat /\ committed' \in Nat
    BY <2>1, <2>2 DEF TypeOK
  <2>4. payable' \in [Sellers -> Nat]
    BY <1>1, <2>1, <2>2 DEF TypeOK
  <2>5. bank' \in Nat /\ revenue' \in Nat
    BY <2>1, AmountAssumption DEF TypeOK
  <2>6. /\ posted' \subseteq Kinds \X Withdrawals
        /\ PostedOf(w)' = PostedOf(w) \cup {kind}
        /\ \A v \in Withdrawals : v # w => PostedOf(v)' = PostedOf(v)
    BY <2>1 DEF TypeOK, PostedOf
  <2>7. QED
    BY <2>3, <2>4, <2>5, <2>6
<1>4. QED
  BY <1>2, <1>3

LEMMA KindsOf ==
  /\ "request" \in Kinds /\ "commit" \in Kinds /\ "reject" \in Kinds /\ "restore" \in Kinds
  /\ "return" \in Kinds /\ "complete" \in Kinds /\ "settle" \in Kinds
BY DEF Kinds, Returns, Payouts

LEMMA InitIsBase == Init => Base
BY AmountAssumption
DEF Init, Base, TypeOK, Statuses, IdleHook, RefIsOwn, HeldIsReferred, HookIsReferred,
    RefByStatus, OneUnderWay, UnderWay, Sent

(* A change of one withdrawal's status, with whatever else.                 *)
LEMMA StatusStepKeeps ==
  ASSUME Base, TypeOK', NEW w \in Withdrawals, NEW s \in Statuses,
         status' = [status EXCEPT ![w] = s],
         UNCHANGED ref,
         s \in {"NONE", "REQUESTED", "COMPLETED"} => ref[w] = NoRef,
         s \in Sent => ref[w] # NoRef,
         \/ IsFinal(s) \/ UnderWay(w)
         \/ \A v \in Withdrawals : SellerOf[v] = SellerOf[w] => ~UnderWay(v),
         \A k \in Workers : at'[k] # "idle" => at[k] # "idle" /\ held'[k] = held[k],
         \A h \in Hooks : hook'[h] # IdleHook => hook'[h] = hook[h]
  PROVE  Base'
<1> USE DEF Base
<1>1. \A v \in Withdrawals : status'[v] = IF v = w THEN s ELSE status[v]
  BY DEF TypeOK
<1>2. RefByStatus' /\ RefIsOwn'
  BY <1>1 DEF RefByStatus, RefIsOwn
<1>3. (HeldIsReferred /\ HookIsReferred)'
  BY DEF HeldIsReferred, HookIsReferred, Referred
<1>4. OneUnderWay'
  BY <1>1 DEF OneUnderWay, UnderWay
<1>5. QED
  BY <1>2, <1>3, <1>4

(* Steps that change no row.                                                *)
LEMMA RowsKept ==
  ASSUME Base, TypeOK', UNCHANGED <<status, ref>>,
         \A k \in Workers : at'[k] # "idle" => Referred(held'[k]),
         \A h \in Hooks : hook'[h] # IdleHook => Referred(hook'[h].ref)
  PROVE  Base'
<1> USE DEF Base
<1>1. (RefByStatus /\ RefIsOwn /\ OneUnderWay)'
  BY DEF RefByStatus, RefIsOwn, OneUnderWay, UnderWay
<1>2. (HeldIsReferred /\ HookIsReferred)'
  BY DEF HeldIsReferred, HookIsReferred, Referred
<1>3. QED
  BY <1>1, <1>2

(* Whoever works on a withdrawal works on one that was approved.            *)
LEMMA ReferredIsApproved ==
  ASSUME Base, NEW r, Referred(r)
  PROVE  /\ r[1] \in Withdrawals /\ ref[r[1]] # NoRef
         /\ status[r[1]] \in Statuses \ {"NONE", "REQUESTED", "COMPLETED"}
         /\ UnderWay(r[1]) \/ IsFinal(status[r[1]])
<1>1. r[1] \in Withdrawals /\ r # NoRef /\ ref[r[1]] = r
  BY RefParts, RefAssumption DEF Referred
<1>2. QED
  BY <1>1 DEF Base, RefByStatus, TypeOK, UnderWay

LEMMA ServiceKeepsBase ==
  ASSUME Base, NEW w \in Withdrawals,
         Request(w) \/ ApproveWithdraw(w) \/ RejectWithdraw(w) \/ MarkProcessed(w)
  PROVE  Base'
<1> USE DEF Base
<1>1. UNCHANGED <<ref, retries, whitelist, at, held, hook, gateway, notices>>
  BY DEF Request, ApproveWithdraw, RejectWithdraw, MarkProcessed
<1>2. PICK kind \in Kinds : Post(kind, w)
  BY KindsOf DEF Request, ApproveWithdraw, RejectWithdraw, MarkProcessed
<1>3. PICK s \in {"REQUESTED", "PROCESSING", "FAILED", "COMPLETED"} :
        status' = [status EXCEPT ![w] = s]
  BY DEF Request, ApproveWithdraw, RejectWithdraw, MarkProcessed, SetStatus
<1>4. TypeOK'
  BY <1>1, <1>2, <1>3, Posting DEF TypeOK, Statuses
<1>5. s \in Statuses
  BY DEF Statuses
<1>6. status'[w] = s
  BY <1>3 DEF TypeOK
<1>7. CASE Request(w)
  <2>1. s = "REQUESTED" /\ ref[w] = NoRef
    BY <1>6, <1>7 DEF Request, SetStatus, TypeOK, RefByStatus
  <2>2. \A v \in Withdrawals : SellerOf[v] = SellerOf[w] => ~UnderWay(v)
    BY <1>7, ActiveIsUnderWay DEF Request
  <2>3. s \notin Sent
    BY <2>1 DEF Sent
  <2>4. QED
    BY <1>1, <1>3, <1>4, <1>5, <2>1, <2>2, <2>3, StatusStepKeeps
<1>8. CASE ~Request(w)
  <2>1. \/ s = "PROCESSING" /\ UnderWay(w)
        \/ s = "FAILED"
        \/ s = "COMPLETED" /\ ref[w] = NoRef
    BY <1>6, <1>8
    DEF ApproveWithdraw, RejectWithdraw, MarkProcessed, SetStatus, TypeOK, UnderWay, IsFinal
  <2>2. s \notin Sent /\ s \notin {"NONE", "REQUESTED"} /\ (s = "COMPLETED" => ref[w] = NoRef)
    BY <2>1 DEF Sent
  <2>3. IsFinal(s) \/ UnderWay(w)
    BY <2>1 DEF IsFinal
  <2>4. QED
    BY <1>1, <1>3, <1>4, <1>5, <2>2, <2>3, StatusStepKeeps
<1>9. QED
  BY <1>7, <1>8

LEMMA FindKeepsBase ==
  ASSUME Base, NEW k \in Workers, NEW w \in Withdrawals, FindEligible(k, w) \/ FindRetryable(k, w)
  PROVE  Base'
<1> USE DEF Base
<1>1. CASE FindEligible(k, w)
  <2> USE <1>1 DEF FindEligible, Hold
  <2> DEFINE r == EnsureExternalReference(k, w)
  <2>1. <<w, k>> \in Refs /\ <<w, k>>[1] = w
    BY DEF Refs
  <2>2. r \in Refs /\ r[1] = w /\ r # NoRef /\ (ref[w] # NoRef => r = ref[w])
    <3>1. CASE ref[w] = NoRef
      BY <2>1, <3>1, RefAssumption DEF EnsureExternalReference
    <3>2. CASE ref[w] # NoRef
      BY <3>2 DEF EnsureExternalReference, TypeOK, RefIsOwn
    <3>3. QED
      BY <3>1, <3>2
  <2> HIDE DEF r
  <2>3. \A v \in Withdrawals : ref'[v] = IF v = w THEN r ELSE ref[v]
    BY DEF r, TypeOK
  <2>4. TypeOK'
    BY <2>2, <2>3 DEF TypeOK, r, ledgerVars
  <2>5. RefIsOwn'
    BY <2>2, <2>3 DEF RefIsOwn
  <2>6. \A q \in Refs : Referred(q) => Referred(q)'
    BY <2>2, <2>3, RefParts, RefAssumption DEF Referred
  <2>7. HeldIsReferred'
    <3> SUFFICES ASSUME NEW j \in Workers, at'[j] # "idle"
                 PROVE  held'[j] \in Refs /\ ref'[held'[j][1]] = held'[j]
      BY DEF HeldIsReferred, Referred
    <3>1. CASE j = k
      BY <2>2, <2>3, <3>1 DEF TypeOK, r
    <3>2. CASE j # k
      <4>1. at'[j] = at[j] /\ held'[j] = held[j]
        BY <3>2 DEF TypeOK
      <4>2. Referred(held[j])
        BY <4>1 DEF HeldIsReferred
      <4>3. QED
        BY <2>6, <4>1, <4>2 DEF Referred
    <3>3. QED
      BY <3>1, <3>2
  <2>8. HookIsReferred'
    BY <2>6 DEF HookIsReferred, Referred
  <2>9. RefByStatus'
    BY <2>2, <2>3 DEF RefByStatus
  <2>10. OneUnderWay'
    BY DEF OneUnderWay, UnderWay
  <2>11. QED
    BY <2>4, <2>5, <2>7, <2>8, <2>9, <2>10
<1>2. CASE FindRetryable(k, w)
  <2> USE <1>2 DEF FindRetryable, Hold
  <2>1. ref[w] \in Refs /\ ref[w] # NoRef /\ ref[w][1] = w
    BY DEF RefByStatus, Sent, RefIsOwn, TypeOK
  <2>2. TypeOK'
    BY <2>1 DEF TypeOK, rowVars, ledgerVars
  <2>3. \A j \in Workers : at'[j] # "idle" => Referred(held'[j])
    BY <2>1 DEF TypeOK, HeldIsReferred, Referred
  <2>4. QED
    BY <2>2, <2>3, RowsKept DEF rowVars, HookIsReferred
<1>3. QED
  BY <1>1, <1>2

(* A worker lets go, after it has written what is written here.             *)
LEMMA RecordKeepsBase ==
  ASSUME Base, NEW k \in Workers,
         \/ PilotBlock(k) \/ MarkSubmissionSuccess(k) \/ MarkSubmissionFailed(k)
  PROVE  Base'
<1> USE DEF Base
<1> DEFINE w == held[k][1]
<1>1. UNCHANGED <<ref, whitelist, hook, gateway, notices>> /\ at[k] # "idle"
  BY DEF PilotBlock, MarkSubmissionSuccess, MarkSubmissionFailed
<1>2. /\ w \in Withdrawals /\ ref[w] # NoRef
      /\ status[w] \in Statuses \ {"NONE", "REQUESTED", "COMPLETED"}
      /\ UnderWay(w) \/ IsFinal(status[w])
  BY <1>1, ReferredIsApproved DEF HeldIsReferred
<1>3. /\ at' = [at EXCEPT ![k] = "idle"] /\ held' = [held EXCEPT ![k] = NoRef]
  BY DEF PilotBlock, MarkSubmissionSuccess, MarkSubmissionFailed, Hold
<1>4. PICK s \in {status[w], "PILOT_BLOCKED", "SUBMITTED", "FAILED_RETRYABLE", "FAILED_FINAL"} :
        /\ status' = [status EXCEPT ![w] = s]
        /\ s # status[w] => UnderWay(w)
  BY <1>2
  DEF PilotBlock, MarkSubmissionSuccess, MarkSubmissionFailed, SetStatus, TypeOK,
      UnderWay, IsFinal, CanFail
<1>5. s \in Statuses /\ s \notin {"NONE", "REQUESTED", "COMPLETED"}
  BY <1>2 DEF Statuses
<1>6. IsFinal(s) \/ UnderWay(w)
  BY <1>2, <1>4
<1>7. UNCHANGED ledgerVars \/ Post("return", w)
  BY DEF PilotBlock, MarkSubmissionSuccess, MarkSubmissionFailed
<1>8. retries' \in [Withdrawals -> Nat]
  BY <1>2 DEF PilotBlock, MarkSubmissionSuccess, MarkSubmissionFailed, TypeOK
<1>9. TypeOK'
  <2>1. CASE UNCHANGED ledgerVars
    BY <1>1, <1>3, <1>4, <1>5, <1>8, <2>1 DEF TypeOK, ledgerVars
  <2>2. CASE Post("return", w)
    BY <1>1, <1>2, <1>3, <1>4, <1>5, <1>8, <2>2, KindsOf, Posting DEF TypeOK
  <2>3. QED
    BY <1>7, <2>1, <2>2
<1>10. \A j \in Workers : at'[j] # "idle" => at[j] # "idle" /\ held'[j] = held[j]
  BY <1>3 DEF TypeOK
<1>11. QED
  BY <1>1, <1>2, <1>4, <1>5, <1>6, <1>9, <1>10, StatusStepKeeps

LEMMA Replies ==
  \A s \in {"refused", "queued", "processed", "completed", "failed"} :
    /\ Reply(s) \in {"ok", "permanent"}
    /\ Reply(s) = "permanent" => s \in {"refused", "failed"}
BY DEF Reply

(* What the gateway has heard of it answers for.                            *)
LEMMA Answered ==
  ASSUME Base, NEW k \in Workers, at[k] = "found", Takes(held[k]) \/ Refuses(held[k])
  PROVE  gateway'[held[k]] \in {"refused", "queued", "processed", "completed", "failed"}
BY DEF Base, HeldIsReferred, Referred, TypeOK, Takes, Refuses

LEMMA SubmitKeepsBase ==
  ASSUME Base, NEW k \in Workers, SubmitAnswered(k) \/ SubmitFailed(k) \/ Crash(k)
  PROVE  Base'
<1> USE DEF Base
<1>1. UNCHANGED <<rowVars, ledgerVars, hook, notices>>
  BY DEF SubmitAnswered, SubmitFailed, Crash
<1>2. /\ at[k] # "idle"
      /\ \/ Hold(k, "idle", NoRef)
         \/ \E step \in {"ok", "permanent", "retryable"} : Hold(k, step, held[k])
  <2>1. CASE SubmitAnswered(k)
    <3>1. Reply(gateway'[held[k]]) \in {"ok", "permanent"}
      BY <2>1, Answered, Replies DEF SubmitAnswered
    <3>2. QED
      BY <2>1, <3>1 DEF SubmitAnswered
  <2>2. CASE SubmitFailed(k) \/ Crash(k)
    BY <2>2 DEF SubmitFailed, Crash
  <2>3. QED
    BY <2>1, <2>2
<1>3. gateway' \in [Refs -> {"none", "refused", "queued", "processed", "completed", "failed"}]
  BY DEF SubmitAnswered, SubmitFailed, Crash, Takes, Refuses, TypeOK
<1>4. /\ at' \in [Workers -> {"idle", "found", "ok", "retryable", "permanent"}]
      /\ held' \in [Workers -> Refs \cup {NoRef}]
      /\ \A j \in Workers : at'[j] # "idle" => at[j] # "idle" /\ held'[j] = held[j]
  <2>1. held[k] \in Refs \cup {NoRef}
    BY DEF TypeOK
  <2>2. PICK step \in {"idle", "ok", "permanent", "retryable"}, q \in Refs \cup {NoRef} :
          Hold(k, step, q) /\ (step # "idle" => q = held[k])
    BY <1>2, <2>1
  <2>3. at' = [at EXCEPT ![k] = step] /\ held' = [held EXCEPT ![k] = q]
    BY <2>2 DEF Hold
  <2>4. QED
    BY <1>2, <2>2, <2>3 DEF TypeOK
<1>5. TypeOK'
  BY <1>1, <1>3, <1>4 DEF TypeOK, rowVars, ledgerVars
<1>6. \A j \in Workers : at'[j] # "idle" => Referred(held'[j])
  BY <1>4 DEF HeldIsReferred
<1>7. QED
  BY <1>1, <1>5, <1>6, RowsKept DEF rowVars, HookIsReferred

LEMMA GatewayKeepsBase ==
  ASSUME Base, NEW r \in Refs, GatewayProcesses(r) \/ GatewayCompletes(r) \/ GatewayFails(r)
  PROVE  Base'
<1> USE DEF Base
<1>1. UNCHANGED <<rowVars, ledgerVars, at, held, hook>>
  BY DEF GatewayProcesses, GatewayCompletes, GatewayFails, Moves
<1>2. TypeOK'
  BY <1>1
  DEF GatewayProcesses, GatewayCompletes, GatewayFails, Moves, TypeOK, rowVars, ledgerVars
<1>3. QED
  BY <1>1, <1>2, RowsKept DEF rowVars, HookIsReferred, HeldIsReferred

Hooking == [ref : Refs \cup {NoRef}, says : {"NONE", "SUCCESS", "PENDING", "FAILED"},
            seen : Statuses]

LEMMA IdleIsHooking == IdleHook \in Hooking
BY DEF IdleHook, Hooking, Statuses

LEMMA Callbacks ==
  \A s : MapGatewayStatusToCallback(s) \in {"SUCCESS", "PENDING", "FAILED", "UNKNOWN"}
BY DEF MapGatewayStatusToCallback

(* A handler takes up a callback, or lets go of it unwritten.               *)
LEMMA HookTurnKeepsBase ==
  ASSUME Base, NEW h \in Hooks,
         \/ \E n \in notices : HookReads(h, n)
         \/ \E w \in Withdrawals : Reconcile(h, w)
         \/ HookFails(h)
  PROVE  Base'
<1> USE DEF Base
<1>1. UNCHANGED <<rowVars, ledgerVars, at, held, gateway, notices>>
  BY DEF HookReads, Reconcile, HookFails
<1>2. PICK b : /\ hook' = [hook EXCEPT ![h] = b]
               /\ b \in Hooking
               /\ b # IdleHook => Referred(b.ref)
  <2>1. CASE HookFails(h)
    BY <2>1, IdleIsHooking DEF HookFails
  <2>2. CASE \E n \in notices : HookReads(h, n)
    <3> PICK n \in notices : HookReads(h, n)
      BY <2>2
    <3>1. n.ref \in Refs /\ n.says \in {"SUCCESS", "PENDING", "FAILED"} /\ ref[n.ref[1]] = n.ref
      BY DEF TypeOK, HookReads
    <3>2. status[n.ref[1]] \in Statuses
      BY <3>1, RefParts DEF TypeOK
    <3> DEFINE c == [ref |-> n.ref, says |-> n.says, seen |-> status[n.ref[1]]]
    <3>3. hook' = [hook EXCEPT ![h] = c]
      BY DEF HookReads
    <3>4. c \in Hooking /\ Referred(c.ref)
      BY <3>1, <3>2 DEF Hooking, Referred
    <3> HIDE DEF c
    <3>5. QED
      BY <3>3, <3>4
  <2>3. CASE \E w \in Withdrawals : Reconcile(h, w)
    <3> PICK w \in Withdrawals : Reconcile(h, w)
      BY <2>3
    <3> DEFINE says == MapGatewayStatusToCallback(mapMidtransStatus(gateway[ref[w]]))
    <3>1. /\ hook[h] = IdleHook /\ Submitted(status[w])
          /\ hook' = IF says = "UNKNOWN" THEN hook
                     ELSE [hook EXCEPT ![h] = [ref |-> ref[w], says |-> says, seen |-> status[w]]]
      BY DEF Reconcile
    <3>2. says \in {"SUCCESS", "PENDING", "FAILED", "UNKNOWN"}
      BY Callbacks
    <3>3. ref[w] \in Refs /\ ref[w][1] = w
      BY <3>1 DEF Submitted, RefByStatus, Sent, RefIsOwn, TypeOK
    <3> HIDE DEF says
    <3>4. CASE says = "UNKNOWN"
      <4>1. hook' = [hook EXCEPT ![h] = IdleHook]
        BY <3>1, <3>4 DEF TypeOK
      <4>2. QED
        BY <4>1, IdleIsHooking
    <3>5. CASE says # "UNKNOWN"
      <4> DEFINE c == [ref |-> ref[w], says |-> says, seen |-> status[w]]
      <4>1. hook' = [hook EXCEPT ![h] = c]
        BY <3>1, <3>5
      <4>2. c \in Hooking /\ Referred(c.ref)
        BY <3>2, <3>3, <3>5 DEF Hooking, Referred, TypeOK
      <4> HIDE DEF c
      <4>3. QED
        BY <4>1, <4>2
    <3>6. QED
      BY <3>4, <3>5
  <2>4. QED
    BY <2>1, <2>2, <2>3
<1>3. TypeOK'
  BY <1>1, <1>2 DEF TypeOK, rowVars, ledgerVars, Hooking
<1>4. \A j \in Hooks : hook'[j] = IF j = h THEN b ELSE hook[j]
  BY <1>2 DEF TypeOK
<1>5. \A j \in Hooks : hook'[j] # IdleHook => Referred(hook'[j].ref)
  BY <1>2, <1>4 DEF HookIsReferred
<1>6. QED
  BY <1>1, <1>3, <1>5, RowsKept DEF rowVars, HeldIsReferred

(* A handler writes by what it has read and answers.                        *)
LEMMA HookWriteKeepsBase ==
  ASSUME Base, NEW h \in Hooks,
         \/ HookSettles(h) \/ HookMarksSettling(h) \/ HookReturns(h) \/ HookIgnores(h)
  PROVE  Base'
<1> USE DEF Base
<1> DEFINE w == hook[h].ref[1]
<1>1. /\ hook' = [hook EXCEPT ![h] = IdleHook] /\ notices' \subseteq notices
      /\ UNCHANGED <<ref, retries, whitelist, at, held, gateway>>
  BY DEF HookSettles, HookMarksSettling, HookReturns, HookIgnores, Acknowledge
<1>2. hook[h] # IdleHook
  BY DEF HookSettles, HookMarksSettling, HookReturns, HookIgnores, IdleHook
<1>3. /\ w \in Withdrawals /\ ref[w] # NoRef
      /\ status[w] \in Statuses \ {"NONE", "REQUESTED", "COMPLETED"}
      /\ UnderWay(w) \/ IsFinal(status[w])
  BY <1>2, ReferredIsApproved DEF HookIsReferred
<1>4. PICK s \in {status[w], "SETTLING", "SETTLED", "FAILED_FINAL"} :
        /\ status' = [status EXCEPT ![w] = s]
        /\ s # status[w] => UnderWay(w)
  BY <1>3
  DEF HookSettles, HookMarksSettling, HookReturns, HookIgnores, SetStatus, Submitted,
      TypeOK, UnderWay, IsFinal, CanFail
<1>5. s \in Statuses /\ s \notin {"NONE", "REQUESTED", "COMPLETED"}
  BY <1>3 DEF Statuses
<1>6. IsFinal(s) \/ UnderWay(w)
  BY <1>3, <1>4
<1>7. UNCHANGED ledgerVars \/ \E kind \in Kinds : Post(kind, w)
  BY KindsOf DEF HookSettles, HookMarksSettling, HookReturns, HookIgnores
<1>8. hook' \in [Hooks -> Hooking]
  BY <1>1, IdleIsHooking DEF TypeOK, Hooking
<1>9. TypeOK'
  <2>1. CASE UNCHANGED ledgerVars
    BY <1>1, <1>4, <1>5, <1>8, <2>1 DEF TypeOK, ledgerVars, Hooking
  <2>2. ASSUME NEW kind \in Kinds, Post(kind, w) PROVE TypeOK'
    BY <1>1, <1>3, <1>4, <1>5, <1>8, <2>2, Posting DEF TypeOK, Hooking
  <2>3. QED
    BY <1>7, <2>1, <2>2
<1>10. \A j \in Hooks : hook'[j] # IdleHook => hook'[j] = hook[j]
  BY <1>1 DEF TypeOK
<1>11. QED
  BY <1>1, <1>3, <1>4, <1>5, <1>6, <1>9, <1>10, StatusStepKeeps

LEMMA NextKeepsBase == Base /\ [Next]_vars => Base'
<1> SUFFICES ASSUME Base, [Next]_vars PROVE Base'
  OBVIOUS
<1>1. ASSUME NEW w \in Withdrawals,
             Request(w) \/ ApproveWithdraw(w) \/ RejectWithdraw(w) \/ MarkProcessed(w)
      PROVE  Base'
  BY <1>1, ServiceKeepsBase
<1>2. ASSUME NEW w \in Withdrawals, NEW k \in Workers, FindEligible(k, w) \/ FindRetryable(k, w)
      PROVE  Base'
  BY <1>2, FindKeepsBase
<1>3. ASSUME NEW k \in Workers,
             \/ PilotBlock(k) \/ MarkSubmissionSuccess(k) \/ MarkSubmissionFailed(k)
      PROVE  Base'
  BY <1>3, RecordKeepsBase
<1>4. ASSUME NEW k \in Workers, SubmitAnswered(k) \/ SubmitFailed(k) \/ Crash(k) PROVE Base'
  BY <1>4, SubmitKeepsBase
<1>5. ASSUME NEW r \in Refs, GatewayProcesses(r) \/ GatewayCompletes(r) \/ GatewayFails(r)
      PROVE  Base'
  BY <1>5, GatewayKeepsBase
<1>6. ASSUME NEW h \in Hooks,
             \/ \E n \in notices : HookReads(h, n)
             \/ \E w \in Withdrawals : Reconcile(h, w)
             \/ HookFails(h)
      PROVE  Base'
  BY <1>6, HookTurnKeepsBase
<1>7. ASSUME NEW h \in Hooks,
             \/ HookSettles(h) \/ HookMarksSettling(h) \/ HookReturns(h) \/ HookIgnores(h)
      PROVE  Base'
  BY <1>7, HookWriteKeepsBase
<1>8. CASE UNCHANGED vars
  BY <1>8
  DEF vars, rowVars, ledgerVars, Base, TypeOK, RefIsOwn, HeldIsReferred, HookIsReferred,
      Referred, RefByStatus, OneUnderWay, UnderWay
<1>9. QED
  BY <1>1, <1>2, <1>3, <1>4, <1>5, <1>6, <1>7, <1>8 DEF Next

--------------------------------------------------------------------------------
(* The second invariant is about the money, and wants a gateway whose       *)
(* answers are known.  What is rejected is unsent only if admins see to it. *)

(* The gateway has heard of a withdrawal under its reference only.          *)
GatewayKnows == \A r \in Refs : gateway[r] # "none" => ref[r[1]] = r

(* What notices, handlers and workers say of a payout is what has become of *)
(* it, and a callback that was read for a sent withdrawal still is.         *)
Lost == {"refused", "failed"}
SaysTrue(n) ==
  /\ n.says = "SUCCESS" => gateway[n.ref] = "completed"
  /\ n.says = "FAILED" => gateway[n.ref] = "failed"
NoticesAreTrue == \A n \in notices : SaysTrue(n)
HooksAreTrue ==
  \A h \in Hooks : hook[h] # IdleHook =>
    SaysTrue(hook[h]) /\ (Submitted(hook[h].seen) => status[hook[h].ref[1]] \in Sent)
WorkersAreTrue == \A k \in Workers : at[k] = "permanent" => gateway[held[k]] \in Lost

(* What has been posted for a withdrawal, by its status.  A callback that   *)
(* finds the status changed since it read it settles the ledger only.       *)
Agrees(s, kinds) ==
  \/ s = "NONE" /\ kinds = {}
  \/ s = "REQUESTED" /\ kinds = {"request"}
  \/ /\ s \in {"PROCESSING", "PILOT_BLOCKED", "SUBMITTED", "SETTLING", "FAILED_RETRYABLE"}
     /\ kinds = {"request", "commit"}
  \/ s \in {"FAILED_RETRYABLE", "SETTLED"} /\ kinds = {"request", "commit", "settle"}
  \/ s = "COMPLETED" /\ kinds = {"request", "commit", "complete"}
  \/ s = "FAILED" /\ kinds = {"request", "reject"}
  \/ s = "FAILED" /\ kinds = {"request", "commit", "restore"}
  \/ s = "FAILED_FINAL" /\ kinds = {"request", "commit", "return"}
PostedByStatus == \A w \in Withdrawals : Agrees(status[w], PostedOf(w))

OutcomesAreTrue ==
  \A w \in Withdrawals :
    /\ RejectsUnsent /\ status[w] = "FAILED" => ref[w] = NoRef
    /\ "settle" \in PostedOf(w) => gateway[ref[w]] = "completed"
    /\ "return" \in PostedOf(w) => gateway[ref[w]] \in Lost

Money ==
  /\ GatewayKnows /\ NoticesAreTrue /\ HooksAreTrue /\ WorkersAreTrue
  /\ PostedByStatus /\ OutcomesAreTrue

IInv == Base /\ Money

--------------------------------------------------------------------------------

LEMMA InitIsMoney == Init => Money
BY DEF Init, Money, GatewayKnows, NoticesAreTrue, HooksAreTrue, WorkersAreTrue,
       PostedByStatus, Agrees, PostedOf, OutcomesAreTrue

(* One withdrawal gets a status and a posting; the gateway is not involved. *)
LEMMA PostingKeepsMoney ==
  ASSUME IInv, NEW w \in Withdrawals, NEW s \in Statuses,
         status' = [status EXCEPT ![w] = s], UNCHANGED <<ref, gateway>>, notices' \subseteq notices,
         \A k \in Workers : at'[k] = "permanent" => at[k] = "permanent" /\ held'[k] = held[k],
         \A h \in Hooks : hook'[h] # IdleHook => hook'[h] = hook[h],
         \A v \in Withdrawals : v # w => PostedOf(v)' = PostedOf(v),
         Agrees(s, PostedOf(w)'),
         status[w] \in Sent => s \in Sent,
         RejectsUnsent /\ s = "FAILED" => ref[w] = NoRef,
         "settle" \in PostedOf(w)' => gateway[ref[w]] = "completed",
         "return" \in PostedOf(w)' => gateway[ref[w]] \in Lost
  PROVE  Money'
<1> USE DEF IInv, Money
<1>1. \A v \in Withdrawals : status'[v] = IF v = w THEN s ELSE status[v]
  BY DEF Base, TypeOK
<1>2. (GatewayKnows /\ NoticesAreTrue /\ WorkersAreTrue)'
  BY DEF GatewayKnows, NoticesAreTrue, WorkersAreTrue, SaysTrue
<1>3. HooksAreTrue'
  <2> SUFFICES ASSUME NEW h \in Hooks, hook'[h] # IdleHook
               PROVE  /\ hook[h].says = "SUCCESS" => gateway[hook[h].ref] = "completed"
                      /\ hook[h].says = "FAILED" => gateway[hook[h].ref] = "failed"
                      /\ Submitted(hook[h].seen) => status'[hook[h].ref[1]] \in Sent
    BY DEF HooksAreTrue, SaysTrue, Submitted
  <2>1. hook[h] # IdleHook /\ hook[h].ref[1] \in Withdrawals
    BY ReferredIsApproved DEF Base, HookIsReferred
  <2>2. QED
    BY <1>1, <2>1 DEF HooksAreTrue, SaysTrue
<1>4. PostedByStatus'
  <2> SUFFICES ASSUME NEW v \in Withdrawals PROVE Agrees(status'[v], PostedOf(v)')
    BY DEF PostedByStatus, Agrees
  <2>1. CASE v = w
    BY <1>1, <2>1
  <2>2. CASE v # w
    BY <1>1, <2>2 DEF PostedByStatus
  <2>3. QED
    BY <2>1, <2>2
<1>5. OutcomesAreTrue'
  <2> SUFFICES ASSUME NEW v \in Withdrawals
               PROVE  /\ RejectsUnsent /\ status'[v] = "FAILED" => ref[v] = NoRef
                      /\ "settle" \in PostedOf(v)' => gateway[ref[v]] = "completed"
                      /\ "return" \in PostedOf(v)' => gateway[ref[v]] \in Lost
    BY DEF OutcomesAreTrue
  <2>1. CASE v = w
    BY <1>1, <2>1
  <2>2. CASE v # w
    BY <1>1, <2>2 DEF OutcomesAreTrue
  <2>3. QED
    BY <2>1, <2>2
<1>6. QED
  BY <1>2, <1>3, <1>4, <1>5

LEMMA ServiceKeepsMoney ==
  ASSUME IInv, NEW w \in Withdrawals,
         Request(w) \/ ApproveWithdraw(w) \/ RejectWithdraw(w) \/ MarkProcessed(w)
  PROVE  Money'
<1> DEFINE Right(kind, s) ==
      /\ Post(kind, w) /\ status' = [status EXCEPT ![w] = s]
      /\ Agrees(s, PostedOf(w) \cup {kind}) /\ status[w] \notin Sent
      /\ RejectsUnsent /\ s = "FAILED" => ref[w] = NoRef
      /\ kind \notin {"settle", "return"}
<1>1. UNCHANGED <<ref, retries, whitelist, at, held, hook, gateway, notices>>
  BY DEF Request, ApproveWithdraw, RejectWithdraw, MarkProcessed
<1>2. /\ TypeOK /\ Agrees(status[w], PostedOf(w))
      /\ status[w] = "REQUESTED" => ref[w] = NoRef
      /\ "settle" \in PostedOf(w) => gateway[ref[w]] = "completed"
      /\ "return" \in PostedOf(w) => gateway[ref[w]] \in Lost
  BY DEF IInv, Base, Money, PostedByStatus, RefByStatus, OutcomesAreTrue
<1>3. \E kind \in Kinds, s \in {"REQUESTED", "PROCESSING", "FAILED", "COMPLETED"} : Right(kind, s)
  <2>1. CASE Request(w)
    <3>1. Right("request", "REQUESTED")
      BY <1>2, <2>1 DEF Request, SetStatus, Agrees, Sent
    <3>2. QED
      BY <3>1, KindsOf
  <2>2. CASE ApproveWithdraw(w)
    <3>1. Right("commit", "PROCESSING")
      BY <1>2, <2>2 DEF ApproveWithdraw, SetStatus, Agrees, Sent
    <3>2. QED
      BY <3>1, KindsOf
  <2>3. CASE MarkProcessed(w)
    <3>1. Right("complete", "COMPLETED")
      BY <1>2, <2>3 DEF MarkProcessed, SetStatus, Agrees, Sent
    <3>2. QED
      BY <3>1, KindsOf
  <2>4. CASE RejectWithdraw(w)
    <3>1. Right("reject", "FAILED") \/ Right("restore", "FAILED")
      BY <1>2, <2>4 DEF RejectWithdraw, SetStatus, Agrees, Sent
    <3>2. QED
      BY <3>1, KindsOf
  <2>5. QED
    BY <2>1, <2>2, <2>3, <2>4
<1>4. PICK kind \in Kinds, s \in {"REQUESTED", "PROCESSING", "FAILED", "COMPLETED"} : Right(kind, s)
  BY <1>3
<1>5. /\ PostedOf(w)' = PostedOf(w) \cup {kind}
      /\ \A v \in Withdrawals : v # w => PostedOf(v)' = PostedOf(v)
  BY <1>2, <1>4, Posting
<1>6. s \in Statuses
  BY DEF Statuses
<1>7. Agrees(s, PostedOf(w)')
  BY <1>4, <1>5
<1>8. QED
  BY <1>1, <1>2, <1>4, <1>5, <1>6, <1>7, PostingKeepsMoney

(* Nothing is posted. *)
LEMMA Unposted ==
  ASSUME UNCHANGED ledgerVars
  PROVE  \A w \in Withdrawals : PostedOf(w)' = PostedOf(w)
BY DEF ledgerVars, PostedOf

LEMMA FindKeepsMoney ==
  ASSUME IInv, Base', NEW k \in Workers, NEW w \in Withdrawals,
         FindEligible(k, w) \/ FindRetryable(k, w)
  PROVE  Money'
<1> USE DEF IInv, Money
<1>1. UNCHANGED <<status, ledgerVars, hook, gateway, notices>>
  BY DEF FindEligible, FindRetryable, rowVars
<1>2. \A v \in Withdrawals : ref'[v] = ref[v] \/ (v = w /\ ref[w] = NoRef /\ status[w] = "PROCESSING")
  BY DEF Base, TypeOK, FindEligible, FindRetryable, rowVars, EnsureExternalReference
<1>3. GatewayKnows'
  <2> SUFFICES ASSUME NEW r \in Refs, gateway[r] # "none" PROVE ref'[r[1]] = r
    BY <1>1 DEF GatewayKnows
  <2>1. ref[r[1]] = r /\ r # NoRef /\ r[1] \in Withdrawals
    BY RefParts, RefAssumption DEF GatewayKnows
  <2>2. QED
    BY <1>2, <2>1
<1>4. (NoticesAreTrue /\ HooksAreTrue /\ PostedByStatus)'
  BY <1>1, Unposted DEF NoticesAreTrue, HooksAreTrue, SaysTrue, PostedByStatus
<1>5. WorkersAreTrue'
  <2>1. \A j \in Workers : at'[j] = "permanent" => at[j] = "permanent" /\ held'[j] = held[j]
    BY DEF Base, TypeOK, FindEligible, FindRetryable, Hold
  <2>2. QED
    BY <1>1, <2>1 DEF WorkersAreTrue
<1>6. OutcomesAreTrue'
  <2> SUFFICES ASSUME NEW v \in Withdrawals
               PROVE  /\ RejectsUnsent /\ status[v] = "FAILED" => ref'[v] = NoRef
                      /\ "settle" \in PostedOf(v) => gateway[ref'[v]] = "completed"
                      /\ "return" \in PostedOf(v) => gateway[ref'[v]] \in Lost
    BY <1>1, Unposted DEF OutcomesAreTrue
  <2>1. status[v] = "PROCESSING" => PostedOf(v) = {"request", "commit"}
    BY DEF PostedByStatus, Agrees
  <2>2. QED
    BY <1>2, <2>1 DEF OutcomesAreTrue
<1>7. QED
  BY <1>3, <1>4, <1>5, <1>6

LEMMA RecordKeepsMoney ==
  ASSUME KnownReplies, IInv, NEW k \in Workers,
         \/ PilotBlock(k) \/ MarkSubmissionSuccess(k) \/ MarkSubmissionFailed(k)
  PROVE  Money'
<1> USE DEF IInv
<1>1. UNCHANGED <<ref, whitelist, hook, gateway, notices>> /\ at[k] # "idle"
  BY DEF PilotBlock, MarkSubmissionSuccess, MarkSubmissionFailed
<1>2. Referred(held[k])
  BY <1>1 DEF Base, HeldIsReferred
<1>3. PICK w \in Withdrawals : w = held[k][1] /\ ref[w] = held[k] /\ ref[w] # NoRef
  BY <1>2, ReferredIsApproved DEF Referred
<1>4. /\ TypeOK /\ Agrees(status[w], PostedOf(w))
      /\ "settle" \in PostedOf(w) => gateway[ref[w]] = "completed"
      /\ "return" \in PostedOf(w) => gateway[ref[w]] \in Lost
      /\ status[w] \in Statuses /\ (RejectsUnsent => status[w] # "FAILED")
  BY <1>3 DEF Base, TypeOK, Money, PostedByStatus, OutcomesAreTrue
<1>5. \A j \in Workers : at'[j] = "permanent" => at[j] = "permanent" /\ held'[j] = held[j]
  BY DEF PilotBlock, MarkSubmissionSuccess, MarkSubmissionFailed, Hold, Base, TypeOK
<1>6. CASE UNCHANGED ledgerVars
  <2>1. \A v \in Withdrawals : PostedOf(v)' = PostedOf(v)
    BY <1>6, Unposted
  <2>2. PICK s \in Statuses :
          /\ status' = [status EXCEPT ![w] = s] /\ Agrees(s, PostedOf(w))
          /\ status[w] \in Sent => s \in Sent
          /\ s = "FAILED" => status[w] = "FAILED"
    <3>1. CASE PilotBlock(k) \/ MarkSubmissionSuccess(k)
      <4>1. PICK s \in {status[w], "PILOT_BLOCKED", "SUBMITTED"} :
              /\ status' = [status EXCEPT ![w] = s]
              /\ s = status[w] \/ status[w] = "PROCESSING"
        BY <1>3, <3>1 DEF PilotBlock, MarkSubmissionSuccess
      <4>2. s \in Statuses /\ Agrees(s, PostedOf(w)) /\ (status[w] \in Sent => s \in Sent)
        BY <1>4, <4>1 DEF Agrees, Statuses, Sent
      <4>3. QED
        BY <1>4, <4>1, <4>2
    <3>2. CASE MarkSubmissionFailed(k)
      <4>1. PICK s \in {status[w], "FAILED_RETRYABLE"} :
              /\ status' = [status EXCEPT ![w] = s]
              /\ s = status[w] \/ CanFail(status[w])
        <5>1. CASE at[k] = "retryable"
          BY <1>3, <3>2, <5>1 DEF MarkSubmissionFailed
        <5>2. CASE at[k] # "retryable" /\ status' = status
          BY <1>4, <5>2 DEF TypeOK
        <5>3. CASE at[k] # "retryable" /\ status' # status
          <6>1. Post("return", w) /\ status' = [status EXCEPT ![w] = "FAILED_FINAL"]
                /\ CanFail(status[w])
            BY <1>3, <3>2, <5>3 DEF MarkSubmissionFailed, SetStatus
          <6>2. "return" \in PostedOf(w)
            BY <1>4, <2>1, <6>1, Posting, KindsOf
          <6>3. QED
            BY <1>4, <6>1, <6>2 DEF Agrees, CanFail
        <5>4. QED
          BY <5>1, <5>2, <5>3
      <4>2. s \in Statuses /\ Agrees(s, PostedOf(w)) /\ (status[w] \in Sent => s \in Sent)
        BY <1>4, <4>1 DEF Agrees, Statuses, Sent, CanFail
      <4>3. QED
        BY <1>4, <4>1, <4>2
    <3>3. QED
      BY <3>1, <3>2
  <2>3. QED
    BY <1>1, <1>4, <1>5, <2>1, <2>2, PostingKeepsMoney
<1>7. CASE ~UNCHANGED ledgerVars
  <2>1. /\ at[k] = "permanent" /\ CanFail(status[w]) /\ Post("return", w)
        /\ status' = [status EXCEPT ![w] = "FAILED_FINAL"]
    BY <1>3, <1>7
    DEF PilotBlock, MarkSubmissionSuccess, MarkSubmissionFailed, SetStatus
  <2>2. gateway[ref[w]] \in Lost
    BY <1>3, <2>1 DEF Money, WorkersAreTrue
  <2>3. PostedOf(w) = {"request", "commit"}
    BY <1>4, <2>1, <2>2 DEF Agrees, CanFail, Lost
  <2>4. /\ PostedOf(w)' = {"request", "commit", "return"}
        /\ \A v \in Withdrawals : v # w => PostedOf(v)' = PostedOf(v)
    BY <1>4, <2>1, <2>3, Posting, KindsOf
  <2>5. Agrees("FAILED_FINAL", PostedOf(w)') /\ "FAILED_FINAL" \in Statuses /\ "FAILED_FINAL" \in Sent
        /\ "settle" \notin PostedOf(w)'
    BY <2>4 DEF Agrees, Statuses, Sent
  <2>6. QED
    BY <1>1, <1>5, <2>1, <2>2, <2>4, <2>5, PostingKeepsMoney
<1>8. QED
  BY <1>6, <1>7

(* The worker asks the gateway, which changes only a payout it has not heard *)
(* of; a permanent failure is one the gateway answers for.                  *)
LEMMA SubmitKeepsMoney ==
  ASSUME KnownReplies, IInv, NEW k \in Workers, SubmitAnswered(k) \/ SubmitFailed(k) \/ Crash(k)
  PROVE  Money'
<1> USE DEF IInv, Money
<1>1. UNCHANGED <<rowVars, ledgerVars, hook, notices>>
  BY DEF SubmitAnswered, SubmitFailed, Crash
<1>2. /\ at[k] # "idle" /\ Referred(held[k])
      /\ gateway \in [Refs -> {"none", "refused", "queued", "processed", "completed", "failed"}]
  BY DEF SubmitAnswered, SubmitFailed, Crash, Base, HeldIsReferred, TypeOK
<1>3. \A r \in Refs : gateway'[r] = gateway[r] \/ (r = held[k] /\ gateway[r] = "none")
  BY <1>2 DEF SubmitAnswered, SubmitFailed, Crash, Takes, Refuses
<1>4. GatewayKnows'
  BY <1>1, <1>2, <1>3 DEF GatewayKnows, Referred, rowVars
<1>5. \A n : n.ref \in Refs /\ SaysTrue(n) =>
        /\ n.says = "SUCCESS" => gateway'[n.ref] = "completed"
        /\ n.says = "FAILED" => gateway'[n.ref] = "failed"
  BY <1>3 DEF SaysTrue
<1>6. NoticesAreTrue'
  <2>1. \A n \in notices : n.ref \in Refs
    BY DEF Base, TypeOK
  <2>2. QED
    BY <1>1, <1>5, <2>1 DEF NoticesAreTrue, SaysTrue
<1>7. HooksAreTrue'
  <2>1. \A h \in Hooks : hook[h] # IdleHook => hook[h].ref \in Refs
    BY DEF Base, HookIsReferred, Referred
  <2>2. QED
    BY <1>1, <1>5, <2>1 DEF HooksAreTrue, SaysTrue, rowVars
<1>8. WorkersAreTrue'
  <2> SUFFICES ASSUME NEW j \in Workers, at'[j] = "permanent" PROVE gateway'[held'[j]] \in Lost
    BY DEF WorkersAreTrue, Lost
  <2>1. CASE j = k
    <3>1. SubmitAnswered(k) /\ at'[k] = Reply(gateway'[held[k]]) /\ held'[k] = held[k]
      BY <2>1 DEF SubmitAnswered, SubmitFailed, Crash, Hold, Base, TypeOK
    <3>2. gateway'[held[k]] \in {"refused", "queued", "processed", "completed", "failed"}
      BY <3>1, Answered DEF SubmitAnswered
    <3>3. QED
      BY <2>1, <3>1, <3>2, Replies DEF Lost
  <2>2. CASE j # k
    <3>1. at'[j] = at[j] /\ held'[j] = held[j]
      BY <2>2 DEF SubmitAnswered, SubmitFailed, Crash, Hold, Base, TypeOK
    <3>2. held[j] \in Refs /\ gateway[held[j]] \in Lost
      BY <3>1 DEF WorkersAreTrue, Base, HeldIsReferred, Referred
    <3>3. QED
      BY <1>3, <3>1, <3>2 DEF Lost
  <2>3. QED
    BY <2>1, <2>2
<1>9. PostedByStatus'
  BY <1>1, Unposted DEF PostedByStatus, rowVars
<1>10. OutcomesAreTrue'
  <2> SUFFICES ASSUME NEW v \in Withdrawals
               PROVE  /\ RejectsUnsent /\ status[v] = "FAILED" => ref[v] = NoRef
                      /\ "settle" \in PostedOf(v) => gateway'[ref[v]] = "completed"
                      /\ "return" \in PostedOf(v) => gateway'[ref[v]] \in Lost
    BY <1>1, Unposted DEF OutcomesAreTrue, rowVars
  <2>1. "settle" \in PostedOf(v) \/ "return" \in PostedOf(v) => ref[v] \in Refs
    <3>1. "settle" \in PostedOf(v) \/ "return" \in PostedOf(v) =>
            status[v] \in {"FAILED_RETRYABLE", "SETTLED", "FAILED_FINAL"}
      BY DEF PostedByStatus, Agrees
    <3>2. QED
      BY <3>1 DEF Base, RefByStatus, Sent, TypeOK
  <2>2. QED
    BY <1>3, <2>1 DEF OutcomesAreTrue, Lost
<1>11. QED
  BY <1>4, <1>6, <1>7, <1>8, <1>9, <1>10

LEMMA GatewayKeepsMoney ==
  ASSUME IInv, NEW r \in Refs, GatewayProcesses(r) \/ GatewayCompletes(r) \/ GatewayFails(r)
  PROVE  Money'
<1> USE DEF IInv, Money
<1>1. /\ UNCHANGED <<rowVars, ledgerVars, at, held, hook>>
      /\ gateway[r] \in {"queued", "processed"}
  BY DEF GatewayProcesses, GatewayCompletes, GatewayFails, Moves
<1>2. PICK to \in {"processed", "completed", "failed"}, says \in {"PENDING", "SUCCESS", "FAILED"} :
        /\ gateway' = [gateway EXCEPT ![r] = to]
        /\ notices' = notices \cup {[ref |-> r, says |-> says]}
        /\ says = "SUCCESS" => to = "completed"
        /\ says = "FAILED" => to = "failed"
  <2>1. CASE GatewayProcesses(r)
    BY <2>1 DEF GatewayProcesses, Moves
  <2>2. CASE GatewayCompletes(r)
    BY <2>2 DEF GatewayCompletes, Moves
  <2>3. CASE GatewayFails(r)
    BY <2>3 DEF GatewayFails, Moves
  <2>4. QED
    BY <2>1, <2>2, <2>3
<1>3. gateway'[r] = to /\ \A q \in Refs : q # r => gateway'[q] = gateway[q]
  BY <1>2 DEF Base, TypeOK
<1>4. \A q \in Refs : gateway[q] \in {"completed", "failed", "refused"} => gateway'[q] = gateway[q]
  BY <1>1, <1>3
<1>5. GatewayKnows'
  BY <1>1, <1>3 DEF GatewayKnows, rowVars
<1>6. NoticesAreTrue'
  <2> SUFFICES ASSUME NEW n \in notices'
               PROVE  /\ n.says = "SUCCESS" => gateway'[n.ref] = "completed"
                      /\ n.says = "FAILED" => gateway'[n.ref] = "failed"
    BY DEF NoticesAreTrue, SaysTrue
  <2>1. CASE n \in notices
    <3>1. n.ref \in Refs
      BY <2>1 DEF Base, TypeOK
    <3>2. QED
      BY <1>4, <2>1, <3>1 DEF NoticesAreTrue, SaysTrue
  <2>2. CASE n = [ref |-> r, says |-> says]
    BY <1>2, <1>3, <2>2
  <2>3. QED
    BY <1>2, <2>1, <2>2
<1>7. HooksAreTrue'
  <2>1. \A h \in Hooks : hook[h] # IdleHook => hook[h].ref \in Refs
    BY DEF Base, HookIsReferred, Referred
  <2>2. QED
    BY <1>1, <1>4, <2>1 DEF HooksAreTrue, SaysTrue, rowVars
<1>8. WorkersAreTrue'
  <2>1. \A k \in Workers : at[k] = "permanent" => held[k] \in Refs
    BY DEF Base, HeldIsReferred, Referred
  <2>2. QED
    BY <1>1, <1>4, <2>1 DEF WorkersAreTrue, Lost
<1>9. PostedByStatus'
  BY <1>1, Unposted DEF PostedByStatus, rowVars
<1>10. OutcomesAreTrue'
  <2> SUFFICES ASSUME NEW v \in Withdrawals
               PROVE  /\ RejectsUnsent /\ status[v] = "FAILED" => ref[v] = NoRef
                      /\ "settle" \in PostedOf(v) => gateway'[ref[v]] = "completed"
                      /\ "return" \in PostedOf(v) => gateway'[ref[v]] \in Lost
    BY <1>1, Unposted DEF OutcomesAreTrue, rowVars
  <2>1. "settle" \in PostedOf(v) \/ "return" \in PostedOf(v) => ref[v] \in Refs
    <3>1. "settle" \in PostedOf(v) \/ "return" \in PostedOf(v) =>
            status[v] \in {"FAILED_RETRYABLE", "SETTLED", "FAILED_FINAL"}
      BY DEF PostedByStatus, Agrees
    <3>2. QED
      BY <3>1 DEF Base, RefByStatus, Sent, TypeOK
  <2>2. QED
    BY <1>4, <2>1 DEF OutcomesAreTrue, Lost
<1>11. QED
  BY <1>5, <1>6, <1>7, <1>8, <1>9, <1>10

(* Reconciliation reads each answer of the gateway as unknown.              *)
LEMMA ReconcilesNothing ==
  \A s : MapGatewayStatusToCallback(mapMidtransStatus(s)) = "UNKNOWN"
<1> SUFFICES ASSUME NEW s PROVE MapGatewayStatusToCallback(mapMidtransStatus(s)) = "UNKNOWN"
  OBVIOUS
<1>1. mapMidtransStatus(s) \in {"SUBMITTED", "SETTLING", "SETTLED", "FAILED_FINAL", "UNKNOWN"}
  BY DEF mapMidtransStatus
<1>2. QED
  BY <1>1 DEF MapGatewayStatusToCallback

LEMMA HookTurnKeepsMoney ==
  ASSUME IInv, NEW h \in Hooks,
         \/ \E n \in notices : HookReads(h, n)
         \/ \E w \in Withdrawals : Reconcile(h, w)
         \/ HookFails(h)
  PROVE  Money'
<1> USE DEF IInv, Money
<1>1. UNCHANGED <<rowVars, ledgerVars, at, held, gateway, notices>>
  BY DEF HookReads, Reconcile, HookFails
<1>2. HooksAreTrue'
  <2> SUFFICES ASSUME NEW j \in Hooks, hook'[j] # IdleHook
               PROVE  /\ hook'[j].says = "SUCCESS" => gateway[hook'[j].ref] = "completed"
                      /\ hook'[j].says = "FAILED" => gateway[hook'[j].ref] = "failed"
                      /\ Submitted(hook'[j].seen) => status[hook'[j].ref[1]] \in Sent
    BY <1>1 DEF HooksAreTrue, SaysTrue, Submitted, rowVars
  <2>1. CASE hook'[j] = hook[j]
    BY <2>1 DEF HooksAreTrue, SaysTrue
  <2>2. CASE hook'[j] # hook[j]
    <3>1. PICK n \in notices :
            hook'[j] = [ref |-> n.ref, says |-> n.says, seen |-> status[n.ref[1]]]
      BY <2>2, ReconcilesNothing DEF HookReads, Reconcile, HookFails, Base, TypeOK
    <3>2. SaysTrue(n)
      BY DEF NoticesAreTrue
    <3>3. QED
      BY <3>1, <3>2 DEF SaysTrue, Submitted, Sent
  <2>3. QED
    BY <2>1, <2>2
<1>3. (GatewayKnows /\ NoticesAreTrue /\ WorkersAreTrue)'
  BY <1>1 DEF GatewayKnows, NoticesAreTrue, SaysTrue, WorkersAreTrue, rowVars
<1>4. (PostedByStatus /\ OutcomesAreTrue)'
  BY <1>1, Unposted DEF PostedByStatus, OutcomesAreTrue, rowVars
<1>5. QED
  BY <1>2, <1>3, <1>4

(* A handler posts an outcome, where the row may have moved on since it read *)
(* it, but not out of what has been sent.                                   *)
LEMMA HookWriteKeepsMoney ==
  ASSUME IInv, NEW h \in Hooks,
         \/ HookSettles(h) \/ HookMarksSettling(h) \/ HookReturns(h) \/ HookIgnores(h)
  PROVE  Money'
<1> USE DEF IInv
<1>1. /\ UNCHANGED <<ref, retries, whitelist, at, held, gateway>> /\ notices' \subseteq notices
      /\ hook' = [hook EXCEPT ![h] = IdleHook]
  BY DEF HookSettles, HookMarksSettling, HookReturns, HookIgnores, Acknowledge
<1>2. hook[h] # IdleHook
  BY DEF HookSettles, HookMarksSettling, HookReturns, HookIgnores, IdleHook
<1>3. Referred(hook[h].ref)
  BY <1>2 DEF Base, HookIsReferred
<1>4. PICK w \in Withdrawals : w = hook[h].ref[1] /\ ref[w] = hook[h].ref /\ ref[w] # NoRef
  BY <1>3, ReferredIsApproved DEF Referred
<1>5. /\ TypeOK /\ Agrees(status[w], PostedOf(w))
      /\ "settle" \in PostedOf(w) => gateway[ref[w]] = "completed"
      /\ "return" \in PostedOf(w) => gateway[ref[w]] \in Lost
      /\ status[w] \in Statuses /\ (RejectsUnsent => status[w] # "FAILED")
  BY <1>4 DEF Base, TypeOK, Money, PostedByStatus, OutcomesAreTrue
<1>6. /\ hook[h].says = "SUCCESS" => gateway[ref[w]] = "completed"
      /\ hook[h].says = "FAILED" => gateway[ref[w]] = "failed"
      /\ Submitted(hook[h].seen) => status[w] \in Sent
  BY <1>2, <1>4 DEF Money, HooksAreTrue, SaysTrue
<1>7. \A j \in Hooks : hook'[j] # IdleHook => hook'[j] = hook[j]
  BY <1>1 DEF Base, TypeOK
<1>8. CASE HookSettles(h)
  <2> DEFINE s == IF Submitted(status[w]) THEN "SETTLED" ELSE status[w]
  <2>1. /\ Post("settle", w) /\ status' = [status EXCEPT ![w] = s]
        /\ gateway[ref[w]] = "completed" /\ status[w] \in Sent
    BY <1>4, <1>6, <1>8 DEF HookSettles
  <2>2. /\ PostedOf(w)' = PostedOf(w) \cup {"settle"}
        /\ \A v \in Withdrawals : v # w => PostedOf(v)' = PostedOf(v)
    BY <1>5, <2>1, Posting, KindsOf
  <2>3. "return" \notin PostedOf(w)
    BY <1>5, <2>1 DEF Lost
  <2>4. Agrees(s, PostedOf(w) \cup {"settle"})
    <3>1. /\ status[w] \in {"SUBMITTED", "SETTLING", "FAILED_RETRYABLE", "SETTLED"}
          /\ PostedOf(w) \cup {"settle"} = {"request", "commit", "settle"}
      BY <1>5, <2>1, <2>3 DEF Agrees, Sent
    <3>2. s \in {"FAILED_RETRYABLE", "SETTLED"}
      BY <3>1 DEF Submitted
    <3>3. QED
      BY <3>1, <3>2 DEF Agrees
  <2>5. s \in Statuses /\ s \in Sent /\ s # "FAILED"
    BY <2>1 DEF Statuses, Sent
  <2> HIDE DEF s
  <2>6. Agrees(s, PostedOf(w)') /\ "return" \notin PostedOf(w)'
    BY <2>2, <2>3, <2>4
  <2>7. QED
    BY <1>1, <1>7, <2>1, <2>2, <2>5, <2>6, PostingKeepsMoney
<1>9. CASE HookReturns(h)
  <2>1. /\ Post("return", w) /\ status' = [status EXCEPT ![w] = "FAILED_FINAL"]
        /\ gateway[ref[w]] = "failed" /\ CanFail(status[w])
    BY <1>4, <1>6, <1>9 DEF HookReturns, SetStatus
  <2>2. PostedOf(w) = {"request", "commit"}
    BY <1>5, <2>1 DEF Agrees, CanFail
  <2>3. /\ PostedOf(w)' = {"request", "commit", "return"}
        /\ \A v \in Withdrawals : v # w => PostedOf(v)' = PostedOf(v)
    BY <1>5, <2>1, <2>2, Posting, KindsOf
  <2>4. /\ Agrees("FAILED_FINAL", PostedOf(w)') /\ "FAILED_FINAL" \in Statuses
        /\ "FAILED_FINAL" \in Sent /\ "settle" \notin PostedOf(w)' /\ gateway[ref[w]] \in Lost
    BY <2>1, <2>3 DEF Agrees, Statuses, Sent, Lost
  <2>5. QED
    BY <1>1, <1>7, <2>1, <2>3, <2>4, PostingKeepsMoney
<1>10. CASE HookMarksSettling(h) \/ HookIgnores(h)
  <2>1. PICK s \in {status[w], "SETTLING"} :
          /\ status' = [status EXCEPT ![w] = s]
          /\ s = status[w] \/ status[w] = "SUBMITTED"
    BY <1>4, <1>5, <1>10 DEF HookMarksSettling, HookIgnores, TypeOK
  <2>2. \A v \in Withdrawals : PostedOf(v)' = PostedOf(v)
    BY <1>10, Unposted DEF HookMarksSettling, HookIgnores
  <2>3. /\ s \in Statuses /\ Agrees(s, PostedOf(w)) /\ (s = "FAILED" => status[w] = "FAILED")
        /\ status[w] \in Sent => s \in Sent
    BY <1>5, <2>1 DEF Agrees, Statuses, Sent
  <2>4. QED
    BY <1>1, <1>5, <1>7, <2>1, <2>2, <2>3, PostingKeepsMoney
<1>11. QED
  BY <1>8, <1>9, <1>10

LEMMA NextKeeps ==
  ASSUME KnownReplies
  PROVE  IInv /\ [Next]_vars => IInv'
<1> SUFFICES ASSUME IInv, [Next]_vars PROVE IInv'
  OBVIOUS
<1>1. Base'
  BY NextKeepsBase DEF IInv
<1>2. ASSUME NEW w \in Withdrawals,
             Request(w) \/ ApproveWithdraw(w) \/ RejectWithdraw(w) \/ MarkProcessed(w)
      PROVE  Money'
  BY <1>2, ServiceKeepsMoney
<1>3. ASSUME NEW w \in Withdrawals, NEW k \in Workers, FindEligible(k, w) \/ FindRetryable(k, w)
      PROVE  Money'
  BY <1>1, <1>3, FindKeepsMoney
<1>4. ASSUME NEW k \in Workers,
             \/ PilotBlock(k) \/ MarkSubmissionSuccess(k) \/ MarkSubmissionFailed(k)
      PROVE  Money'
  BY <1>4, RecordKeepsMoney
<1>5. ASSUME NEW k \in Workers, SubmitAnswered(k) \/ SubmitFailed(k) \/ Crash(k) PROVE Money'
  BY <1>5, SubmitKeepsMoney
<1>6. ASSUME NEW r \in Refs, GatewayProcesses(r) \/ GatewayCompletes(r) \/ GatewayFails(r)
      PROVE  Money'
  BY <1>6, GatewayKeepsMoney
<1>7. ASSUME NEW h \in Hooks,
             \/ \E n \in notices : HookReads(h, n)
             \/ \E w \in Withdrawals : Reconcile(h, w)
             \/ HookFails(h)
      PROVE  Money'
  BY <1>7, HookTurnKeepsMoney
<1>8. ASSUME NEW h \in Hooks,
             \/ HookSettles(h) \/ HookMarksSettling(h) \/ HookReturns(h) \/ HookIgnores(h)
      PROVE  Money'
  BY <1>8, HookWriteKeepsMoney
<1>9. ASSUME UNCHANGED vars PROVE Money'
  <2>1. UNCHANGED <<rowVars, ledgerVars, at, held, hook, gateway, notices>>
    BY <1>9 DEF vars
  <2>2. (GatewayKnows /\ NoticesAreTrue /\ HooksAreTrue /\ WorkersAreTrue)'
    BY <2>1
    DEF IInv, Money, GatewayKnows, NoticesAreTrue, HooksAreTrue, WorkersAreTrue, SaysTrue, rowVars
  <2>3. (PostedByStatus /\ OutcomesAreTrue)'
    BY <2>1, Unposted DEF IInv, Money, PostedByStatus, OutcomesAreTrue, rowVars
  <2>4. QED
    BY <2>2, <2>3 DEF Money
<1>10. Money'
  BY <1>2, <1>3, <1>4, <1>5, <1>6, <1>7, <1>8, <1>9 DEF Next
<1>11. QED
  BY <1>1, <1>10 DEF IInv

LEMMA AtMostOne ==
  ASSUME NEW S, \A x, y \in S : x = y
  PROVE  Cardinality(S) \in {0, 1} /\ (S # {} => Cardinality(S) = 1)
<1>1. CASE S = {}
  BY <1>1, FS_EmptySet
<1>2. CASE S # {}
  <2>1. PICK x : S = {x}
    BY <1>2
  <2>2. QED
    BY <2>1, FS_Singleton
<1>3. QED
  BY <1>1, <1>2

LEMMA BaseHolds == Spec => []Base
BY InitIsBase, NextKeepsBase, PTL DEF Spec

(* The variables of the row, the ledger, the workers, the callbacks and the *)
(* gateway keep their types; no balance of the ledger falls below zero.     *)
THEOREM TypeCorrect == Spec => []TypeOK
<1>1. Base => TypeOK
  BY DEF Base
<1>2. QED
  BY <1>1, BaseHolds, PTL

(* A seller has at most one withdrawal under way: RequestWithdrawal checks   *)
(* under the lock of the payable account, and no later step brings a final  *)
(* withdrawal back to life.                                                 *)
THEOREM OneActive == Spec => []OneActivePerSeller
<1>1. Base => OneActivePerSeller
  <2> SUFFICES ASSUME Base, NEW s \in Sellers
               PROVE  Cardinality({w \in Withdrawals : SellerOf[w] = s /\ status[w] # "NONE"
                                                       /\ ~IsFinal(status[w])}) <= 1
    BY DEF OneActivePerSeller
  <2> DEFINE A == {w \in Withdrawals : SellerOf[w] = s /\ status[w] # "NONE"
                                       /\ ~IsFinal(status[w])}
  <2>1. \A v, w \in A : v = w
    BY DEF Base, OneUnderWay, UnderWay
  <2> HIDE DEF A
  <2>2. Cardinality(A) <= 1
    BY <2>1, AtMostOne
  <2>3. QED
    BY <2>2 DEF A
<1>2. QED
  BY <1>1, BaseHolds, PTL

(* A settled, completed, failed or rejected withdrawal stays so, whatever   *)
(* answers and callbacks still come for it.                                 *)
THEOREM FinalForGood == Spec => FinalStays
<1>1. Base /\ [Next]_vars => [\A w \in Withdrawals : IsFinal(status[w]) => status'[w] = status[w]]_vars
  <2> SUFFICES ASSUME Base, Next, NEW w \in Withdrawals, IsFinal(status[w])
               PROVE  status'[w] = status[w]
    OBVIOUS
  <2> USE DEF IsFinal, SetStatus
  <2>1. TypeOK
    BY DEF Base
  <2>2. ASSUME NEW v \in Withdrawals,
               Request(v) \/ ApproveWithdraw(v) \/ RejectWithdraw(v) \/ MarkProcessed(v)
        PROVE  status'[w] = status[w]
    BY <2>1, <2>2 DEF Request, ApproveWithdraw, RejectWithdraw, MarkProcessed, TypeOK
  <2>3. ASSUME NEW v \in Withdrawals, NEW k \in Workers, FindEligible(k, v) \/ FindRetryable(k, v)
        PROVE  status'[w] = status[w]
    BY <2>3 DEF FindEligible, FindRetryable, rowVars
  <2>4. ASSUME NEW k \in Workers,
               \/ PilotBlock(k) \/ MarkSubmissionSuccess(k) \/ MarkSubmissionFailed(k)
        PROVE  status'[w] = status[w]
    BY <2>1, <2>4 DEF PilotBlock, MarkSubmissionSuccess, MarkSubmissionFailed, CanFail, TypeOK
  <2>5. ASSUME NEW k \in Workers, SubmitAnswered(k) \/ SubmitFailed(k) \/ Crash(k)
        PROVE  status'[w] = status[w]
    BY <2>5 DEF SubmitAnswered, SubmitFailed, Crash, rowVars
  <2>6. ASSUME NEW r \in Refs, GatewayProcesses(r) \/ GatewayCompletes(r) \/ GatewayFails(r)
        PROVE  status'[w] = status[w]
    BY <2>6 DEF GatewayProcesses, GatewayCompletes, GatewayFails, Moves, rowVars
  <2>7. ASSUME NEW h \in Hooks,
               \/ \E n \in notices : HookReads(h, n)
               \/ \E v \in Withdrawals : Reconcile(h, v)
               \/ HookFails(h)
        PROVE  status'[w] = status[w]
    BY <2>7 DEF HookReads, Reconcile, HookFails, rowVars
  <2>8. ASSUME NEW h \in Hooks,
               \/ HookSettles(h) \/ HookMarksSettling(h) \/ HookReturns(h) \/ HookIgnores(h)
        PROVE  status'[w] = status[w]
    BY <2>1, <2>8
    DEF HookSettles, HookMarksSettling, HookReturns, HookIgnores, Submitted, CanFail, TypeOK
  <2>9. QED
    BY <2>2, <2>3, <2>4, <2>5, <2>6, <2>7, <2>8 DEF Next
<1>2. QED
  BY <1>1, BaseHolds, PTL DEF Spec, FinalStays

LEMMA InvHolds ==
  ASSUME KnownReplies
  PROVE  Spec => []IInv
<1>1. Init => IInv
  BY InitIsBase, InitIsMoney DEF IInv
<1>2. IInv /\ [Next]_vars => IInv'
  BY NextKeeps
<1>3. QED
  BY <1>1, <1>2, PTL DEF Spec

(* The money of a withdrawal is placed once: two workers, two handlers or a *)
(* worker and a handler that record its outcome do not return and pay it,   *)
(* nor do either twice, and a final withdrawal has been placed.             *)
THEOREM Placed ==
  ASSUME KnownReplies
  PROVE  Spec => []PlacedOnce
<1>1. IInv => PlacedOnce
  <2> SUFFICES ASSUME IInv, NEW w \in Withdrawals
               PROVE  Cardinality(PlacedBy(w)) \in (IF IsFinal(status[w]) THEN {1} ELSE {0, 1})
    BY DEF PlacedOnce
  <2>1. Agrees(status[w], PostedOf(w))
    BY DEF IInv, Money, PostedByStatus
  <2>2. \A kind : kind \in PlacedBy(w) <=> kind \in PostedOf(w) \cap (Returns \cup Payouts)
    BY DEF PlacedBy, PostedOf, Kinds
  <2>3. /\ \A x, y \in PlacedBy(w) : x = y
        /\ IsFinal(status[w]) => PlacedBy(w) # {}
    <3>1. \A x, y \in PostedOf(w) \cap (Returns \cup Payouts) : x = y
      BY <2>1 DEF Agrees, Returns, Payouts
    <3>2. IsFinal(status[w]) =>
            \E kind \in {"settle", "complete", "reject", "restore", "return"} : kind \in PostedOf(w)
      BY <2>1 DEF Agrees, IsFinal
    <3>3. QED
      BY <2>2, <3>1, <3>2 DEF Returns, Payouts
  <2>4. QED
    BY <2>3, AtMostOne
<1>2. QED
  BY <1>1, InvHolds, PTL

(* A reference is kept, and the gateway hears of none but a withdrawal's own. *)
LEMMA ReferencesKept ==
  ASSUME Base, [Next]_vars
  PROVE  /\ \A w \in Withdrawals : ref'[w] = ref[w] \/ ref[w] = NoRef
         /\ \A r \in Refs : gateway'[r] = gateway[r] \/ gateway[r] # "none" \/ Referred(r)
<1> USE DEF Base
<1>1. ASSUME NEW w \in Withdrawals, NEW k \in Workers, FindEligible(k, w)
      PROVE  UNCHANGED gateway /\ \A v \in Withdrawals : ref'[v] = ref[v] \/ ref[v] = NoRef
  BY <1>1 DEF FindEligible, EnsureExternalReference, TypeOK
<1>2. ASSUME NEW k \in Workers, SubmitAnswered(k) \/ SubmitFailed(k)
      PROVE  /\ UNCHANGED ref /\ Referred(held[k])
             /\ \A r \in Refs : r # held[k] => gateway'[r] = gateway[r]
  BY <1>2
  DEF SubmitAnswered, SubmitFailed, Takes, Refuses, HeldIsReferred, TypeOK, rowVars
<1>3. ASSUME NEW r \in Refs, GatewayProcesses(r) \/ GatewayCompletes(r) \/ GatewayFails(r)
      PROVE  /\ UNCHANGED ref /\ gateway[r] # "none"
             /\ \A q \in Refs : q # r => gateway'[q] = gateway[q]
  BY <1>3 DEF GatewayProcesses, GatewayCompletes, GatewayFails, Moves, TypeOK, rowVars
<1>4. ASSUME \/ \E w \in Withdrawals :
                  \/ Request(w) \/ ApproveWithdraw(w) \/ RejectWithdraw(w) \/ MarkProcessed(w)
                  \/ \E k \in Workers : FindRetryable(k, w)
             \/ \E k \in Workers : \/ PilotBlock(k) \/ MarkSubmissionSuccess(k)
                                   \/ MarkSubmissionFailed(k) \/ Crash(k)
             \/ \E h \in Hooks : \/ \E n \in notices : HookReads(h, n)
                                 \/ \E w \in Withdrawals : Reconcile(h, w)
                                 \/ HookSettles(h) \/ HookMarksSettling(h) \/ HookReturns(h)
                                 \/ HookIgnores(h) \/ HookFails(h)
             \/ UNCHANGED vars
      PROVE  UNCHANGED <<ref, gateway>>
  BY <1>4
  DEF Request, ApproveWithdraw, RejectWithdraw, MarkProcessed, FindRetryable, PilotBlock,
      MarkSubmissionSuccess, MarkSubmissionFailed, Crash, HookReads, Reconcile, HookSettles,
      HookMarksSettling, HookReturns, HookIgnores, HookFails, Acknowledge, vars, rowVars
<1>5. QED
  BY <1>1, <1>2, <1>3, <1>4 DEF Next

(* A withdrawal is paid out once, whatever admins do and whatever the       *)
(* gateway answers: of the references it could have had the gateway pays    *)
(* one at most, and none where the admin has paid by hand.                  *)
THEOREM PaidOnceOnly == Spec => []PaidOnce
<1> DEFINE I == Base /\ GatewayKnows
<1>1. Init => I
  BY InitIsBase DEF Init, GatewayKnows
<1>2. I /\ [Next]_vars => I'
  <2> SUFFICES ASSUME Base, GatewayKnows, [Next]_vars PROVE Base' /\ GatewayKnows'
    OBVIOUS
  <2>1. ASSUME NEW r \in Refs, gateway'[r] # "none" PROVE ref'[r[1]] = r
    <3>1. ref[r[1]] = r
      BY <2>1, ReferencesKept DEF GatewayKnows, Referred
    <3>2. r[1] \in Withdrawals /\ r # NoRef
      BY RefParts, RefAssumption
    <3>3. QED
      BY <3>1, <3>2, ReferencesKept
  <2>2. QED
    BY <2>1, NextKeepsBase DEF GatewayKnows
<1>3. I => PaidOnce
  <2> SUFFICES ASSUME I, NEW w \in Withdrawals
               PROVE  /\ Cardinality({k \in Workers : Paying(<<w, k>>)}) <= 1
                      /\ status[w] = "COMPLETED" => \A k \in Workers : ~Paying(<<w, k>>)
    BY DEF PaidOnce
  <2>1. \A k \in Workers : Paying(<<w, k>>) => ref[w] = <<w, k>>
    BY DEF GatewayKnows, Paying, Refs
  <2>2. Cardinality({k \in Workers : Paying(<<w, k>>)}) <= 1
    <3> DEFINE P == {k \in Workers : Paying(<<w, k>>)}
    <3>1. \A x, y \in P : x = y
      BY <2>1
    <3> HIDE DEF P
    <3>2. Cardinality(P) <= 1
      BY <3>1, AtMostOne
    <3>3. QED
      BY <3>2 DEF P
  <2>3. \A k \in Workers : <<w, k>> # NoRef
    BY RefAssumption DEF Refs
  <2>4. QED
    BY <2>1, <2>2, <2>3 DEF Base, RefByStatus
<1> HIDE DEF I
<1>4. QED
  BY <1>1, <1>2, <1>3, PTL DEF Spec

(* Money returned to the seller is not being paid out by the gateway, and   *)
(* what the ledger has settled the gateway has completed.                   *)
THEOREM BooksTrue ==
  ASSUME KnownReplies, RejectsUnsent
  PROVE  Spec => []BooksFollowGateway
<1>1. IInv => BooksFollowGateway
  <2> SUFFICES ASSUME IInv, NEW w \in Withdrawals
               PROVE  /\ PlacedBy(w) \cap Returns # {} => \A k \in Workers : ~Paying(<<w, k>>)
                      /\ <<"settle", w>> \in posted =>
                           \E k \in Workers : gateway[<<w, k>>] = "completed"
    BY DEF BooksFollowGateway
  <2>1. /\ Agrees(status[w], PostedOf(w))
        /\ status[w] = "FAILED" => ref[w] = NoRef
        /\ status[w] = "REQUESTED" => ref[w] = NoRef
        /\ "settle" \in PostedOf(w) => gateway[ref[w]] = "completed"
        /\ "return" \in PostedOf(w) => gateway[ref[w]] \in Lost
    BY DEF IInv, Base, RefByStatus, Money, PostedByStatus, OutcomesAreTrue
  <2>2. \A k \in Workers : Paying(<<w, k>>) => ref[w] = <<w, k>> /\ ref[w] # NoRef
    BY RefAssumption DEF IInv, Money, GatewayKnows, Paying, Refs
  <2>3. ASSUME PlacedBy(w) \cap Returns # {}, NEW k \in Workers, Paying(<<w, k>>) PROVE FALSE
    <3>1. "reject" \in PostedOf(w) \/ "restore" \in PostedOf(w) \/ "return" \in PostedOf(w)
      BY <2>3 DEF PlacedBy, PostedOf, Returns, Kinds
    <3>2. CASE "return" \in PostedOf(w)
      BY <2>1, <2>2, <2>3, <3>2 DEF Paying, Lost
    <3>3. CASE "return" \notin PostedOf(w)
      <4>1. status[w] = "FAILED"
        BY <2>1, <3>1, <3>3 DEF Agrees
      <4>2. QED
        BY <2>1, <2>2, <2>3, <4>1
    <3>4. QED
      BY <3>2, <3>3
  <2>4. ASSUME <<"settle", w>> \in posted
        PROVE  \E k \in Workers : gateway[<<w, k>>] = "completed"
    <3>1. "settle" \in PostedOf(w)
      BY <2>4, KindsOf DEF PostedOf
    <3>2. status[w] \in Sent
      BY <2>1, <3>1 DEF Agrees, Sent
    <3>3. ref[w] \in Refs /\ ref[w][1] = w
      BY <3>2 DEF IInv, Base, RefByStatus, RefIsOwn, TypeOK
    <3>4. ref[w] = <<w, ref[w][2]>> /\ ref[w][2] \in Workers
      BY <3>3, RefParts
    <3>5. QED
      BY <2>1, <3>1, <3>4
  <2>5. QED
    BY <2>3, <2>4
<1>2. QED
  BY <1>1, InvHolds, PTL

================================================================================
