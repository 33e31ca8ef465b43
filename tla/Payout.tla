--------------------------------- MODULE Payout ---------------------------------
(***************************************************************************)
(* Withdrawals: sellers take their earnings out.  A seller requests, an     *)
(* admin approves or rejects, payout workers hand the approved withdrawal   *)
(* to the payout gateway outside any transaction, and the gateway's         *)
(* callbacks settle it.  Every step that touches the row also moves money   *)
(* between ledger accounts, in the same transaction.                        *)
(***************************************************************************)
EXTENDS Integers, FiniteSets

CONSTANTS
  Sellers, Withdrawals,
  SellerOf,        \* the seller each withdrawal would be of
  Workers,         \* processes running the payout worker
  Hooks,           \* request handlers that serve the gateway's callbacks
  Amount, Fee,     \* of every withdrawal, the fee taken from the amount
  Earnings,        \* what each seller has earned
  Reserve,         \* the float the bank account is opened with
  MaxRetries,      \* submissions repeated at most (5 in the code)
  KnownReplies,    \* the gateway answers with statuses the client knows
  RejectsUnsent,   \* admins reject an approved withdrawal only while unsent
  NoRef

ASSUME SellerAssumption == SellerOf \in [Withdrawals -> Sellers]
ASSUME WithdrawalsAssumption == IsFiniteSet(Withdrawals)
ASSUME AmountAssumption ==
  /\ Amount \in Nat /\ Fee \in Nat /\ Fee < Amount
  /\ Earnings \in [Sellers -> Nat] /\ Reserve \in Nat /\ MaxRetries \in Nat
ASSUME FlagAssumption ==
  KnownReplies \in BOOLEAN /\ RejectsUnsent \in BOOLEAN

(* "WD_" + withdrawal + time of its creation: who made it stands for when. *)
Refs == Withdrawals \X Workers
ASSUME RefAssumption == NoRef \notin Refs

VARIABLES
  status,       \* withdrawals.status, "NONE" before there is a row
  ref,          \* withdrawals.external_reference_id
  retries,      \* withdrawals.retry_count
  whitelist,    \* sellers the processes were started to admit to the pilot
  payable, pending, committed, bank, revenue,  \* financial_accounts.balance
  posted,       \* ledger_transactions, by kind and withdrawal
  at, held,     \* what each worker is doing, and the reference it has read
  hook,         \* the callback each handler serves, with the status it read
  gateway,      \* payouts at the gateway, by reference
  notices       \* callbacks on their way

rowVars == <<status, ref, retries, whitelist>>
ledgerVars == <<payable, pending, committed, bank, revenue, posted>>
vars == <<rowVars, ledgerVars, at, held, hook, gateway, notices>>

Statuses == {"NONE", "REQUESTED", "PROCESSING", "SUBMITTED", "SETTLING", "SETTLED",
             "COMPLETED", "FAILED", "FAILED_RETRYABLE", "FAILED_FINAL", "PILOT_BLOCKED"}
IsFinal(s) == s \in {"SETTLED", "COMPLETED", "FAILED", "FAILED_FINAL"}

(* GetActiveBySellerID *)
Active(w) ==
  status[w] \in {"REQUESTED", "PROCESSING", "SUBMITTED", "SETTLING",
                 "FAILED_RETRYABLE", "PILOT_BLOCKED"}

IdleHook == [ref |-> NoRef, says |-> "NONE", seen |-> "NONE"]

Init ==
  /\ status = [w \in Withdrawals |-> "NONE"]
  /\ ref = [w \in Withdrawals |-> NoRef]
  /\ retries = [w \in Withdrawals |-> 0] /\ whitelist \in SUBSET Sellers
  /\ payable = Earnings
  /\ pending = 0 /\ committed = 0 /\ bank = Reserve /\ revenue = 0 /\ posted = {}
  /\ at = [k \in Workers |-> "idle"] /\ held = [k \in Workers |-> NoRef]
  /\ hook = [h \in Hooks |-> IdleHook]
  /\ gateway = [r \in Refs |-> "none"] /\ notices = {}

--------------------------------------------------------------------------------
(* The ledger. *)

Returns == {"reject", "restore", "return"}
Payouts == {"complete", "settle"}
Kinds == {"request", "commit"} \cup Returns \cup Payouts

(* CreateTransaction with the entries and the idempotency key of one kind   *)
(* of posting.  A key already there makes it a no-op; a balance below zero  *)
(* fails the transaction (financial_accounts_balance_nonneg).               *)
Post(kind, w) ==
  LET moved(plus, minus) ==
        IF kind \in plus THEN Amount ELSE IF kind \in minus THEN -Amount ELSE 0
  IN IF <<kind, w>> \in posted THEN UNCHANGED ledgerVars
     ELSE /\ posted' = posted \cup {<<kind, w>>}
          /\ payable' = [payable EXCEPT ![SellerOf[w]] = @ + moved(Returns, {"request"})]
          /\ pending' = pending + moved({"request"}, {"commit", "reject"})
          /\ committed' = committed + moved({"commit"}, {"restore", "return"} \cup Payouts)
          /\ bank' = bank - (IF kind \in Payouts THEN Amount - Fee ELSE 0)
          /\ revenue' = revenue + (IF kind \in Payouts THEN Fee ELSE 0)
          /\ payable'[SellerOf[w]] >= 0 /\ pending' >= 0 /\ committed' >= 0 /\ bank' >= 0

SetStatus(w, s) == status' = [status EXCEPT ![w] = s]

--------------------------------------------------------------------------------
(* The withdraw service: seller and admins, one transaction each.           *)

(* RequestWithdrawal.  AssertSellerWithdrawalAllowed locks the payable      *)
(* account, so the requests of one seller follow each other.                *)
Request(w) ==
  /\ status[w] = "NONE"
  /\ Amount <= payable[SellerOf[w]]
  /\ ~\E v \in Withdrawals : SellerOf[v] = SellerOf[w] /\ Active(v)
  /\ Post("request", w)
  /\ SetStatus(w, "REQUESTED")
  /\ UNCHANGED <<ref, retries, whitelist, at, held, hook, gateway, notices>>

(* Mutant of ApproveWithdraw: what has failed may be approved once more. *)
ApproveFailedWithdraw(w) ==
  /\ status[w] \in {"REQUESTED", "FAILED_FINAL"}
  /\ Post("commit", w)
  /\ SetStatus(w, "PROCESSING")
  /\ UNCHANGED <<ref, retries, whitelist, at, held, hook, gateway, notices>>

ApproveWithdraw(w) ==
  /\ status[w] = "REQUESTED"
  /\ Post("commit", w)
  /\ SetStatus(w, "PROCESSING")
  /\ UNCHANGED <<ref, retries, whitelist, at, held, hook, gateway, notices>>

(* Mutant of RejectWithdraw: also what the gateway has can be rejected. *)
RejectSubmittedWithdraw(w) ==
  /\ \/ status[w] = "REQUESTED" /\ Post("reject", w)
     \/ status[w] \in {"PROCESSING", "SUBMITTED"} /\ Post("restore", w)
  /\ SetStatus(w, "FAILED")
  /\ UNCHANGED <<ref, retries, whitelist, at, held, hook, gateway, notices>>

(* RejectWithdraw asks only for the status.  What it calls "approved but    *)
(* not submitted" is up to the admin: RejectsUnsent.                        *)
RejectWithdraw(w) ==
  /\ \/ status[w] = "REQUESTED" /\ Post("reject", w)
     \/ /\ status[w] = "PROCESSING"
        /\ RejectsUnsent => ref[w] = NoRef
        /\ Post("restore", w)
  /\ SetStatus(w, "FAILED")
  /\ UNCHANGED <<ref, retries, whitelist, at, held, hook, gateway, notices>>

(* Mutant of MarkProcessed: completed by hand while the gateway has it. *)
MarkProcessedAnyway(w) ==
  /\ status[w] = "PROCESSING"
  /\ Post("complete", w)
  /\ SetStatus(w, "COMPLETED")
  /\ UNCHANGED <<ref, retries, whitelist, at, held, hook, gateway, notices>>

(* The admin has paid by bank transfer. *)
MarkProcessed(w) ==
  /\ status[w] = "PROCESSING" /\ ref[w] = NoRef
  /\ Post("complete", w)
  /\ SetStatus(w, "COMPLETED")
  /\ UNCHANGED <<ref, retries, whitelist, at, held, hook, gateway, notices>>

--------------------------------------------------------------------------------
(* The payout worker: find in one transaction, call the gateway, record the *)
(* outcome in another.  A worker takes its batch row by row.                *)

Hold(k, step, r) ==
  at' = [at EXCEPT ![k] = step] /\ held' = [held EXCEPT ![k] = r]

(* The reference of the withdrawal, made when it is first looked for. *)
EnsureExternalReference(k, w) == IF ref[w] = NoRef THEN <<w, k>> ELSE ref[w]

(* findEligibleWithdrawals: the row locks end with the transaction, so      *)
(* another worker may find the row again while this one holds it.           *)
FindEligible(k, w) ==
  /\ at[k] = "idle" /\ status[w] = "PROCESSING"
  /\ ref' = [ref EXCEPT ![w] = EnsureExternalReference(k, w)]
  /\ Hold(k, "found", ref'[w])
  /\ UNCHANGED <<status, retries, whitelist, ledgerVars, hook, gateway, notices>>

(* findRetryableWithdrawals; its backoff is time that passes. *)
FindRetryable(k, w) ==
  /\ at[k] = "idle" /\ status[w] = "FAILED_RETRYABLE" /\ retries[w] < MaxRetries
  /\ Hold(k, "found", ref[w])
  /\ UNCHANGED <<rowVars, ledgerVars, hook, gateway, notices>>

Admitted(k) == SellerOf[held[k][1]] \in whitelist

PilotBlock(k) ==
  /\ at[k] = "found" /\ ~Admitted(k)
  /\ LET w == held[k][1] IN
       status' = [status EXCEPT ![w] = IF @ = "PROCESSING" THEN "PILOT_BLOCKED" ELSE @]
  /\ Hold(k, "idle", NoRef)
  /\ UNCHANGED <<ref, retries, whitelist, ledgerVars, hook, gateway, notices>>

(* The gateway knows a reference it has seen before and answers with what   *)
(* has become of it; an account it refuses once it refuses again.           *)
Takes(r) == gateway' = [gateway EXCEPT ![r] = IF @ = "none" THEN "queued" ELSE @]
Refuses(r) == gateway' = [gateway EXCEPT ![r] = IF @ = "none" THEN "refused" ELSE @]

(* Mutant of Reply: a refusal becomes an outcome nobody records. *)
ReplyRejected(s) ==
  CASE s \in {"queued", "processed", "completed"} -> "ok"
    [] s = "failed" -> "permanent"
    [] s = "refused" -> "rejected"

Reply(s) ==
  CASE s \in {"queued", "processed", "completed"} -> "ok"
    [] s \in {"failed", "refused"} -> "permanent"

(* A status MapToGatewayStatus does not know is neither a success nor       *)
(* retryable, so submitWithdrawal takes it for a permanent failure.         *)
SubmitAnswered(k) ==
  /\ at[k] = "found" /\ Admitted(k)
  /\ Takes(held[k]) \/ Refuses(held[k])
  /\ \/ Hold(k, Reply(gateway'[held[k]]), held[k])
     \/ ~KnownReplies /\ Hold(k, "permanent", held[k])
  /\ UNCHANGED <<rowVars, ledgerVars, hook, notices>>

(* Mutant of SubmitFailed: no answer is taken for a refusal. *)
SubmitFailedForGood(k) ==
  /\ at[k] = "found" /\ Admitted(k)
  /\ Takes(held[k]) \/ UNCHANGED gateway
  /\ Hold(k, "permanent", held[k])
  /\ UNCHANGED <<rowVars, ledgerVars, hook, notices>>

(* No answer, or one that says to try again: it may have got the request.   *)
SubmitFailed(k) ==
  /\ at[k] = "found" /\ Admitted(k)
  /\ Takes(held[k]) \/ UNCHANGED gateway
  /\ Hold(k, "retryable", held[k])
  /\ UNCHANGED <<rowVars, ledgerVars, hook, notices>>

(* UpdateForSubmission only writes a row that is processing;                *)
(* ResetRetryCount writes any.                                              *)
MarkSubmissionSuccess(k) ==
  /\ at[k] = "ok"
  /\ LET w == held[k][1] IN
       /\ status' = [status EXCEPT ![w] = IF @ = "PROCESSING" THEN "SUBMITTED" ELSE @]
       /\ retries' = [retries EXCEPT ![w] = 0]
  /\ Hold(k, "idle", NoRef)
  /\ UNCHANGED <<ref, whitelist, ledgerVars, hook, gateway, notices>>

CanFail(s) == s \in {"PROCESSING", "SUBMITTED", "SETTLING", "FAILED_RETRYABLE"}

(* Mutant of MarkSubmissionFailed: the status is not looked at again. *)
MarkAnySubmissionFailed(k) ==
  /\ at[k] \in {"retryable", "permanent"}
  /\ LET w == held[k][1] IN
       IF at[k] = "retryable"
       THEN /\ retries' = [retries EXCEPT ![w] = @ + 1]
            /\ SetStatus(w, "FAILED_RETRYABLE")
            /\ UNCHANGED ledgerVars
       ELSE /\ Post("return", w) /\ SetStatus(w, "FAILED_FINAL")
            /\ UNCHANGED retries
  /\ Hold(k, "idle", NoRef)
  /\ UNCHANGED <<ref, whitelist, hook, gateway, notices>>

(* markSubmissionFailed locks the row, leaves a final one alone and returns *)
(* the money of a permanent failure.  Where MarkFailed finds a status it    *)
(* cannot fail, the transaction rolls back.                                 *)
MarkSubmissionFailed(k) ==
  /\ at[k] \in {"retryable", "permanent"}
  /\ LET w == held[k][1] IN
       IF at[k] = "retryable"
       THEN /\ retries' = [retries EXCEPT ![w] =
                             IF IsFinal(status[w]) \/ CanFail(status[w]) THEN @ + 1 ELSE @]
            /\ status' = [status EXCEPT ![w] =
                             IF CanFail(@) THEN "FAILED_RETRYABLE" ELSE @]
            /\ UNCHANGED ledgerVars
       ELSE /\ \/ CanFail(status[w]) /\ Post("return", w) /\ SetStatus(w, "FAILED_FINAL")
               \/ ~CanFail(status[w]) /\ UNCHANGED <<status, ledgerVars>>
            /\ UNCHANGED retries
  /\ Hold(k, "idle", NoRef)
  /\ UNCHANGED <<ref, whitelist, hook, gateway, notices>>

(* The process dies, or cannot write the outcome. *)
Crash(k) ==
  /\ at[k] # "idle"
  /\ Hold(k, "idle", NoRef)
  /\ UNCHANGED <<rowVars, ledgerVars, hook, gateway, notices>>

--------------------------------------------------------------------------------
(* The gateway pays, or fails, what it has taken, and calls back.           *)

Moves(r, from, to, says) ==
  /\ gateway[r] \in from
  /\ gateway' = [gateway EXCEPT ![r] = to]
  /\ notices' = notices \cup {[ref |-> r, says |-> says]}
  /\ UNCHANGED <<rowVars, ledgerVars, at, held, hook>>

GatewayProcesses(r) == Moves(r, {"queued"}, "processed", "PENDING")
GatewayCompletes(r) == Moves(r, {"queued", "processed"}, "completed", "SUCCESS")
GatewayFails(r) == Moves(r, {"queued", "processed"}, "failed", "FAILED")

(* HandleCallback reads the row without locking it ... *)
HookReads(h, n) ==
  /\ hook[h] = IdleHook
  /\ ref[n.ref[1]] = n.ref
  /\ hook' = [hook EXCEPT ![h] = [ref |-> n.ref, says |-> n.says,
                                  seen |-> status[n.ref[1]]]]
  /\ UNCHANGED <<rowVars, ledgerVars, at, held, gateway, notices>>

Acknowledge(h) ==
  /\ hook' = [hook EXCEPT ![h] = IdleHook]
  /\ notices' = notices \ {[ref |-> hook[h].ref, says |-> hook[h].says]}
  /\ UNCHANGED <<ref, retries, whitelist, at, held, gateway>>

Submitted(s) == s \in {"SUBMITTED", "SETTLING"}

(* ... and writes by what it has read: each of the updates has its own      *)
(* condition on the status, and MarkSettled and MarkSettling do not mind if *)
(* that is no longer met.                                                   *)
HookSettles(h) ==
  /\ hook[h].says = "SUCCESS" /\ Submitted(hook[h].seen)
  /\ Post("settle", hook[h].ref[1])
  /\ status' = [status EXCEPT ![hook[h].ref[1]] = IF Submitted(@) THEN "SETTLED" ELSE @]
  /\ Acknowledge(h)

HookMarksSettling(h) ==
  /\ hook[h].says = "PENDING" /\ hook[h].seen = "SUBMITTED"
  /\ status' = [status EXCEPT ![hook[h].ref[1]] = IF @ = "SUBMITTED" THEN "SETTLING" ELSE @]
  /\ Acknowledge(h)
  /\ UNCHANGED ledgerVars

HookReturns(h) ==
  /\ hook[h].says = "FAILED" /\ Submitted(hook[h].seen)
  /\ CanFail(status[hook[h].ref[1]])
  /\ Post("return", hook[h].ref[1])
  /\ SetStatus(hook[h].ref[1], "FAILED_FINAL")
  /\ Acknowledge(h)

(* A duplicate, or a transition that is not valid, is answered with 200 all *)
(* the same and does not come again.                                        *)
HookIgnores(h) ==
  /\ hook[h] # IdleHook
  /\ \/ ~Submitted(hook[h].seen)
     \/ hook[h].says = "PENDING" /\ hook[h].seen = "SETTLING"
  /\ Acknowledge(h)
  /\ UNCHANGED <<status, ledgerVars>>

(* What the payout client makes of a status of the gateway ...              *)
mapMidtransStatus(s) ==
  CASE s = "queued" -> "SUBMITTED"
    [] s = "processed" -> "SETTLING"
    [] s = "completed" -> "SETTLED"
    [] s = "failed" -> "FAILED_FINAL"
    [] OTHER -> "UNKNOWN"

(* ... and what reconciliation, which expects the gateway's, makes of that. *)
MapGatewayStatusToCallback(s) ==
  CASE s = "completed" -> "SUCCESS"
    [] s \in {"queued", "processed"} -> "PENDING"
    [] s = "failed" -> "FAILED"
    [] OTHER -> "UNKNOWN"

(* ReconcilePayout asks the gateway and hands the answer to HandleCallback, *)
(* unless it does not know it.                                              *)
Reconcile(h, w) ==
  /\ hook[h] = IdleHook /\ Submitted(status[w])
  /\ LET says == MapGatewayStatusToCallback(mapMidtransStatus(gateway[ref[w]])) IN
       hook' = IF says = "UNKNOWN" THEN hook
               ELSE [hook EXCEPT ![h] = [ref |-> ref[w], says |-> says, seen |-> status[w]]]
  /\ UNCHANGED <<rowVars, ledgerVars, at, held, gateway, notices>>

(* The transaction fails: 500, and the gateway calls again.                 *)
HookFails(h) ==
  /\ hook[h] # IdleHook
  /\ hook' = [hook EXCEPT ![h] = IdleHook]
  /\ UNCHANGED <<rowVars, ledgerVars, at, held, gateway, notices>>

Next ==
  \/ \E w \in Withdrawals :
       \/ Request(w) \/ ApproveWithdraw(w) \/ RejectWithdraw(w) \/ MarkProcessed(w)
       \/ \E k \in Workers : FindEligible(k, w) \/ FindRetryable(k, w)
  \/ \E k \in Workers : \/ PilotBlock(k) \/ SubmitAnswered(k) \/ SubmitFailed(k)
                        \/ MarkSubmissionSuccess(k) \/ MarkSubmissionFailed(k) \/ Crash(k)
  \/ \E r \in Refs : GatewayProcesses(r) \/ GatewayCompletes(r) \/ GatewayFails(r)
  \/ \E h \in Hooks : \/ \E n \in notices : HookReads(h, n)
                      \/ \E w \in Withdrawals : Reconcile(h, w)
                      \/ HookSettles(h) \/ HookMarksSettling(h) \/ HookReturns(h)
                      \/ HookIgnores(h) \/ HookFails(h)

Spec == Init /\ [][Next]_vars

--------------------------------------------------------------------------------
(* Properties. *)

TypeOK ==
  /\ status \in [Withdrawals -> Statuses]
  /\ ref \in [Withdrawals -> Refs \cup {NoRef}]
  /\ retries \in [Withdrawals -> Nat] /\ whitelist \subseteq Sellers
  /\ payable \in [Sellers -> Nat]
  /\ pending \in Nat /\ committed \in Nat /\ bank \in Nat /\ revenue \in Nat
  /\ posted \subseteq Kinds \X Withdrawals
  /\ at \in [Workers -> {"idle", "found", "ok", "retryable", "permanent"}]
  /\ held \in [Workers -> Refs \cup {NoRef}]
  /\ hook \in [Hooks -> [ref : Refs \cup {NoRef}, says : {"NONE", "SUCCESS", "PENDING", "FAILED"},
                         seen : Statuses]]
  /\ gateway \in [Refs -> {"none", "refused", "queued", "processed", "completed", "failed"}]
  /\ notices \subseteq [ref : Refs, says : {"SUCCESS", "PENDING", "FAILED"}]

PlacedBy(w) == {kind \in Returns \cup Payouts : <<kind, w>> \in posted}

(* The money of a withdrawal ends in one place and gets there once: back    *)
(* with the seller, or out to the bank, however many workers and handlers   *)
(* record its outcome; and a final withdrawal leaves none of it behind in   *)
(* the accounts in between.                                                 *)
PlacedOnce ==
  \A w \in Withdrawals :
    Cardinality(PlacedBy(w)) \in (IF IsFinal(status[w]) THEN {1} ELSE {0, 1})

Paying(r) == gateway[r] \in {"queued", "processed", "completed"}

(* A withdrawal is paid out once: under one reference at the gateway,       *)
(* however often it is submitted, or by hand and then not at the gateway.   *)
PaidOnce ==
  \A w \in Withdrawals :
    /\ Cardinality({k \in Workers : Paying(<<w, k>>)}) <= 1
    /\ status[w] = "COMPLETED" => \A k \in Workers : ~Paying(<<w, k>>)

(* What the seller has back on the books is not also being paid out, and    *)
(* what the books call paid the gateway has paid.                           *)
BooksFollowGateway ==
  \A w \in Withdrawals :
    /\ PlacedBy(w) \cap Returns # {} => \A k \in Workers : ~Paying(<<w, k>>)
    /\ <<"settle", w>> \in posted => \E k \in Workers : gateway[<<w, k>>] = "completed"

(* "PROCESSING withdrawals (approved but not submitted)", says              *)
(* RejectWithdraw of those it returns the money of: what it has rejected is *)
(* not with the gateway.                                                    *)
RejectedIsNotSubmitted ==
  \A w \in Withdrawals : status[w] = "FAILED" => \A k \in Workers : ~Paying(<<w, k>>)

(* The balances are what the rows say: what is requested is pending, what   *)
(* is under way and not placed is committed, as in                          *)
(* checkWithdrawalInvariants of the ledger verifier (which counts rows a    *)
(* stale callback has settled early as well, and would be wrong there), a   *)
(* seller is short of what has not come back, bank and revenue have shared  *)
(* what has been paid.  So no withdrawal lives on, or waits for, the money  *)
(* of another.                                                              *)
BalancesMatchRows ==
  LET requested == {w \in Withdrawals : status[w] = "REQUESTED"}
      underWay ==
        {w \in Withdrawals :
           /\ status[w] \in {"PROCESSING", "PILOT_BLOCKED", "SUBMITTED", "SETTLING",
                             "FAILED_RETRYABLE"}
           /\ PlacedBy(w) = {}}
      paid == {w \in Withdrawals : PlacedBy(w) \cap Payouts # {}}
      taken(s) ==
        {w \in Withdrawals :
           SellerOf[w] = s /\ status[w] \notin {"NONE", "FAILED", "FAILED_FINAL"}}
  IN /\ pending = Amount * Cardinality(requested)
     /\ committed = Amount * Cardinality(underWay)
     /\ bank = Reserve - (Amount - Fee) * Cardinality(paid)
     /\ revenue = Fee * Cardinality(paid)
     /\ \A s \in Sellers : payable[s] = Earnings[s] - Amount * Cardinality(taken(s))

(* The money of each withdrawal goes through custody like that of an order: *)
(* taken from the seller's earnings at most once, it leaves at most once,   *)
(* whole, back to the seller or out to the bank.                            *)
Returned(w) == Amount * Cardinality(PlacedBy(w) \cap Returns)
PaidOut(w) == Amount * Cardinality(PlacedBy(w) \cap Payouts)
InCustody(w) ==
  (IF <<"request", w>> \in posted THEN Amount ELSE 0) - Returned(w) - PaidOut(w)

Custodian(w) ==
  INSTANCE Custody WITH Total <- Amount, held <- InCustody(w),
                        buyer <- Returned(w), seller <- PaidOut(w)
WithdrawalsInCustody ==
  /\ \A w \in Withdrawals : Custodian(w)!Init
  /\ [][\A w \in Withdrawals : [Custodian(w)!Next]_(Custodian(w)!vars)]_vars

(* A seller has one withdrawal under way at a time, whatever it waits for.  *)
OneActivePerSeller ==
  \A s \in Sellers :
    Cardinality({w \in Withdrawals : SellerOf[w] = s /\ status[w] # "NONE"
                                     /\ ~IsFinal(status[w])}) <= 1

(* A final status is final: late outcomes and callbacks do not change it.   *)
FinalStays ==
  [][\A w \in Withdrawals : IsFinal(status[w]) => status'[w] = status[w]]_vars

================================================================================
