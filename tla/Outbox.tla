--------------------------------- MODULE Outbox ---------------------------------
(***************************************************************************)
(* The transactional outbox.  Services write an event in the transaction of *)
(* what it tells of; workers fetch events in one short transaction, whose   *)
(* locks end with it, and process each in another: mark it, run its         *)
(* handlers, record the outcome.  What a worker works with is therefore a   *)
(* copy, with the retry count of when it was fetched; the handlers commit   *)
(* transactions of their own, which the outbox transaction cannot undo.     *)
(*                                                                          *)
(* "processing" is written and overwritten in one transaction, so no other  *)
(* sees it: the status here is the committed one, and the recovery of       *)
(* events stuck in processing finds none.                                   *)
(***************************************************************************)
EXTENDS Integers, FiniteSets

CONSTANTS
  Events,          \* idempotency keys
  OwnedOutboxEventTypes, \* those whose type is the realtime worker's
  HandlersOf,      \* how many handlers the type of each has
  Acknowledged,    \* those whose type is known to have none
  CoreWorkers, RealtimeWorkers,
  MaxAttempts,     \* 20
  MaxRows,         \* bound: rows ever written for one key
  MaxRedeliveries, \* bound: failures of the realtime worker, which never gives up
  MaxFaults,       \* bound: transactions that fail and processes that die
  Idle

ASSUME EventAssumption ==
  /\ OwnedOutboxEventTypes \subseteq Events /\ Acknowledged \subseteq Events
  /\ HandlersOf \in [Events -> Nat]
  /\ \A e \in Acknowledged : HandlersOf[e] = 0
ASSUME BoundAssumption ==
  /\ MaxAttempts \in Nat \ {0} /\ MaxRows \in Nat /\ MaxRedeliveries \in Nat
  /\ MaxFaults \in Nat
  /\ CoreWorkers \cap RealtimeWorkers = {}
ASSUME IdleAssumption == Idle \notin [event : Events, id : Nat, retries : Nat, next : Nat \ {0}]

VARIABLES
  status,    \* outbox.status, "none" where there is no row
  id,        \* outbox.id: rows of a key are numbered
  retries,   \* outbox.retry_count
  due,       \* rows with next_attempt_at in the past
  taken,     \* copies in the batch of each worker
  at,        \* the transaction of each worker: a copy and the next handler
  handled,   \* handlers that have returned without error for the row
  failures,  \* attempts at the row that were recorded as failed, up to MaxAttempts
  faults     \* how often a transaction failed or a process died

rowVars == <<status, id, retries, due>>
vars == <<rowVars, taken, at, handled, failures, faults>>

Workers == CoreWorkers \cup RealtimeWorkers
Copies == [event : Events, id : Nat, retries : Nat]
Transactions == [event : Events, id : Nat, retries : Nat, next : Nat \ {0}]

Init ==
  /\ status = [e \in Events |-> "none"] /\ id = [e \in Events |-> 0]
  /\ retries = [e \in Events |-> 0] /\ due = {}
  /\ taken = [k \in Workers |-> {}] /\ at = [k \in Workers |-> Idle]
  /\ handled = [e \in Events |-> {}] /\ failures = [e \in Events |-> 0]
  /\ faults = 0

--------------------------------------------------------------------------------
(* Writing and removing. *)

(* InsertEvent, in the caller's transaction: nothing if the key is there.   *)
InsertEvent(e) ==
  /\ status[e] = "none" /\ id[e] < MaxRows
  /\ status' = [status EXCEPT ![e] = "pending"] /\ id' = [id EXCEPT ![e] = @ + 1]
  /\ retries' = [retries EXCEPT ![e] = 0] /\ due' = due \cup {e}
  /\ handled' = [handled EXCEPT ![e] = {}] /\ failures' = [failures EXCEPT ![e] = 0]
  /\ UNCHANGED <<taken, at, faults>>

(* ArchiveBatch moves old rows that succeeded; their keys are free again.   *)
ArchiveBatch ==
  \E old \in SUBSET {e \in Events : status[e] = "succeeded"} :
    /\ old # {}
    /\ status' = [e \in Events |-> IF e \in old THEN "none" ELSE status[e]]
    /\ due' = due \ old
    /\ UNCHANGED <<id, retries, taken, at, handled, failures, faults>>

--------------------------------------------------------------------------------
(* Fetching. *)

Scope(k) == IF k \in CoreWorkers THEN Events \ OwnedOutboxEventTypes ELSE OwnedOutboxEventTypes
Claimable(e) == status[e] \in {"pending", "failed"}
Locked(e) == \E k \in Workers : at[k] # Idle /\ at[k].event = e /\ at[k].id = id[e]

(* FetchPendingBatch skips what is locked just now. *)
FetchPendingBatch(k) ==
  LET batch == {e \in Scope(k) \cap due : Claimable(e) /\ ~Locked(e)}
  IN /\ taken[k] = {} /\ at[k] = Idle /\ batch # {}
     /\ taken' = [taken EXCEPT ![k] =
                    {[event |-> e, id |-> id[e], retries |-> retries[e]] : e \in batch}]
     /\ UNCHANGED <<rowVars, at, handled, failures, faults>>

(* The backoff of a failed attempt is over. *)
Elapse(e) ==
  /\ status[e] = "failed" /\ e \notin due
  /\ due' = due \cup {e}
  /\ UNCHANGED <<status, id, retries, taken, at, handled, failures, faults>>

--------------------------------------------------------------------------------
(* Processing. *)

StillThere(c) == id[c.event] = c.id /\ status[c.event] # "none"

Begin(k, c) ==
  /\ taken' = [taken EXCEPT ![k] = @ \ {c}]
  /\ at' = [at EXCEPT ![k] = [event |-> c.event, id |-> c.id, retries |-> c.retries, next |-> 1]]
  /\ UNCHANGED <<rowVars, handled, failures, faults>>

(* Mutant of MarkProcessing: the row is marked whatever its status. *)
MarkProcessingAny(k, c) ==
  /\ c \in taken[k] /\ at[k] = Idle
  /\ StillThere(c) /\ ~Locked(c.event)
  /\ Begin(k, c)

(* The update waits for the row's lock and looks at the status again; that  *)
(* the row was to wait longer, or has been tried since, it does not see.    *)
MarkProcessing(k, c) ==
  /\ c \in taken[k] /\ at[k] = Idle
  /\ StillThere(c) /\ ~Locked(c.event) /\ Claimable(c.event)
  /\ Begin(k, c)

(* Another worker was faster. *)
Skip(k, c) ==
  /\ c \in taken[k] /\ at[k] = Idle
  /\ ~(StillThere(c) /\ (Locked(c.event) \/ Claimable(c.event)))
  /\ taken' = [taken EXCEPT ![k] = @ \ {c}]
  /\ UNCHANGED <<rowVars, at, handled, failures, faults>>

Commit(k) == at' = [at EXCEPT ![k] = Idle] /\ UNCHANGED <<id, taken, faults>>

(* Mutant of Handle: the handlers after one that fails are run all the same *)
(* and the failure is only logged.                                          *)
HandleAndGoOn(k) ==
  /\ at[k] # Idle /\ at[k].next <= HandlersOf[at[k].event]
  /\ at' = [at EXCEPT ![k].next = @ + 1]
  /\ \/ handled' = [handled EXCEPT ![at[k].event] = @ \cup {at[k].next}]
     \/ UNCHANGED handled
  /\ UNCHANGED <<rowVars, taken, failures, faults>>

(* One handler of the fanout is through.  A second attempt runs again what  *)
(* the first has run.                                                       *)
Handle(k) ==
  /\ at[k] # Idle /\ at[k].next <= HandlersOf[at[k].event]
  /\ at' = [at EXCEPT ![k].next = @ + 1]
  /\ handled' = [handled EXCEPT ![at[k].event] = @ \cup {at[k].next}]
  /\ UNCHANGED <<rowVars, taken, failures, faults>>

(* An event whose type has no handler is done if that is as it should be.   *)
MarkSucceeded(k) ==
  /\ at[k] # Idle /\ at[k].next > HandlersOf[at[k].event]
  /\ HandlersOf[at[k].event] = 0 => at[k].event \in Acknowledged
  /\ status' = [status EXCEPT ![at[k].event] = "succeeded"]
  /\ Commit(k)
  /\ UNCHANGED <<retries, due, handled, failures>>

Fails(k) ==
  /\ at[k] # Idle
  /\ \/ at[k].next <= HandlersOf[at[k].event]
     \/ HandlersOf[at[k].event] = 0 /\ at[k].event \notin Acknowledged
  /\ failures' = [failures EXCEPT ![at[k].event] = IF @ < MaxAttempts THEN @ + 1 ELSE @]
  /\ Commit(k)
  /\ UNCHANGED handled

MarkFailedWithRetry(k) ==
  /\ status' = [status EXCEPT ![at[k].event] = "failed"]
  /\ retries' = [retries EXCEPT ![at[k].event] = at[k].retries + 1]
  /\ due' = due \ {at[k].event}

MoveToDeadLetter(k) ==
  /\ status' = [status EXCEPT ![at[k].event] = "dead_letter"]
  /\ UNCHANGED <<retries, due>>

(* Mutants of handleFailureInTx: parked one attempt late, one early, and    *)
(* never.                                                                   *)
handleFailureLate(k) ==
  /\ k \in CoreWorkers /\ Fails(k)
  /\ IF at[k].retries + 1 > MaxAttempts THEN MoveToDeadLetter(k) ELSE MarkFailedWithRetry(k)

handleFailureEarly(k) ==
  /\ k \in CoreWorkers /\ Fails(k)
  /\ IF at[k].retries + 2 >= MaxAttempts THEN MoveToDeadLetter(k) ELSE MarkFailedWithRetry(k)

handleFailureUncounted(k) ==
  /\ k \in CoreWorkers /\ Fails(k)
  /\ status' = [status EXCEPT ![at[k].event] = "failed"]
  /\ due' = due \ {at[k].event}
  /\ UNCHANGED retries

handleFailureInTx(k) ==
  /\ k \in CoreWorkers /\ Fails(k)
  /\ IF at[k].retries + 1 >= MaxAttempts THEN MoveToDeadLetter(k) ELSE MarkFailedWithRetry(k)

(* The realtime worker tries for ever. *)
RealtimeFails(k) ==
  /\ k \in RealtimeWorkers /\ Fails(k)
  /\ at[k].retries < MaxRedeliveries
  /\ MarkFailedWithRetry(k)

Fault == faults < MaxFaults /\ faults' = faults + 1

(* The transaction fails: the row is as it was, uncounted.  What handlers   *)
(* have done stays done.                                                    *)
RollBack(k) ==
  /\ at[k] # Idle
  /\ at' = [at EXCEPT ![k] = Idle]
  /\ Fault
  /\ UNCHANGED <<rowVars, taken, handled, failures>>

(* The process dies, and its batch with it. *)
Crash(k) ==
  /\ at[k] # Idle \/ taken[k] # {}
  /\ at' = [at EXCEPT ![k] = Idle] /\ taken' = [taken EXCEPT ![k] = {}]
  /\ Fault
  /\ UNCHANGED <<rowVars, handled, failures>>

Next ==
  \/ \E e \in Events : InsertEvent(e) \/ Elapse(e)
  \/ ArchiveBatch
  \/ \E k \in Workers :
       \/ FetchPendingBatch(k)
       \/ \E c \in taken[k] : MarkProcessing(k, c) \/ Skip(k, c)
       \/ Handle(k) \/ MarkSucceeded(k) \/ handleFailureInTx(k) \/ RealtimeFails(k)
       \/ RollBack(k) \/ Crash(k)

Spec == Init /\ [][Next]_vars

(* The core workers poll and go through their batches.                      *)
FairSpec ==
  /\ Spec
  /\ \A e \in Events : WF_vars(Elapse(e))
  /\ \A k \in CoreWorkers :
       /\ WF_vars(FetchPendingBatch(k))
       /\ WF_vars(\E c \in taken[k] : MarkProcessing(k, c) \/ Skip(k, c))
       /\ WF_vars(Handle(k) \/ MarkSucceeded(k) \/ handleFailureInTx(k))

--------------------------------------------------------------------------------
(* Properties. *)

Statuses == {"none", "pending", "failed", "succeeded", "dead_letter"}

(* The count of an event of the core workers stays below the maximum.       *)
TypeOK ==
  /\ status \in [Events -> Statuses] /\ id \in [Events -> Nat]
  /\ retries \in [Events -> Nat]
  /\ \A e \in Events \ OwnedOutboxEventTypes : retries[e] < MaxAttempts
  /\ due \subseteq Events
  /\ taken \in [Workers -> SUBSET Copies] /\ at \in [Workers -> Transactions \cup {Idle}]
  /\ handled \in [Events -> SUBSET Nat] /\ failures \in [Events -> Nat]
  /\ faults \in Nat

(* Delivered means to everyone: an event has succeeded only when each of    *)
(* its handlers has returned without error for it, in one attempt or more,  *)
(* whatever crashed in between.                                             *)
DeliveredToAll ==
  \A e \in Events : status[e] = "succeeded" => 1..HandlersOf[e] \subseteq handled[e]

(* An event is given up only after as many failures as are allowed, though  *)
(* workers count from stale copies; what a copy says was a count once.      *)
GivenUpAfterMaxAttempts ==
  \A e \in Events : status[e] = "dead_letter" => failures[e] >= MaxAttempts

(* An event that has succeeded or been given up is not handled again, even  *)
(* by a worker that fetched it before.                                      *)
Concludes(e) == status[e] \in {"succeeded", "dead_letter"}
NotHandledAgain ==
  [][\A e \in Events : Concludes(e) /\ id'[e] = id[e] =>
       /\ handled'[e] = handled[e] /\ failures'[e] = failures[e]
       /\ status'[e] \in {status[e]} \cup (IF status[e] = "succeeded" THEN {"none"} ELSE {})]_vars

(* Every event of the core workers is delivered or given up, although       *)
(* stale copies set the count back.                                         *)
EveryEventConcluded ==
  \A e \in Events \ OwnedOutboxEventTypes : Claimable(e) ~> Concludes(e)

================================================================================
