------------------------------ MODULE Outbox_proofs ------------------------------
(***************************************************************************)
(* Proofs about Outbox, for any sets of events and workers, any numbers of  *)
(* handlers, attempts, rows and faults.                                     *)
(***************************************************************************)
EXTENDS Outbox, TLAPS

--------------------------------------------------------------------------------
(* The inductive invariant. *)

(* A retry count read at some time: no more than the failures since then.   *)
Counted(r, e) == failures[e] >= MaxAttempts \/ r <= failures[e]

(* What a worker holds is a row of its own scope that was there once.       *)
CopiesAreOld ==
  \A k \in Workers : \A c \in taken[k] :
    /\ c.event \in Scope(k) /\ c.id <= id[c.event]
    /\ c.id = id[c.event] => Counted(c.retries, c.event)

CountsAreOld == \A e \in Events : Counted(retries[e], e)

(* A transaction holds the row as it is, and no other holds it as well.     *)
TransactionsHoldRows ==
  /\ \A k \in Workers : at[k] # Idle =>
       /\ at[k].event \in Scope(k) /\ at[k].id = id[at[k].event]
       /\ Claimable(at[k].event) /\ Counted(at[k].retries, at[k].event)
       /\ \A n \in Nat \ {0} : n < at[k].next => n \in handled[at[k].event]
  /\ \A k, j \in Workers :
       at[k] # Idle /\ at[j] # Idle /\ at[k].event = at[j].event => k = j

IInv ==
  /\ TypeOK
  /\ CopiesAreOld /\ CountsAreOld /\ TransactionsHoldRows
  /\ DeliveredToAll /\ GivenUpAfterMaxAttempts

--------------------------------------------------------------------------------

LEMMA ScopeIsEvents == \A k \in Workers : Scope(k) \subseteq Events
BY EventAssumption DEF Scope

LEMMA TransactionIsCopy ==
  ASSUME TypeOK, NEW k \in Workers, at[k] # Idle
  PROVE  at[k] \in Transactions /\ at[k].event \in Events
BY DEF TypeOK, Transactions

LEMMA InitEstablishes == Init => IInv
<1> SUFFICES ASSUME Init PROVE IInv
  OBVIOUS
<1> USE DEF Init
<1>1. TypeOK
  BY BoundAssumption DEF TypeOK, Statuses
<1>2. CopiesAreOld /\ TransactionsHoldRows
  BY DEF CopiesAreOld, TransactionsHoldRows
<1>3. CountsAreOld
  BY BoundAssumption DEF CountsAreOld, Counted
<1>4. DeliveredToAll /\ GivenUpAfterMaxAttempts
  BY DEF DeliveredToAll, GivenUpAfterMaxAttempts
<1>5. QED
  BY <1>1, <1>2, <1>3, <1>4 DEF IInv

(* A new row: no transaction is about it, and copies of its key are older.  *)
LEMMA InsertKeeps ==
  ASSUME IInv, NEW e \in Events, InsertEvent(e)
  PROVE  IInv'
<1> USE DEF IInv, InsertEvent
<1>1. TypeOK'
  BY BoundAssumption DEF TypeOK, Statuses
<1>2. CopiesAreOld'
  BY ScopeIsEvents DEF TypeOK, CopiesAreOld, Counted, Copies
<1>3. CountsAreOld'
  BY BoundAssumption DEF TypeOK, CountsAreOld, Counted
<1>4. TransactionsHoldRows'
  BY ScopeIsEvents, TransactionIsCopy DEF TypeOK, TransactionsHoldRows, Claimable, Counted
<1>5. (DeliveredToAll /\ GivenUpAfterMaxAttempts)'
  BY DEF TypeOK, DeliveredToAll, GivenUpAfterMaxAttempts
<1>6. QED
  BY <1>1, <1>2, <1>3, <1>4, <1>5

LEMMA ArchiveKeeps == ASSUME IInv, ArchiveBatch PROVE IInv'
<1> PICK old \in SUBSET {e \in Events : status[e] = "succeeded"} :
      /\ status' = [e \in Events |-> IF e \in old THEN "none" ELSE status[e]]
      /\ due' = due \ old
      /\ UNCHANGED <<id, retries, taken, at, handled, failures, faults>>
  BY DEF ArchiveBatch
<1> USE DEF IInv
<1>1. TypeOK'
  BY DEF TypeOK, Statuses
<1>2. CopiesAreOld' /\ CountsAreOld'
  BY DEF CopiesAreOld, CountsAreOld, Counted
<1>3. TransactionsHoldRows'
  BY ScopeIsEvents, TransactionIsCopy DEF TransactionsHoldRows, Claimable, Counted
<1>4. (DeliveredToAll /\ GivenUpAfterMaxAttempts)'
  BY DEF DeliveredToAll, GivenUpAfterMaxAttempts
<1>5. QED
  BY <1>1, <1>2, <1>3, <1>4

LEMMA FetchKeeps ==
  ASSUME IInv, NEW k \in Workers, FetchPendingBatch(k)
  PROVE  IInv'
<1> USE DEF IInv, FetchPendingBatch
<1> DEFINE batch == {e \in Scope(k) \cap due : Claimable(e) /\ ~Locked(e)}
           copy(e) == [event |-> e, id |-> id[e], retries |-> retries[e]]
<1>1. taken' = [taken EXCEPT ![k] = {copy(e) : e \in batch}]
  OBVIOUS
<1>2. \A e \in batch : e \in Scope(k) /\ e \in Events /\ copy(e) \in Copies
  BY ScopeIsEvents DEF TypeOK, Copies
<1>3. TypeOK'
  BY <1>1, <1>2 DEF TypeOK, rowVars
<1>4. CopiesAreOld'
  <2> SUFFICES ASSUME NEW j \in Workers, NEW c \in taken'[j]
               PROVE  /\ c.event \in Scope(j) /\ c.id <= id[c.event]
                      /\ c.id = id[c.event] => Counted(c.retries, c.event)
    BY DEF CopiesAreOld, rowVars, Counted
  <2>1. CASE j = k
    <3>1. PICK e \in batch : c = copy(e)
      BY <1>1, <2>1 DEF TypeOK
    <3>2. QED
      BY <3>1, <1>2, <2>1 DEF CountsAreOld, TypeOK
  <2>2. CASE j # k
    BY <1>1, <2>2 DEF CopiesAreOld, TypeOK
  <2>3. QED
    BY <2>1, <2>2
<1>5. CountsAreOld' /\ TransactionsHoldRows'
  BY DEF CountsAreOld, TransactionsHoldRows, Counted, Claimable, rowVars
<1>6. (DeliveredToAll /\ GivenUpAfterMaxAttempts)'
  BY DEF DeliveredToAll, GivenUpAfterMaxAttempts, rowVars
<1>7. QED
  BY <1>3, <1>4, <1>5, <1>6

(* Letting go of copies keeps what is said of the others. *)
LEMMA FewerCopies ==
  ASSUME TypeOK, CopiesAreOld, UNCHANGED <<id, failures>>,
         taken' \in [Workers -> SUBSET Copies],
         \A k \in Workers : taken'[k] \subseteq taken[k]
  PROVE  CopiesAreOld'
BY DEF CopiesAreOld, Counted

LEMMA MarkKeeps ==
  ASSUME IInv, NEW k \in Workers, NEW c \in taken[k], MarkProcessing(k, c)
  PROVE  IInv'
<1> USE DEF IInv, MarkProcessing, Begin
<1> DEFINE t == [event |-> c.event, id |-> c.id, retries |-> c.retries, next |-> 1]
<1>1. c \in Copies /\ c.event \in Events /\ t \in Transactions /\ t # Idle
  BY IdleAssumption DEF TypeOK, Copies, Transactions
<1>2. at' = [at EXCEPT ![k] = t] /\ UNCHANGED <<rowVars, handled, failures, faults>>
  OBVIOUS
<1>3. TypeOK'
  BY <1>1, <1>2 DEF TypeOK, rowVars
<1>4. CopiesAreOld'
  BY <1>3, FewerCopies DEF TypeOK, rowVars
<1>5. CountsAreOld'
  BY <1>2 DEF CountsAreOld, Counted, rowVars
<1>6. TransactionsHoldRows'
  <2>1. c.event \in Scope(k) /\ c.id = id[c.event] /\ Counted(c.retries, c.event)
    BY DEF StillThere, CopiesAreOld
  <2>2. \A j \in Workers : at[j] # Idle => at[j].event # c.event
    BY <2>1 DEF Locked, TransactionsHoldRows
  <2>3. \A j \in Workers : j # k => at'[j] = at[j]
    BY <1>2 DEF TypeOK
  <2>4. at'[k] = t
    BY <1>2 DEF TypeOK
  <2>5. QED
    BY <1>1, <1>2, <2>1, <2>2, <2>3, <2>4
    DEF TransactionsHoldRows, Claimable, Counted, rowVars
<1>7. (DeliveredToAll /\ GivenUpAfterMaxAttempts)'
  BY <1>2 DEF DeliveredToAll, GivenUpAfterMaxAttempts, rowVars
<1>8. QED
  BY <1>3, <1>4, <1>5, <1>6, <1>7

(* Steps that end transactions and let go of copies, and change no row.     *)
LEMMA LettingGo ==
  ASSUME IInv, UNCHANGED <<rowVars, handled, failures>>,
         faults' \in Nat,
         taken' \in [Workers -> SUBSET Copies],
         at' \in [Workers -> Transactions \cup {Idle}],
         \A k \in Workers : taken'[k] \subseteq taken[k],
         \A k \in Workers : at'[k] \in {at[k], Idle}
  PROVE  IInv'
<1> USE DEF IInv
<1>1. TypeOK'
  BY DEF TypeOK, rowVars
<1>2. CopiesAreOld'
  BY FewerCopies DEF rowVars
<1>3. CountsAreOld'
  BY DEF CountsAreOld, Counted, rowVars
<1>4. TransactionsHoldRows'
  BY DEF TransactionsHoldRows, Claimable, Counted, rowVars
<1>5. (DeliveredToAll /\ GivenUpAfterMaxAttempts)'
  BY DEF DeliveredToAll, GivenUpAfterMaxAttempts, rowVars
<1>6. QED
  BY <1>1, <1>2, <1>3, <1>4, <1>5

LEMMA HandleKeeps ==
  ASSUME IInv, NEW k \in Workers, Handle(k)
  PROVE  IInv'
<1> USE DEF IInv, Handle
<1>1. at[k] \in Transactions /\ at[k].event \in Events
  BY TransactionIsCopy
<1>2. /\ at'[k] # Idle /\ at'[k].event = at[k].event /\ at'[k].id = at[k].id
      /\ at'[k].retries = at[k].retries /\ at'[k].next = at[k].next + 1
      /\ at'[k] \in Transactions
  BY <1>1, IdleAssumption DEF TypeOK, Transactions
<1>3. \A j \in Workers : j # k => at'[j] = at[j]
  BY DEF TypeOK
<1>4. TypeOK'
  BY <1>1, <1>2 DEF TypeOK, rowVars, Transactions
<1>5. CopiesAreOld' /\ CountsAreOld'
  BY DEF CopiesAreOld, CountsAreOld, Counted, rowVars
<1>6. \A e \in Events : handled[e] \subseteq handled'[e]
  BY DEF TypeOK
<1>7. at[k].next \in handled'[at[k].event]
  BY <1>1 DEF TypeOK
<1>8. TransactionsHoldRows'
  <2> SUFFICES ASSUME NEW j \in Workers, at'[j] # Idle
               PROVE  /\ at'[j].event \in Scope(j) /\ at'[j].id = id[at'[j].event]
                      /\ Claimable(at'[j].event) /\ Counted(at'[j].retries, at'[j].event)
                      /\ \A n \in Nat \ {0} : n < at'[j].next => n \in handled'[at'[j].event]
                      /\ \A i \in Workers : at'[i] # Idle /\ at'[i].event = at'[j].event => i = j
    BY DEF TransactionsHoldRows, Claimable, Counted, rowVars
  <2>1. \A i \in Workers : at'[i] # Idle => at[i] # Idle /\ at'[i].event = at[i].event
    BY <1>2, <1>3
  <2>2. \A i \in Workers : at'[i] # Idle /\ at'[i].event = at'[j].event => i = j
    BY <2>1 DEF TransactionsHoldRows
  <2>3. CASE j = k
    BY <1>1, <1>2, <1>6, <1>7, <2>2, <2>3 DEF TransactionsHoldRows, Transactions
  <2>4. CASE j # k
    BY <1>3, <1>6, <2>2, <2>4, TransactionIsCopy DEF TransactionsHoldRows
  <2>5. QED
    BY <2>3, <2>4
<1>9. (DeliveredToAll /\ GivenUpAfterMaxAttempts)'
  BY <1>6 DEF DeliveredToAll, GivenUpAfterMaxAttempts, rowVars
<1>10. QED
  BY <1>4, <1>5, <1>8, <1>9

(* The steps that record an outcome: they change one row, which no other    *)
(* transaction holds, and end their own.                                    *)
LEMMA OutcomeKeeps ==
  ASSUME IInv, NEW k \in Workers, at[k] # Idle, NEW s \in Statuses, NEW r \in Nat,
         Commit(k), handled' = handled,
         status' = [status EXCEPT ![at[k].event] = s],
         retries' = [retries EXCEPT ![at[k].event] = r],
         due' \subseteq Events, failures' \in [Events -> Nat],
         \A e \in Events : e # at[k].event => failures'[e] = failures[e],
         failures'[at[k].event] >= failures[at[k].event],
         failures'[at[k].event] >= MaxAttempts \/ r <= failures'[at[k].event],
         at[k].event \notin OwnedOutboxEventTypes => r < MaxAttempts,
         s = "succeeded" => 1..HandlersOf[at[k].event] \subseteq handled[at[k].event],
         s = "dead_letter" => failures'[at[k].event] >= MaxAttempts
  PROVE  IInv'
<1> USE DEF IInv, Commit
<1> DEFINE e0 == at[k].event
<1>1. e0 \in Events
  BY TransactionIsCopy
<1>2. \A j \in Workers : j # k => at'[j] = at[j]
  BY DEF TypeOK
<1>3. at'[k] = Idle
  BY DEF TypeOK
<1>4. TypeOK'
  BY <1>1 DEF TypeOK
<1>5. ASSUME NEW e \in Events, NEW n \in Nat, Counted(n, e) PROVE Counted(n, e)'
  <2>1. failures[e] \in Nat /\ failures'[e] \in Nat /\ MaxAttempts \in Nat
    BY BoundAssumption DEF TypeOK
  <2>2. failures'[e] >= failures[e]
    <3>1. CASE e = e0
      BY <3>1
    <3>2. CASE e # e0
      BY <2>1, <3>2
    <3>3. QED
      BY <3>1, <3>2
  <2>3. QED
    BY <1>5, <2>1, <2>2 DEF Counted
<1>6. CopiesAreOld'
  <2> SUFFICES ASSUME NEW j \in Workers, NEW c \in taken[j], c.id = id[c.event]
               PROVE  Counted(c.retries, c.event)'
    BY DEF CopiesAreOld
  <2>1. c \in Copies /\ c.event \in Events /\ c.retries \in Nat
    BY DEF TypeOK, Copies
  <2>2. QED
    BY <1>5, <2>1 DEF CopiesAreOld
<1>7. CountsAreOld'
  <2> SUFFICES ASSUME NEW e \in Events PROVE Counted(retries[e], e)'
    BY DEF CountsAreOld
  <2>1. CASE e = e0
    BY <1>1, <2>1 DEF TypeOK, Counted
  <2>2. CASE e # e0
    <3>1. retries'[e] = retries[e] /\ retries[e] \in Nat
      BY <2>2 DEF TypeOK
    <3>2. QED
      BY <3>1, <1>5 DEF CountsAreOld, Counted
  <2>3. QED
    BY <2>1, <2>2
<1>8. TransactionsHoldRows'
  <2>1. \A j \in Workers : at'[j] # Idle => j # k /\ at'[j] = at[j]
    BY <1>2, <1>3
  <2>2. \A j \in Workers : at'[j] # Idle => at[j].event \in Events /\ at[j].event # e0
                                            /\ at[j].retries \in Nat
    BY <2>1, TransactionIsCopy DEF TransactionsHoldRows, Transactions
  <2>3. \A j \in Workers : at'[j] # Idle => status'[at[j].event] = status[at[j].event]
    BY <2>2 DEF TypeOK
  <2>4. \A j \in Workers : at'[j] # Idle => Counted(at[j].retries, at[j].event)'
    BY <1>5, <2>1, <2>2 DEF TransactionsHoldRows
  <2>5. QED
    BY <2>1, <2>2, <2>3, <2>4 DEF TransactionsHoldRows, Claimable
<1>9. (DeliveredToAll /\ GivenUpAfterMaxAttempts)'
  BY <1>1 DEF TypeOK, DeliveredToAll, GivenUpAfterMaxAttempts
<1>10. QED
  BY <1>4, <1>6, <1>7, <1>8, <1>9

LEMMA SucceedKeeps ==
  ASSUME IInv, NEW k \in Workers, MarkSucceeded(k)
  PROVE  IInv'
<1>1. at[k] \in Transactions /\ at[k].event \in Events
  BY TransactionIsCopy DEF IInv, MarkSucceeded
<1>2. 1..HandlersOf[at[k].event] \subseteq handled[at[k].event]
  BY <1>1, EventAssumption DEF TransactionsHoldRows, Transactions, MarkSucceeded, IInv
<1>3. retries' = [retries EXCEPT ![at[k].event] = retries[at[k].event]]
  BY <1>1 DEF TypeOK, MarkSucceeded, IInv
<1>4. "succeeded" \in Statuses
  BY DEF Statuses
<1>5. /\ at[k] # Idle /\ Commit(k) /\ handled' = handled /\ due' = due /\ failures' = failures
      /\ status' = [status EXCEPT ![at[k].event] = "succeeded"]
  BY DEF MarkSucceeded
<1>6. /\ retries[at[k].event] \in Nat /\ failures[at[k].event] \in Nat
      /\ failures \in [Events -> Nat] /\ due \subseteq Events
      /\ at[k].event \notin OwnedOutboxEventTypes => retries[at[k].event] < MaxAttempts
  BY <1>1 DEF TypeOK, IInv
<1>7. failures[at[k].event] >= MaxAttempts \/ retries[at[k].event] <= failures[at[k].event]
  BY <1>1 DEF CountsAreOld, Counted, IInv
<1>8. /\ failures' \in [Events -> Nat] /\ due' \subseteq Events
      /\ \A e \in Events : e # at[k].event => failures'[e] = failures[e]
      /\ failures'[at[k].event] >= failures[at[k].event]
      /\ failures'[at[k].event] >= MaxAttempts \/ retries[at[k].event] <= failures'[at[k].event]
  BY <1>5, <1>6, <1>7
<1>9. QED
  BY <1>2, <1>3, <1>4, <1>5, <1>6, <1>8, OutcomeKeeps

(* What a failed attempt does to the count of failures.                     *)
LEMMA FailureCounted ==
  ASSUME IInv, NEW k \in Workers, Fails(k)
  PROVE  /\ at[k] \in Transactions /\ at[k].event \in Events
         /\ failures' \in [Events -> Nat]
         /\ \A e \in Events : e # at[k].event => failures'[e] = failures[e]
         /\ failures'[at[k].event] >= failures[at[k].event]
         /\ \/ failures'[at[k].event] >= MaxAttempts
            \/ at[k].retries + 1 <= failures'[at[k].event]
<1>1. at[k] \in Transactions /\ at[k].event \in Events
  BY TransactionIsCopy DEF IInv, Fails
<1>2. Counted(at[k].retries, at[k].event)
  BY DEF IInv, Fails, TransactionsHoldRows
<1>3. QED
  BY <1>1, <1>2, BoundAssumption DEF IInv, TypeOK, Fails, Counted, Transactions

LEMMA RetryKeeps ==
  ASSUME IInv, NEW k \in Workers, Fails(k), MarkFailedWithRetry(k),
         at[k].event \notin OwnedOutboxEventTypes => at[k].retries + 1 < MaxAttempts
  PROVE  IInv'
<1>1. "failed" \in Statuses /\ at[k] # Idle /\ Commit(k) /\ handled' = handled
  BY DEF Statuses, Fails
<1>2. at[k].retries + 1 \in Nat
  BY FailureCounted DEF Transactions
<1>3. due' \subseteq Events
  BY DEF MarkFailedWithRetry, IInv, TypeOK
<1>4. QED
  BY <1>1, <1>2, <1>3, FailureCounted, OutcomeKeeps DEF MarkFailedWithRetry

LEMMA DeadLetterKeeps ==
  ASSUME IInv, NEW k \in Workers, Fails(k), MoveToDeadLetter(k),
         at[k].retries + 1 >= MaxAttempts
  PROVE  IInv'
<1> DEFINE e0 == at[k].event
<1>1. "dead_letter" \in Statuses /\ at[k] # Idle /\ Commit(k) /\ handled' = handled
  BY DEF Statuses, Fails
<1>2. retries[e0] \in Nat /\ retries' = [retries EXCEPT ![e0] = retries[e0]]
  BY FailureCounted DEF MoveToDeadLetter, IInv, TypeOK
<1>3. due' \subseteq Events /\ (e0 \notin OwnedOutboxEventTypes => retries[e0] < MaxAttempts)
  BY FailureCounted DEF MoveToDeadLetter, IInv, TypeOK
<1>4. failures'[e0] >= MaxAttempts
  BY FailureCounted, BoundAssumption DEF Transactions
<1>5. failures'[e0] >= MaxAttempts \/ retries[e0] <= failures'[e0]
  BY <1>4
<1>6. QED
  BY <1>1, <1>2, <1>3, <1>4, <1>5, FailureCounted, OutcomeKeeps DEF MoveToDeadLetter

LEMMA FailureKeeps ==
  ASSUME IInv, NEW k \in Workers, handleFailureInTx(k) \/ RealtimeFails(k)
  PROVE  IInv'
<1>1. CASE handleFailureInTx(k)
  <2>1. CASE at[k].retries + 1 >= MaxAttempts
    BY <1>1, <2>1, DeadLetterKeeps DEF handleFailureInTx
  <2>2. CASE ~(at[k].retries + 1 >= MaxAttempts)
    <3>1. Fails(k) /\ MarkFailedWithRetry(k)
      BY <1>1, <2>2 DEF handleFailureInTx
    <3>2. at[k].retries + 1 < MaxAttempts
      BY <2>2, <3>1, FailureCounted, BoundAssumption DEF Transactions
    <3>3. QED
      BY <3>1, <3>2, RetryKeeps
  <2>3. QED
    BY <2>1, <2>2
<1>2. CASE RealtimeFails(k)
  <2>1. k \notin CoreWorkers /\ Fails(k) /\ MarkFailedWithRetry(k)
    BY <1>2, BoundAssumption DEF RealtimeFails
  <2>2. at[k].event \in OwnedOutboxEventTypes
    BY <2>1 DEF IInv, TransactionsHoldRows, Scope, Fails
  <2>3. QED
    BY <2>1, <2>2, RetryKeeps
<1>3. QED
  BY <1>1, <1>2

LEMMA NextKeeps == IInv /\ [Next]_vars => IInv'
<1> SUFFICES ASSUME IInv, [Next]_vars PROVE IInv'
  OBVIOUS
<1>1. ASSUME NEW e \in Events, InsertEvent(e) PROVE IInv'
  BY <1>1, InsertKeeps
<1>2. ASSUME NEW e \in Events, Elapse(e) PROVE IInv'
  BY <1>2
  DEF Elapse, IInv, TypeOK, CopiesAreOld, CountsAreOld, TransactionsHoldRows,
      Counted, Claimable, DeliveredToAll, GivenUpAfterMaxAttempts
<1>3. CASE ArchiveBatch
  BY <1>3, ArchiveKeeps
<1>4. ASSUME NEW k \in Workers, FetchPendingBatch(k) PROVE IInv'
  BY <1>4, FetchKeeps
<1>5. ASSUME NEW k \in Workers, NEW c \in taken[k], MarkProcessing(k, c) PROVE IInv'
  BY <1>5, MarkKeeps
<1>6. ASSUME NEW k \in Workers, NEW c \in taken[k], Skip(k, c) PROVE IInv'
  <2> USE <1>6 DEF Skip
  <2>1. taken' \in [Workers -> SUBSET Copies] /\ at' \in [Workers -> Transactions \cup {Idle}]
        /\ faults' \in Nat
    BY DEF IInv, TypeOK
  <2>2. \A j \in Workers : taken'[j] \subseteq taken[j]
    BY DEF IInv, TypeOK
  <2>3. QED
    BY <2>1, <2>2, LettingGo
<1>7. ASSUME NEW k \in Workers, RollBack(k) PROVE IInv'
  <2> USE <1>7 DEF RollBack, Fault
  <2>1. taken' \in [Workers -> SUBSET Copies] /\ at' \in [Workers -> Transactions \cup {Idle}]
        /\ faults' \in Nat
    BY DEF IInv, TypeOK
  <2>2. \A j \in Workers : at'[j] \in {at[j], Idle}
    BY DEF IInv, TypeOK
  <2>3. QED
    BY <2>1, <2>2, LettingGo
<1>8. ASSUME NEW k \in Workers, Crash(k) PROVE IInv'
  <2> USE <1>8 DEF Crash, Fault
  <2>1. taken' \in [Workers -> SUBSET Copies] /\ at' \in [Workers -> Transactions \cup {Idle}]
        /\ faults' \in Nat
    BY DEF IInv, TypeOK
  <2>2. \A j \in Workers : at'[j] \in {at[j], Idle} /\ taken'[j] \subseteq taken[j]
    BY DEF IInv, TypeOK
  <2>3. QED
    BY <2>1, <2>2, LettingGo
<1>9. ASSUME NEW k \in Workers, Handle(k) PROVE IInv'
  BY <1>9, HandleKeeps
<1>10. ASSUME NEW k \in Workers, MarkSucceeded(k) PROVE IInv'
  BY <1>10, SucceedKeeps
<1>11. ASSUME NEW k \in Workers, handleFailureInTx(k) \/ RealtimeFails(k) PROVE IInv'
  BY <1>11, FailureKeeps
<1>12. CASE UNCHANGED vars
  BY <1>12
  DEF vars, rowVars, IInv, TypeOK, CopiesAreOld, CountsAreOld, TransactionsHoldRows,
      Counted, Claimable, DeliveredToAll, GivenUpAfterMaxAttempts
<1>13. QED
  BY <1>1, <1>2, <1>3, <1>4, <1>5, <1>6, <1>7, <1>8, <1>9, <1>10, <1>11, <1>12 DEF Next

--------------------------------------------------------------------------------
(* The theorems. *)

(* The invariant holds: copies are never ahead of the row, and what a       *)
(* transaction works on is locked and still to be concluded.                *)
THEOREM Invariance == Spec => []IInv
BY InitEstablishes, NextKeeps, PTL DEF Spec

(* The types, with the bound on the counts of the core workers' events.     *)
THEOREM TypeCorrect == Spec => []TypeOK
<1>1. IInv => TypeOK
  BY DEF IInv
<1>2. QED
  BY <1>1, Invariance, PTL

(* An event that has succeeded went through each of its handlers.           *)
THEOREM Delivered == Spec => []DeliveredToAll
<1>1. IInv => DeliveredToAll
  BY DEF IInv
<1>2. QED
  BY <1>1, Invariance, PTL

(* No event is given up early, whatever stale counts do.                    *)
THEOREM GivenUp == Spec => []GivenUpAfterMaxAttempts
<1>1. IInv => GivenUpAfterMaxAttempts
  BY DEF IInv
<1>2. QED
  BY <1>1, Invariance, PTL

(* What is concluded is not handled again.                                  *)
THEOREM ConcludedOnce == Spec => NotHandledAgain
<1> DEFINE Stays ==
      \A e \in Events : Concludes(e) /\ id'[e] = id[e] =>
        /\ handled'[e] = handled[e] /\ failures'[e] = failures[e]
        /\ status'[e] \in {status[e]} \cup (IF status[e] = "succeeded" THEN {"none"} ELSE {})
<1>1. IInv /\ [Next]_vars => Stays
  <2> SUFFICES ASSUME IInv, [Next]_vars, NEW e \in Events, Concludes(e), id'[e] = id[e]
               PROVE  /\ handled'[e] = handled[e] /\ failures'[e] = failures[e]
                      /\ status'[e] \in {status[e]}
                           \cup (IF status[e] = "succeeded" THEN {"none"} ELSE {})
    OBVIOUS
  <2>1. \A k \in Workers : at[k] # Idle => at[k].event # e /\ at[k].event \in Events
    BY TransactionIsCopy DEF IInv, TransactionsHoldRows, Claimable, Concludes
  <2>2. ASSUME NEW f \in Events, InsertEvent(f) \/ Elapse(f)
        PROVE  UNCHANGED <<handled[e], failures[e], status[e]>>
    BY <2>2 DEF InsertEvent, Elapse, Concludes, IInv, TypeOK
  <2>3. CASE ArchiveBatch
    BY <2>3 DEF ArchiveBatch, IInv, TypeOK
  <2>4. ASSUME NEW k \in Workers,
               \/ FetchPendingBatch(k) \/ RollBack(k) \/ Crash(k)
               \/ \E c \in taken[k] : MarkProcessing(k, c) \/ Skip(k, c)
        PROVE  UNCHANGED <<handled, failures, status>>
    BY <2>4 DEF FetchPendingBatch, RollBack, Crash, MarkProcessing, Skip, Begin, rowVars
  <2>5. ASSUME NEW k \in Workers,
               \/ Handle(k) \/ MarkSucceeded(k) \/ handleFailureInTx(k) \/ RealtimeFails(k)
        PROVE  UNCHANGED <<handled[e], failures[e], status[e]>>
    BY <2>1, <2>5
    DEF Handle, MarkSucceeded, handleFailureInTx, RealtimeFails, Fails,
        MarkFailedWithRetry, MoveToDeadLetter, rowVars, IInv, TypeOK
  <2>6. CASE UNCHANGED vars
    BY <2>6 DEF vars, rowVars
  <2>7. QED
    BY <2>2, <2>3, <2>4, <2>5, <2>6 DEF Next
<1>2. IInv /\ [Next]_vars => [Stays]_vars
  BY <1>1
<1>3. QED
  BY <1>2, Invariance, PTL DEF Spec, NotHandledAgain

================================================================================
