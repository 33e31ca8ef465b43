--------------------------- MODULE PayoutBooks_proofs ---------------------------
(***************************************************************************)
(* Proofs about the books of Payout: the balances follow from the rows, and *)
(* each withdrawal implements Custody.  Both rest on one fact: a withdrawal *)
(* is posted for in order, under the invariant of Payout_proofs.            *)
(***************************************************************************)
EXTENDS Payout_proofs

--------------------------------------------------------------------------------
(* The order of the postings.                                               *)

Endings == Returns \cup Payouts

(* What may be posted next for a withdrawal, by what has been.              *)
Follows(kind, kinds) ==
  \/ kinds = {} /\ kind = "request"
  \/ kinds = {"request"} /\ kind \in {"commit", "reject"}
  \/ kinds = {"request", "commit"} /\ kind \in Endings \ {"reject"}

LEMMA AgreeingFollows ==
  ASSUME NEW s, NEW t, NEW kinds, NEW kind, kind \notin kinds,
         Agrees(s, kinds), Agrees(t, kinds \cup {kind})
  PROVE  Follows(kind, kinds)
BY DEF Agrees, Follows, Endings, Returns, Payouts

(* Posts in order for w.                                                    *)
PostsFor(kind, w) ==
  /\ Post(kind, w)
  /\ Follows(kind, PostedOf(w))
  /\ PostedOf(w)' = PostedOf(w) \cup {kind}
  /\ \A v \in Withdrawals : v # w => PostedOf(v)' = PostedOf(v)

LEMMA InOrder ==
  ASSUME IInv, IInv', NEW w \in Withdrawals, NEW kind \in Kinds, Post(kind, w)
  PROVE  UNCHANGED ledgerVars \/ PostsFor(kind, w)
<1>1. CASE <<kind, w>> \in posted
  BY <1>1 DEF Post
<1>2. CASE <<kind, w>> \notin posted
  <2>1. /\ PostedOf(w)' = PostedOf(w) \cup {kind}
        /\ \A v \in Withdrawals : v # w => PostedOf(v)' = PostedOf(v)
    BY Posting DEF IInv, Base
  <2>2. kind \notin PostedOf(w)
    BY <1>2 DEF PostedOf
  <2>3. Agrees(status[w], PostedOf(w)) /\ Agrees(status'[w], PostedOf(w)')
    BY DEF IInv, Money, PostedByStatus
  <2>4. QED
    BY <2>1, <2>2, <2>3, AgreeingFollows DEF PostsFor
<1>3. QED
  BY <1>1, <1>2

(* A step leaves the ledger alone or posts for one withdrawal, in order.    *)
LEMMA LedgerStep ==
  ASSUME IInv, IInv', [Next]_vars
  PROVE  \/ UNCHANGED ledgerVars
         \/ \E w \in Withdrawals, kind \in Kinds : PostsFor(kind, w)
<1>1. ASSUME NEW w \in Withdrawals,
             Request(w) \/ ApproveWithdraw(w) \/ RejectWithdraw(w) \/ MarkProcessed(w)
      PROVE  \E kind \in Kinds : Post(kind, w)
  BY <1>1, KindsOf DEF Request, ApproveWithdraw, RejectWithdraw, MarkProcessed
<1>2. ASSUME NEW k \in Workers, MarkSubmissionFailed(k)
      PROVE  UNCHANGED ledgerVars \/ \E w \in Withdrawals, kind \in Kinds : Post(kind, w)
  <2>1. held[k][1] \in Withdrawals
    BY <1>2, ReferredIsApproved DEF MarkSubmissionFailed, IInv, Base, HeldIsReferred
  <2>2. QED
    BY <1>2, <2>1, KindsOf DEF MarkSubmissionFailed
<1>3. ASSUME NEW h \in Hooks, HookSettles(h) \/ HookReturns(h)
      PROVE  \E w \in Withdrawals, kind \in Kinds : Post(kind, w)
  <2>1. hook[h] # IdleHook
    BY <1>3 DEF HookSettles, HookReturns, IdleHook
  <2>2. hook[h].ref[1] \in Withdrawals
    BY <2>1, ReferredIsApproved DEF IInv, Base, HookIsReferred
  <2>3. QED
    BY <1>3, <2>2, KindsOf DEF HookSettles, HookReturns
<1>4. UNCHANGED ledgerVars \/ \E w \in Withdrawals, kind \in Kinds : Post(kind, w)
  <2>1. ASSUME NEW w \in Withdrawals, NEW k \in Workers, FindEligible(k, w) \/ FindRetryable(k, w)
        PROVE  UNCHANGED ledgerVars
    BY <2>1 DEF FindEligible, FindRetryable
  <2>2. ASSUME NEW k \in Workers,
               \/ PilotBlock(k) \/ SubmitAnswered(k) \/ SubmitFailed(k)
               \/ MarkSubmissionSuccess(k) \/ Crash(k)
        PROVE  UNCHANGED ledgerVars
    BY <2>2 DEF PilotBlock, SubmitAnswered, SubmitFailed, MarkSubmissionSuccess, Crash
  <2>3. ASSUME NEW r \in Refs, GatewayProcesses(r) \/ GatewayCompletes(r) \/ GatewayFails(r)
        PROVE  UNCHANGED ledgerVars
    BY <2>3 DEF GatewayProcesses, GatewayCompletes, GatewayFails, Moves
  <2>4. ASSUME NEW h \in Hooks,
               \/ \E n \in notices : HookReads(h, n)
               \/ \E w \in Withdrawals : Reconcile(h, w)
               \/ HookMarksSettling(h) \/ HookIgnores(h) \/ HookFails(h)
        PROVE  UNCHANGED ledgerVars
    BY <2>4 DEF HookReads, Reconcile, HookMarksSettling, HookIgnores, HookFails
  <2>5. CASE UNCHANGED vars
    BY <2>5 DEF vars
  <2>6. QED
    BY <1>1, <1>2, <1>3, <2>1, <2>2, <2>3, <2>4, <2>5 DEF Next
<1>5. QED
  BY <1>4, InOrder

--------------------------------------------------------------------------------
(* The balances by what has been posted.                                    *)

Requested == {w \in Withdrawals : PostedOf(w) = {"request"}}
Committed == {w \in Withdrawals : PostedOf(w) = {"request", "commit"}}
Paid == {w \in Withdrawals : PostedOf(w) \cap Payouts # {}}
Taken(s) == {w \in Withdrawals : /\ SellerOf[w] = s /\ PostedOf(w) # {}
                                 /\ PostedOf(w) \cap Returns = {}}

Books ==
  /\ pending = Amount * Cardinality(Requested)
  /\ committed = Amount * Cardinality(Committed)
  /\ bank = Reserve - (Amount - Fee) * Cardinality(Paid)
  /\ revenue = Fee * Cardinality(Paid)
  /\ \A s \in Sellers : payable[s] = Earnings[s] - Amount * Cardinality(Taken(s))

(* Counting a set that differs from another in one withdrawal at most.      *)
LEMMA Tally ==
  ASSUME NEW A, NEW B, A \subseteq Withdrawals, B \subseteq Withdrawals,
         NEW w \in Withdrawals, \A v \in Withdrawals : v # w => (v \in B <=> v \in A),
         NEW c \in Int
  PROVE  /\ c * Cardinality(A) \in Int /\ c * Cardinality(B) \in Int
         /\ c * Cardinality(B) = c * Cardinality(A) +
              (IF w \in B /\ w \notin A THEN c ELSE IF w \in A /\ w \notin B THEN -c ELSE 0)
<1>1. IsFiniteSet(A) /\ IsFiniteSet(B)
  BY WithdrawalsAssumption, FS_Subset
<1>2. Cardinality(A) \in Nat /\ Cardinality(B) \in Nat
  BY <1>1, FS_CardinalityType
<1>3. \A n \in Nat : c * n \in Int /\ c * (n + 1) = c * n + c
  OBVIOUS
<1>4. CASE w \in A <=> w \in B
  <2>1. A = B
    BY <1>4
  <2>2. QED
    BY <1>2, <1>3, <2>1
<1>5. CASE w \in B /\ w \notin A
  <2>1. B = A \cup {w}
    BY <1>5
  <2>2. Cardinality(B) = Cardinality(A) + 1
    BY <1>1, <1>5, <2>1, FS_AddElement
  <2>3. QED
    BY <1>2, <1>3, <1>5, <2>2
<1>6. CASE w \in A /\ w \notin B
  <2>1. A = B \cup {w}
    BY <1>6
  <2>2. Cardinality(A) = Cardinality(B) + 1
    BY <1>1, <1>6, <2>1, FS_AddElement
  <2>3. QED
    BY <1>2, <1>3, <1>6, <2>2
<1>7. QED
  BY <1>4, <1>5, <1>6

LEMMA InitIsBooks == Init => Books
<1> SUFFICES ASSUME Init PROVE Books
  OBVIOUS
<1>1. \A w \in Withdrawals : PostedOf(w) = {}
  BY DEF Init, PostedOf
<1>2. Requested = {} /\ Committed = {} /\ Paid = {} /\ \A s \in Sellers : Taken(s) = {}
  BY <1>1 DEF Requested, Committed, Paid, Taken
<1>3. Cardinality({}) = 0
  BY FS_EmptySet
<1>4. \A s \in Sellers : payable[s] = Earnings[s] /\ Earnings[s] \in Nat
  BY AmountAssumption DEF Init
<1>5. pending = 0 /\ committed = 0 /\ bank = Reserve /\ revenue = 0
  BY DEF Init
<1>6. Amount * 0 = 0 /\ Fee * 0 = 0 /\ (Amount - Fee) * 0 = 0 /\ Reserve - 0 = Reserve
  BY AmountAssumption
<1>7. \A s \in Sellers : payable[s] = Earnings[s] - Amount * Cardinality(Taken(s))
  BY <1>2, <1>3, <1>4, <1>6
<1>8. QED
  BY <1>2, <1>3, <1>5, <1>6, <1>7 DEF Books

(* What a posting moves, by what it follows.                                *)
LEMMA Moved ==
  ASSUME TypeOK, NEW w \in Withdrawals, NEW kind \in Kinds, Post(kind, w), kind \notin PostedOf(w)
  PROVE  /\ pending' = pending + (IF kind = "request" THEN Amount
                                  ELSE IF kind \in {"commit", "reject"} THEN -Amount ELSE 0)
         /\ committed' = committed + (IF kind = "commit" THEN Amount
                                      ELSE IF kind \in Endings \ {"reject"} THEN -Amount ELSE 0)
         /\ bank' = bank - (IF kind \in Payouts THEN Amount - Fee ELSE 0)
         /\ revenue' = revenue + (IF kind \in Payouts THEN Fee ELSE 0)
         /\ \A s \in Sellers :
              payable'[s] = payable[s] +
                (IF s # SellerOf[w] THEN 0
                 ELSE IF kind \in Returns THEN Amount ELSE IF kind = "request" THEN -Amount ELSE 0)
<1>1. <<kind, w>> \notin posted
  BY DEF PostedOf
<1>2. SellerOf[w] \in Sellers
  BY SellerAssumption
<1>3. /\ payable' = [payable EXCEPT ![SellerOf[w]] = @ +
                       (IF kind \in Returns THEN Amount
                        ELSE IF kind \in {"request"} THEN -Amount ELSE 0)]
      /\ pending' = pending + (IF kind \in {"request"} THEN Amount
                               ELSE IF kind \in {"commit", "reject"} THEN -Amount ELSE 0)
      /\ committed' = committed +
           (IF kind \in {"commit"} THEN Amount
            ELSE IF kind \in {"restore", "return"} \cup Payouts THEN -Amount ELSE 0)
      /\ bank' = bank - (IF kind \in Payouts THEN Amount - Fee ELSE 0)
      /\ revenue' = revenue + (IF kind \in Payouts THEN Fee ELSE 0)
  BY <1>1 DEF Post
<1>4. Endings \ {"reject"} = {"restore", "return"} \cup Payouts
  BY DEF Endings, Returns, Payouts
<1>5. \A s \in Sellers :
        payable'[s] = payable[s] +
          (IF s # SellerOf[w] THEN 0
           ELSE IF kind \in Returns THEN Amount ELSE IF kind = "request" THEN -Amount ELSE 0)
  BY <1>2, <1>3, AmountAssumption DEF TypeOK
<1>6. QED
  BY <1>3, <1>4, <1>5

(* Which of the counted sets a withdrawal enters or leaves by a posting.    *)
LEMMA Counted ==
  ASSUME NEW w \in Withdrawals, NEW kind \in Kinds, PostsFor(kind, w)
  PROVE  /\ \A v \in Withdrawals : v # w =>
              /\ v \in Requested' <=> v \in Requested
              /\ v \in Committed' <=> v \in Committed
              /\ v \in Paid' <=> v \in Paid
              /\ \A s \in Sellers : v \in Taken(s)' <=> v \in Taken(s)
         /\ w \in Requested <=> kind \in {"commit", "reject"}
         /\ w \in Requested' <=> kind = "request"
         /\ w \in Committed <=> kind \in Endings \ {"reject"}
         /\ w \in Committed' <=> kind = "commit"
         /\ w \notin Paid /\ (w \in Paid' <=> kind \in Payouts)
         /\ \A s \in Sellers :
              /\ w \in Taken(s) <=> s = SellerOf[w] /\ kind # "request"
              /\ w \in Taken(s)' <=> s = SellerOf[w] /\ kind \notin Returns
<1> DEFINE was == PostedOf(w)
<1>1. /\ Follows(kind, was) /\ PostedOf(w)' = was \cup {kind}
      /\ \A v \in Withdrawals : v # w => PostedOf(v)' = PostedOf(v)
  BY DEF PostsFor
<1>2. \A v \in Withdrawals : v # w =>
        /\ v \in Requested' <=> v \in Requested
        /\ v \in Committed' <=> v \in Committed
        /\ v \in Paid' <=> v \in Paid
        /\ \A s \in Sellers : v \in Taken(s)' <=> v \in Taken(s)
  BY <1>1 DEF Requested, Committed, Paid, Taken
<1>3. /\ was = {"request"} <=> kind \in {"commit", "reject"}
      /\ was \cup {kind} = {"request"} <=> kind = "request"
      /\ was = {"request", "commit"} <=> kind \in Endings \ {"reject"}
      /\ was \cup {kind} = {"request", "commit"} <=> kind = "commit"
  BY <1>1 DEF Follows, Endings, Returns, Payouts
<1>4. /\ was \cap Payouts = {} /\ was \cap Returns = {}
      /\ was # {} <=> kind # "request"
  BY <1>1 DEF Follows, Endings, Returns, Payouts
<1>5. /\ (was \cup {kind}) \cap Payouts # {} <=> kind \in Payouts
      /\ (was \cup {kind}) \cap Returns = {} <=> kind \notin Returns
      /\ was \cup {kind} # {}
  BY <1>4
<1>6. /\ w \in Requested <=> was = {"request"}
      /\ w \in Requested' <=> was \cup {kind} = {"request"}
      /\ w \in Committed <=> was = {"request", "commit"}
      /\ w \in Committed' <=> was \cup {kind} = {"request", "commit"}
      /\ w \in Paid <=> was \cap Payouts # {}
      /\ w \in Paid' <=> (was \cup {kind}) \cap Payouts # {}
  BY <1>1 DEF Requested, Committed, Paid
<1>7. \A s \in Sellers :
        /\ w \in Taken(s) <=> SellerOf[w] = s /\ was # {} /\ was \cap Returns = {}
        /\ w \in Taken(s)' <=>
             /\ SellerOf[w] = s /\ was \cup {kind} # {}
             /\ (was \cup {kind}) \cap Returns = {}
  BY <1>1 DEF Taken
<1> HIDE DEF was
<1>8. QED
  BY <1>2, <1>3, <1>4, <1>5, <1>6, <1>7

LEMMA PostingKeepsBooks ==
  ASSUME TypeOK, Books, NEW w \in Withdrawals, NEW kind \in Kinds, PostsFor(kind, w)
  PROVE  Books'
<1> USE DEF Books
<1>1. kind \notin PostedOf(w)
  BY DEF PostsFor, Follows, Endings, Returns, Payouts
<1>2. Post(kind, w)
  BY DEF PostsFor
<1>3. /\ Requested \subseteq Withdrawals /\ Requested' \subseteq Withdrawals
      /\ Committed \subseteq Withdrawals /\ Committed' \subseteq Withdrawals
      /\ Paid \subseteq Withdrawals /\ Paid' \subseteq Withdrawals
      /\ \A s \in Sellers : Taken(s) \subseteq Withdrawals /\ Taken(s)' \subseteq Withdrawals
  BY DEF Requested, Committed, Paid, Taken
<1>4. Amount \in Int /\ Fee \in Int /\ Amount - Fee \in Int /\ -Amount \in Int
  BY AmountAssumption
<1>5. pending' = Amount * Cardinality(Requested')
  <2>1. Amount * Cardinality(Requested') = Amount * Cardinality(Requested) +
          (IF kind = "request" THEN Amount
           ELSE IF kind \in {"commit", "reject"} THEN -Amount ELSE 0)
    BY <1>3, <1>4, Counted, Tally
  <2>2. QED
    BY <1>1, <1>2, <2>1, Moved
<1>6. committed' = Amount * Cardinality(Committed')
  <2>1. Amount * Cardinality(Committed') = Amount * Cardinality(Committed) +
          (IF kind = "commit" THEN Amount
           ELSE IF kind \in Endings \ {"reject"} THEN -Amount ELSE 0)
    <3>1. "commit" \notin Endings
      BY DEF Endings, Returns, Payouts
    <3>2. QED
      BY <1>3, <1>4, <3>1, Counted, Tally
  <2>2. QED
    BY <1>1, <1>2, <2>1, Moved
<1>7. bank' = Reserve - (Amount - Fee) * Cardinality(Paid')
  <2>1. /\ (Amount - Fee) * Cardinality(Paid) \in Int
        /\ (Amount - Fee) * Cardinality(Paid') = (Amount - Fee) * Cardinality(Paid) +
             (IF kind \in Payouts THEN Amount - Fee ELSE 0)
    BY <1>3, <1>4, Counted, Tally
  <2>2. bank' = bank - (IF kind \in Payouts THEN Amount - Fee ELSE 0)
    BY <1>1, <1>2, Moved
  <2> DEFINE x == (Amount - Fee) * Cardinality(Paid)
             d == IF kind \in Payouts THEN Amount - Fee ELSE 0
  <2>3. bank = Reserve - x /\ bank' = bank - d /\ x \in Int /\ d \in Int
    BY <1>4, <2>1, <2>2
  <2>4. (Amount - Fee) * Cardinality(Paid') = x + d
    BY <2>1
  <2> HIDE DEF x, d
  <2>5. bank' = Reserve - (x + d)
    BY <2>3, AmountAssumption
  <2>6. QED
    BY <2>4, <2>5
<1>8. revenue' = Fee * Cardinality(Paid')
  <2>1. Fee * Cardinality(Paid') = Fee * Cardinality(Paid) +
          (IF kind \in Payouts THEN Fee ELSE 0)
    BY <1>3, <1>4, Counted, Tally
  <2>2. QED
    BY <1>1, <1>2, <2>1, Moved
<1>9. ASSUME NEW s \in Sellers
      PROVE  payable'[s] = Earnings[s] - Amount * Cardinality(Taken(s)')
  <2> DEFINE d == IF s # SellerOf[w] THEN 0
                  ELSE IF kind \in Returns THEN -Amount
                  ELSE IF kind = "request" THEN Amount ELSE 0
  <2>1. "request" \notin Returns
    BY DEF Returns
  <2>2. /\ Amount * Cardinality(Taken(s)) \in Int
        /\ Amount * Cardinality(Taken(s)') = Amount * Cardinality(Taken(s)) + d
    <3>1. /\ \A v \in Withdrawals : v # w => (v \in Taken(s)' <=> v \in Taken(s))
          /\ w \in Taken(s) <=> s = SellerOf[w] /\ kind # "request"
          /\ w \in Taken(s)' <=> s = SellerOf[w] /\ kind \notin Returns
      BY Counted
    <3>2. Taken(s) \subseteq Withdrawals /\ Taken(s)' \subseteq Withdrawals
      BY <1>3
    <3>3. /\ Amount * Cardinality(Taken(s)) \in Int
          /\ Amount * Cardinality(Taken(s)') = Amount * Cardinality(Taken(s)) +
               (IF w \in Taken(s)' /\ w \notin Taken(s) THEN Amount
                ELSE IF w \in Taken(s) /\ w \notin Taken(s)' THEN -Amount ELSE 0)
      BY <1>4, <3>1, <3>2, Tally
    <3>4. (IF w \in Taken(s)' /\ w \notin Taken(s) THEN Amount
           ELSE IF w \in Taken(s) /\ w \notin Taken(s)' THEN -Amount ELSE 0) = d
      BY <2>1, <3>1
    <3>5. QED
      BY <3>3, <3>4
  <2>3. payable'[s] = payable[s] - d /\ d \in Int
    <3>1. payable[s] \in Int
      BY DEF TypeOK
    <3>2. payable'[s] = payable[s] +
            (IF s # SellerOf[w] THEN 0
             ELSE IF kind \in Returns THEN Amount ELSE IF kind = "request" THEN -Amount ELSE 0)
      BY <1>1, <1>2, Moved
    <3>3. QED
      BY <1>4, <3>1, <3>2
  <2>4. \A e, x, y \in Int : e - x - y = e - (x + y)
    OBVIOUS
  <2> HIDE DEF d
  <2>5. QED
    BY <2>2, <2>3, <2>4, AmountAssumption
<1>10. QED
  BY <1>5, <1>6, <1>7, <1>8, <1>9

LEMMA BooksKept == IInv /\ IInv' /\ Books /\ [Next]_vars => Books'
<1> SUFFICES ASSUME IInv, IInv', Books, [Next]_vars PROVE Books'
  OBVIOUS
<1>1. CASE UNCHANGED ledgerVars
  BY <1>1 DEF ledgerVars, Books, Requested, Committed, Paid, Taken, PostedOf
<1>2. ASSUME NEW w \in Withdrawals, NEW kind \in Kinds, PostsFor(kind, w) PROVE Books'
  BY <1>2, PostingKeepsBooks DEF IInv, Base
<1>3. QED
  BY <1>1, <1>2, LedgerStep

LEMMA PlacedIsPosted ==
  \A w \in Withdrawals :
    /\ PlacedBy(w) = PostedOf(w) \cap Endings
    /\ PlacedBy(w) \cap Payouts = PostedOf(w) \cap Payouts
    /\ PlacedBy(w) \cap Returns = PostedOf(w) \cap Returns
BY DEF PlacedBy, PostedOf, Kinds, Endings

(* The balances agree with the rows: whatever is interleaved, and whichever *)
(* postings are tried twice, each account holds what the withdrawals in its *)
(* stage add up to.                                                         *)
THEOREM BalancesMatch ==
  ASSUME KnownReplies
  PROVE  Spec => []BalancesMatchRows
<1>1. IInv /\ Books => BalancesMatchRows
  <2> SUFFICES ASSUME IInv, Books PROVE BalancesMatchRows
    OBVIOUS
  <2>1. \A w \in Withdrawals : Agrees(status[w], PostedOf(w))
    BY DEF IInv, Money, PostedByStatus
  <2>2. Requested = {w \in Withdrawals : status[w] = "REQUESTED"}
    BY <2>1 DEF Requested, Agrees
  <2>3. ASSUME NEW w \in Withdrawals
        PROVE  PostedOf(w) = {"request", "commit"} <=>
                 /\ status[w] \in {"PROCESSING", "PILOT_BLOCKED", "SUBMITTED", "SETTLING",
                                   "FAILED_RETRYABLE"}
                 /\ PlacedBy(w) = {}
    <3>1. PlacedBy(w) = PostedOf(w) \cap Endings
      BY PlacedIsPosted
    <3>2. QED
      BY <2>1, <3>1 DEF Agrees, Endings, Returns, Payouts
  <2>4. Paid = {w \in Withdrawals : PlacedBy(w) \cap Payouts # {}}
    BY PlacedIsPosted DEF Paid
  <2>5. ASSUME NEW w \in Withdrawals
        PROVE  PostedOf(w) # {} /\ PostedOf(w) \cap Returns = {} <=>
                 status[w] \notin {"NONE", "FAILED", "FAILED_FINAL"}
    BY <2>1 DEF Agrees, Returns
  <2>6. \A s \in Sellers :
          Taken(s) = {w \in Withdrawals :
                        SellerOf[w] = s /\ status[w] \notin {"NONE", "FAILED", "FAILED_FINAL"}}
    BY <2>5 DEF Taken
  <2>7. Committed = {w \in Withdrawals :
                       /\ status[w] \in {"PROCESSING", "PILOT_BLOCKED", "SUBMITTED", "SETTLING",
                                         "FAILED_RETRYABLE"}
                       /\ PlacedBy(w) = {}}
    BY <2>3 DEF Committed
  <2>8. QED
    BY <2>2, <2>4, <2>6, <2>7 DEF BalancesMatchRows, Books
<1>2. Init => Books
  BY InitIsBooks
<1>3. IInv /\ IInv' /\ Books /\ [Next]_vars => Books'
  BY BooksKept
<1>4. QED
  BY <1>1, <1>2, <1>3, InvHolds, PTL DEF Spec

--------------------------------------------------------------------------------
(* Each withdrawal is in custody.                                           *)

(* Where the money of a withdrawal is, by what has been posted for it.      *)
Back(kinds) == Amount * Cardinality(kinds \cap Returns)
Out(kinds) == Amount * Cardinality(kinds \cap Payouts)
Kept(kinds) == (IF "request" \in kinds THEN Amount ELSE 0) - Back(kinds) - Out(kinds)

LEMMA CustodyByPosted ==
  ASSUME NEW w \in Withdrawals
  PROVE  /\ Returned(w) = Back(PostedOf(w)) /\ Returned(w)' = Back(PostedOf(w)')
         /\ PaidOut(w) = Out(PostedOf(w)) /\ PaidOut(w)' = Out(PostedOf(w)')
         /\ InCustody(w) = Kept(PostedOf(w)) /\ InCustody(w)' = Kept(PostedOf(w)')
<1>1. /\ PlacedBy(w) \cap Returns = PostedOf(w) \cap Returns
      /\ PlacedBy(w) \cap Payouts = PostedOf(w) \cap Payouts
      /\ <<"request", w>> \in posted <=> "request" \in PostedOf(w)
  BY KindsOf DEF PlacedBy, PostedOf, Kinds
<1>2. /\ PlacedBy(w)' \cap Returns = PostedOf(w)' \cap Returns
      /\ PlacedBy(w)' \cap Payouts = PostedOf(w)' \cap Payouts
      /\ <<"request", w>> \in posted' <=> "request" \in PostedOf(w)'
  BY KindsOf DEF PlacedBy, PostedOf, Kinds
<1>3. /\ Returned(w) = Back(PostedOf(w)) /\ Returned(w)' = Back(PostedOf(w)')
      /\ PaidOut(w) = Out(PostedOf(w)) /\ PaidOut(w)' = Out(PostedOf(w)')
  BY <1>1, <1>2 DEF Returned, PaidOut, Back, Out
<1>4. QED
  BY <1>1, <1>2, <1>3 DEF InCustody, Kept

LEMMA Whereabouts ==
  /\ Kept({}) = 0 /\ Back({}) = 0 /\ Out({}) = 0
  /\ \A kinds \in {{"request"}, {"request", "commit"}} :
       Kept(kinds) = Amount /\ Back(kinds) = 0 /\ Out(kinds) = 0
  /\ \A kind \in Returns : \A kinds \in {{"request", kind}, {"request", "commit", kind}} :
       Kept(kinds) = 0 /\ Back(kinds) = Amount /\ Out(kinds) = 0
  /\ \A kind \in Payouts : \A kinds \in {{"request", kind}, {"request", "commit", kind}} :
       Kept(kinds) = 0 /\ Back(kinds) = 0 /\ Out(kinds) = Amount
<1>1. Cardinality({}) = 0 /\ \A x : Cardinality({x}) = 1
  BY FS_EmptySet, FS_Singleton
<1>2. Amount \in Int /\ Amount * 0 = 0 /\ Amount * 1 = Amount
  BY AmountAssumption
<1>3. ASSUME NEW kinds, kinds \cap Returns = {}, kinds \cap Payouts = {}
      PROVE  /\ Back(kinds) = 0 /\ Out(kinds) = 0
             /\ Kept(kinds) = IF "request" \in kinds THEN Amount ELSE 0
  BY <1>1, <1>2, <1>3 DEF Kept, Back, Out
<1>4. ASSUME NEW kind, NEW kinds, kinds \cap Returns = {kind}, kinds \cap Payouts = {},
             "request" \in kinds
      PROVE  Kept(kinds) = 0 /\ Back(kinds) = Amount /\ Out(kinds) = 0
  <2>1. Cardinality({kind}) = 1
    BY <1>1
  <2>2. Back(kinds) = Amount /\ Out(kinds) = 0
    BY <1>1, <1>2, <1>4, <2>1 DEF Back, Out
  <2>3. QED
    BY <1>2, <1>4, <2>2 DEF Kept
<1>5. ASSUME NEW kind, NEW kinds, kinds \cap Returns = {}, kinds \cap Payouts = {kind},
             "request" \in kinds
      PROVE  Kept(kinds) = 0 /\ Back(kinds) = 0 /\ Out(kinds) = Amount
  <2>1. Cardinality({kind}) = 1
    BY <1>1
  <2>2. Back(kinds) = 0 /\ Out(kinds) = Amount
    BY <1>1, <1>2, <1>5, <2>1 DEF Back, Out
  <2>3. QED
    BY <1>2, <1>5, <2>2 DEF Kept
<1>6. ASSUME NEW kinds \in {{"request"}, {"request", "commit"}}
      PROVE  Kept(kinds) = Amount /\ Back(kinds) = 0 /\ Out(kinds) = 0
  <2>1. kinds \cap Returns = {} /\ kinds \cap Payouts = {} /\ "request" \in kinds
    BY DEF Returns, Payouts
  <2>2. QED
    BY <1>3, <2>1
<1>7. ASSUME NEW kind \in Returns, NEW kinds \in {{"request", kind}, {"request", "commit", kind}}
      PROVE  Kept(kinds) = 0 /\ Back(kinds) = Amount /\ Out(kinds) = 0
  <2>1. kinds \cap Returns = {kind} /\ kinds \cap Payouts = {} /\ "request" \in kinds
    BY DEF Returns, Payouts
  <2>2. QED
    BY <1>4, <2>1
<1>8. ASSUME NEW kind \in Payouts, NEW kinds \in {{"request", kind}, {"request", "commit", kind}}
      PROVE  Kept(kinds) = 0 /\ Back(kinds) = 0 /\ Out(kinds) = Amount
  <2>1. kinds \cap Returns = {} /\ kinds \cap Payouts = {kind} /\ "request" \in kinds
    BY DEF Returns, Payouts
  <2>2. QED
    BY <1>5, <2>1
<1>9. Kept({}) = 0 /\ Back({}) = 0 /\ Out({}) = 0
  BY <1>3
<1>10. QED
  BY <1>6, <1>7, <1>8, <1>9

(* A posting for a withdrawal is a step of its custodian or none.           *)
LEMMA PostingIsCustody ==
  ASSUME NEW w \in Withdrawals, NEW kind \in Kinds, PostsFor(kind, w)
  PROVE  [Custodian(w)!Next]_(Custodian(w)!vars)
<1> DEFINE was == PostedOf(w)
<1>1. Follows(kind, was) /\ PostedOf(w)' = was \cup {kind}
  BY DEF PostsFor
<1>2. Amount \in Nat /\ Amount > 0
  BY AmountAssumption
<1>3. /\ Returned(w) = Back(was) /\ Returned(w)' = Back(was \cup {kind})
      /\ PaidOut(w) = Out(was) /\ PaidOut(w)' = Out(was \cup {kind})
      /\ InCustody(w) = Kept(was) /\ InCustody(w)' = Kept(was \cup {kind})
  BY <1>1, CustodyByPosted
<1> HIDE DEF was
<1>4. CASE was = {} /\ kind = "request"
  <2>1. was \cup {kind} = {"request"}
    BY <1>4
  <2>2. InCustody(w) = 0 /\ Returned(w) = 0 /\ PaidOut(w) = 0
    BY <1>3, <1>4, Whereabouts
  <2>3. InCustody(w)' = Amount /\ Returned(w)' = 0 /\ PaidOut(w)' = 0
    BY <1>3, <2>1, Whereabouts
  <2>4. Custodian(w)!Fund
    BY <2>2, <2>3 DEF Custodian!Fund
  <2>5. QED
    BY <2>4 DEF Custodian!Next
<1>5. CASE was = {"request"} /\ kind = "commit"
  <2>1. was \cup {kind} = {"request", "commit"}
    BY <1>5
  <2>2. InCustody(w) = Amount /\ Returned(w) = 0 /\ PaidOut(w) = 0
    BY <1>3, <1>5, Whereabouts
  <2>3. InCustody(w)' = Amount /\ Returned(w)' = 0 /\ PaidOut(w)' = 0
    BY <1>3, <2>1, Whereabouts
  <2>4. UNCHANGED Custodian(w)!vars
    BY <2>2, <2>3 DEF Custodian!vars
  <2>5. QED
    BY <2>4
<1>6. CASE was \in {{"request"}, {"request", "commit"}} /\ kind \in Endings
  <2>1. was \cup {kind} \in {{"request", kind}, {"request", "commit", kind}}
    BY <1>6
  <2>2. InCustody(w) = Amount /\ Returned(w) = 0 /\ PaidOut(w) = 0
    BY <1>3, <1>6, Whereabouts
  <2>3. /\ InCustody(w)' = 0
        /\ \/ Returned(w)' = Amount /\ PaidOut(w)' = 0
           \/ Returned(w)' = 0 /\ PaidOut(w)' = Amount
    BY <1>3, <1>6, <2>1, Whereabouts DEF Endings
  <2>4. Custodian(w)!Disburse
    BY <1>2, <2>2, <2>3 DEF Custodian!Disburse
  <2>5. QED
    BY <2>4 DEF Custodian!Next
<1>7. QED
  BY <1>1, <1>4, <1>5, <1>6 DEF Follows, Endings, Returns

LEMMA InitIsCustody ==
  ASSUME NEW w \in Withdrawals
  PROVE  Init => Custodian(w)!Init
<1>1. Init => PostedOf(w) = {}
  BY DEF Init, PostedOf
<1>2. QED
  BY <1>1, CustodyByPosted, Whereabouts DEF Custodian!Init

LEMMA StepIsCustody ==
  ASSUME NEW w \in Withdrawals
  PROVE  IInv /\ IInv' /\ [Next]_vars => [Custodian(w)!Next]_(Custodian(w)!vars)
<1> SUFFICES ASSUME IInv, IInv', [Next]_vars
             PROVE  [Custodian(w)!Next]_(Custodian(w)!vars)
  OBVIOUS
<1>1. CASE PostedOf(w)' = PostedOf(w)
  BY <1>1, CustodyByPosted DEF Custodian!vars
<1>2. CASE PostedOf(w)' # PostedOf(w)
  <2>1. ~UNCHANGED ledgerVars
    BY <1>2 DEF ledgerVars, PostedOf
  <2>2. PICK v \in Withdrawals, kind \in Kinds : PostsFor(kind, v)
    BY <2>1, LedgerStep
  <2>3. v = w
    BY <1>2, <2>2 DEF PostsFor
  <2>4. QED
    BY <2>2, <2>3, PostingIsCustody
<1>3. QED
  BY <1>1, <1>2

(* Each withdrawal implements the custodian, as each order does: its amount *)
(* is set aside once and comes out once, to the seller or to the bank.      *)
THEOREM CustodyRefinement ==
  ASSUME KnownReplies, NEW w \in Withdrawals
  PROVE  Spec => Custodian(w)!Spec
<1>1. Init => Custodian(w)!Init
  BY InitIsCustody
<1>2. IInv /\ IInv' /\ [Next]_vars => [Custodian(w)!Next]_(Custodian(w)!vars)
  BY StepIsCustody
<1>3. QED
  BY <1>1, <1>2, InvHolds, PTL DEF Spec, Custodian!Spec

(* The same of all withdrawals at once, as the run checks it.               *)
THEOREM CustodyOfWithdrawals ==
  ASSUME KnownReplies
  PROVE  Spec => WithdrawalsInCustody
<1> DEFINE Starts == \A w \in Withdrawals : Custodian(w)!Init
           Steps == \A w \in Withdrawals : [Custodian(w)!Next]_(Custodian(w)!vars)
<1>1. Init => Starts
  BY InitIsCustody
<1>2. IInv /\ IInv' /\ [Next]_vars => [Steps]_vars
  BY StepIsCustody
<1> HIDE DEF Starts, Steps
<1>3. Spec => Starts /\ [][Steps]_vars
  BY <1>1, <1>2, InvHolds, PTL DEF Spec
<1>4. QED
  BY <1>3 DEF Starts, Steps, WithdrawalsInCustody

================================================================================
