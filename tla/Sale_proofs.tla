------------------------------- MODULE Sale_proofs -------------------------------
(***************************************************************************)
(* Proofs about Sale, for any buyers, stock, prices, validity and bounds.   *)
(***************************************************************************)
EXTENDS Sale, FiniteSetTheorems, TLAPS

--------------------------------------------------------------------------------
(* The inductive invariant.  Deals, orders and tokens refer to what there   *)
(* is, a session with an order is accepted, a token of a deal is for one    *)
(* item, and what the worker has found is past its time or closed already.  *)

ReferencesHold ==
  /\ \A n \in 1..Len(sessions) : /\ sessions[n].order \in 0..Len(orders)
                                 /\ sessions[n].order # 0 => sessions[n].status = "accepted"
  /\ \A o \in 1..Len(orders) : orders[o].session \in 0..Len(sessions)
  /\ \A b \in Buyers : /\ tokens[b].session \in 0..Len(sessions)
                       /\ tokens[b].session # 0 => tokens[b].qty = 1

Over(n) ==
  \/ sessions[n].left < 0
  \/ sessions[n].status \notin {"active", "accepted"}
  \/ sessions[n].order # 0

FoundAreOver == \A n \in found : Over(n)

IInv ==
  /\ TypeOK /\ ReferencesHold /\ FoundAreOver
  /\ OneOrderPerAgreement /\ StockConserved

--------------------------------------------------------------------------------
(* Sequences and sets. *)

LEMMA SeqFacts ==
  ASSUME NEW S, NEW s \in Seq(S)
  PROVE  Len(s) \in Nat /\ DOMAIN s = 1..Len(s) /\ \A i \in 1..Len(s) : s[i] \in S
OBVIOUS

LEMMA MapFacts ==
  ASSUME NEW S, NEW s \in Seq(S), NEW f \in [DOMAIN s -> S]
  PROVE  f \in Seq(S) /\ Len(f) = Len(s)
OBVIOUS

LEMMA AppendFacts ==
  ASSUME NEW S, NEW s \in Seq(S), NEW e \in S
  PROVE  /\ Append(s, e) \in Seq(S) /\ Len(Append(s, e)) = Len(s) + 1
         /\ Append(s, e)[Len(s) + 1] = e
         /\ \A i \in 1..Len(s) : Append(s, e)[i] = s[i]
OBVIOUS

(* The items of one order are as many as its quantity. *)
Piece(o, k) == {o} \X (1..k)

LEMMA PieceFacts ==
  ASSUME NEW o, NEW k \in Nat
  PROVE  IsFiniteSet(Piece(o, k)) /\ Cardinality(Piece(o, k)) = k
<1>1. IsFiniteSet({o}) /\ Cardinality({o}) = 1
  BY FS_Singleton
<1>2. IsFiniteSet(1..k) /\ Cardinality(1..k) = k
  BY FS_Interval
<1>3. /\ IsFiniteSet({o} \X (1..k))
      /\ Cardinality({o} \X (1..k)) = Cardinality({o}) * Cardinality(1..k)
  BY <1>1, <1>2, FS_Product, Zenon
<1>4. 1 * k = k
  OBVIOUS
<1>5. Cardinality({o}) * Cardinality(1..k) = k
  BY <1>1, <1>2, <1>4, Zenon
<1> QED
  BY <1>3, <1>5, Zenon DEF Piece

LEMMA ItemsFinite ==
  ASSUME TypeOK
  PROVE  IsFiniteSet(Items) /\ Cardinality(Items) \in Nat
<1>1. Len(orders) \in Nat /\ DOMAIN orders = 1..Len(orders)
  BY SeqFacts DEF TypeOK
<1>2. IsFiniteSet(1..Len(orders)) /\ IsFiniteSet(1..Stock)
  BY <1>1, FS_Interval, StockAssumption
<1>3. IsFiniteSet((1..Len(orders)) \X (1..Stock))
  BY <1>2, FS_Product
<1>4. Items \in SUBSET ((1..Len(orders)) \X (1..Stock))
  BY <1>1 DEF Items
<1> QED
  BY <1>3, <1>4, FS_Subset, FS_CardinalityType

--------------------------------------------------------------------------------
(* Steps that change sessions only.  A session that has its order stays as  *)
(* it is but for its clock, and a new one has none.                         *)

SessionsOnly ==
  UNCHANGED <<status, available, orders, tokens>> /\ sold' \in {"none", "pending", "done"}

LEMMA SessionsAlone ==
  ASSUME IInv, SessionStep
  PROVE  SessionsOnly
BY DEF IInv, TypeOK, SessionStep, SessionsOnly

SessionsKeepDeals ==
  /\ sessions' \in Seq(Session) /\ Len(sessions') \in Nat /\ Len(sessions) <= Len(sessions')
  /\ \A n \in 1..Len(sessions) :
       /\ sessions'[n].order = sessions[n].order
       /\ sessions[n].order # 0 =>
            /\ sessions'[n].status = sessions[n].status
            /\ sessions'[n].buyer = sessions[n].buyer
            /\ sessions'[n].price = sessions[n].price
  /\ \A n \in 1..Len(sessions') : n \notin 1..Len(sessions) => sessions'[n].order = 0

LEMMA SessionStepKeeps ==
  ASSUME IInv, SessionsOnly, SessionsKeepDeals, found' \subseteq DOMAIN sessions',
         FoundAreOver'
  PROVE  IInv'
<1>1. Len(sessions) \in Nat /\ Len(orders) \in Nat /\ DOMAIN orders = 1..Len(orders)
  BY SeqFacts DEF IInv, TypeOK
<1>2. TypeOK'
  BY DEF IInv, TypeOK, SessionsOnly, SessionsKeepDeals
<1>3. ReferencesHold'
  <2>1. ASSUME NEW n \in 1..Len(sessions')
        PROVE  /\ sessions'[n].order \in 0..Len(orders)
               /\ sessions'[n].order # 0 => sessions'[n].status = "accepted"
    <3>1. CASE n \in 1..Len(sessions)
      BY <3>1 DEF IInv, ReferencesHold, SessionsKeepDeals
    <3>2. CASE n \notin 1..Len(sessions)
      BY <1>1, <2>1, <3>2 DEF SessionsKeepDeals
    <3> QED
      BY <3>1, <3>2
  <2>2. \A o \in 1..Len(orders) : orders[o].session \in 0..Len(sessions')
    BY <1>1 DEF IInv, ReferencesHold, SessionsKeepDeals
  <2>3. \A b \in Buyers : /\ tokens[b].session \in 0..Len(sessions')
                          /\ tokens[b].session # 0 => tokens[b].qty = 1
    BY <1>1 DEF IInv, ReferencesHold, SessionsKeepDeals
  <2> QED
    BY <2>1, <2>2, <2>3 DEF ReferencesHold, SessionsOnly
<1>4. OneOrderPerAgreement'
  <2> SUFFICES ASSUME NEW o \in 1..Len(orders), orders[o].session # 0
               PROVE  LET deal == sessions'[orders[o].session]
                      IN /\ deal.order = o /\ deal.status = "accepted"
                         /\ orders[o].buyer = deal.buyer /\ orders[o].price = deal.price
                         /\ orders[o].qty = 1
    BY <1>1 DEF OneOrderPerAgreement, SessionsOnly
  <2>1. orders[o].session \in 1..Len(sessions)
    BY <1>1 DEF IInv, ReferencesHold
  <2>2. LET deal == sessions[orders[o].session]
        IN /\ deal.order = o /\ deal.status = "accepted"
           /\ orders[o].buyer = deal.buyer /\ orders[o].price = deal.price
           /\ orders[o].qty = 1
    BY <1>1 DEF IInv, OneOrderPerAgreement
  <2> QED
    BY <1>1, <2>1, <2>2 DEF SessionsKeepDeals
<1>5. StockConserved'
  <2>1. Items' = Items
    BY DEF Items, Holds, SessionsOnly
  <2> QED
    BY <2>1 DEF IInv, StockConserved, SessionsOnly
<1> QED
  BY <1>2, <1>3, <1>4, <1>5 DEF IInv

(* A step that maps every session of the sequence. *)
LEMMA MapKeeps ==
  ASSUME IInv, SessionsOnly, DOMAIN sessions' = DOMAIN sessions,
         sessions' \in [DOMAIN sessions -> Session],
         \A n \in 1..Len(sessions) :
           /\ sessions'[n].order = sessions[n].order
           /\ sessions[n].order # 0 =>
                /\ sessions'[n].status = sessions[n].status
                /\ sessions'[n].buyer = sessions[n].buyer
                /\ sessions'[n].price = sessions[n].price,
         found' \subseteq DOMAIN sessions, FoundAreOver'
  PROVE  IInv'
<1>1. sessions \in Seq(Session) /\ Len(sessions) \in Nat
  BY SeqFacts DEF IInv, TypeOK
<1>2. sessions' \in Seq(Session) /\ Len(sessions') = Len(sessions)
  BY <1>1, MapFacts
<1>3. SessionsKeepDeals
  BY <1>1, <1>2 DEF SessionsKeepDeals
<1> QED
  BY <1>3, SessionStepKeeps

LEMMA SessionFacts ==
  ASSUME IInv
  PROVE  /\ Len(sessions) \in Nat /\ DOMAIN sessions = 1..Len(sessions)
         /\ \A n \in DOMAIN sessions :
              /\ sessions[n] \in Session
              /\ sessions[n].order # 0 => sessions[n].status = "accepted"
BY SeqFacts DEF IInv, TypeOK, ReferencesHold

LEMMA StartKeeps ==
  ASSUME IInv, NEW b \in Buyers, NEW price \in Offers, StartNegotiation(b, price)
  PROVE  IInv'
<1> DEFINE s == [buyer |-> b, status |-> "active", price |-> price, by |-> b,
                 left |-> Validity, order |-> 0]
<1>1. Len(sessions) \in Nat /\ DOMAIN sessions = 1..Len(sessions)
  BY SessionFacts
<1>2. s \in Session
  BY BoundAssumption, PriceAssumption DEF Session
<1>3. sessions' = Append(sessions, s) /\ SessionStep /\ found' = found
  BY DEF StartNegotiation
<1>4. /\ sessions' \in Seq(Session) /\ Len(sessions') = Len(sessions) + 1
      /\ sessions'[Len(sessions) + 1] = s
      /\ \A n \in 1..Len(sessions) : sessions'[n] = sessions[n]
  BY <1>2, <1>3, AppendFacts DEF IInv, TypeOK
<1>5. SessionsKeepDeals
  BY <1>1, <1>4 DEF SessionsKeepDeals
<1>6. DOMAIN sessions' = 1..Len(sessions')
  BY <1>4, SeqFacts
<1>7. found' \subseteq DOMAIN sessions' /\ FoundAreOver'
  BY <1>1, <1>3, <1>4, <1>6 DEF IInv, TypeOK, FoundAreOver, Over
<1> QED
  BY <1>3, <1>5, <1>7, SessionsAlone, SessionStepKeeps

(* A step that changes one session, which has no order.                     *)
LEMMA OneSessionKeeps ==
  ASSUME IInv, SessionsOnly, NEW n \in DOMAIN sessions, sessions[n].order = 0,
         NEW s \in Session, s.order = 0, sessions' = [sessions EXCEPT ![n] = s],
         found' \subseteq found,
         n \in found' => s.left < 0 \/ s.status \notin {"active", "accepted"}
  PROVE  IInv'
<1>1. /\ sessions \in [DOMAIN sessions -> Session] /\ DOMAIN sessions = 1..Len(sessions)
      /\ found \subseteq DOMAIN sessions /\ \A m \in found : Over(m)
  BY SessionFacts DEF IInv, TypeOK, FoundAreOver
<1>2. /\ sessions' \in [DOMAIN sessions -> Session] /\ sessions'[n] = s
      /\ \A m \in DOMAIN sessions : m # n => sessions'[m] = sessions[m]
  BY <1>1
<1>3. FoundAreOver'
  <2> SUFFICES ASSUME NEW m \in found'
               PROVE  \/ sessions'[m].left < 0
                      \/ sessions'[m].status \notin {"active", "accepted"}
                      \/ sessions'[m].order # 0
    BY DEF FoundAreOver, Over
  <2>1. CASE m = n
    BY <1>2, <2>1
  <2>2. CASE m # n
    BY <1>1, <1>2, <2>2 DEF Over
  <2> QED
    BY <2>1, <2>2
<1>4. \A m \in 1..Len(sessions) :
        /\ sessions'[m].order = sessions[m].order
        /\ sessions[m].order # 0 => sessions'[m] = sessions[m]
  BY <1>1, <1>2
<1>5. DOMAIN sessions' = DOMAIN sessions /\ found' \subseteq DOMAIN sessions
  BY <1>1, <1>2
<1> QED
  BY <1>2, <1>3, <1>4, <1>5, MapKeeps

LEMMA CounterKeeps ==
  ASSUME IInv, NEW n \in DOMAIN sessions, NEW u \in Buyers \cup {Seller}, NEW price \in Offers,
         SendCounterOffer(n, u, price)
  PROVE  IInv'
<1> DEFINE s == [sessions[n] EXCEPT !.price = price, !.by = u]
<1>1. /\ SessionStep /\ found' = found /\ sessions[n].status = "active"
      /\ sessions' = [sessions EXCEPT ![n] = s]
  BY DEF SendCounterOffer
<1>2. sessions[n].order = 0 /\ sessions[n] \in Session
  BY <1>1, SessionFacts
<1>3. /\ s \in Session /\ s.order = 0
      /\ s.left = sessions[n].left /\ s.status = sessions[n].status
  BY <1>2, PriceAssumption DEF Session
<1>4. n \in found => s.left < 0
  BY <1>1, <1>2, <1>3 DEF IInv, FoundAreOver, Over
<1> HIDE DEF s
<1> QED
  BY <1>1, <1>2, <1>3, <1>4, SessionsAlone, OneSessionKeeps

LEMMA AcceptKeeps ==
  ASSUME IInv, NEW n \in DOMAIN sessions, AcceptNegotiation(n)
  PROVE  IInv'
<1> DEFINE s == [sessions[n] EXCEPT !.status = "accepted", !.left = Validity]
<1>1. /\ SessionStep /\ found' = found /\ sessions[n].status = "active" /\ ~IsExpired(n)
      /\ sessions' = [sessions EXCEPT ![n] = s]
  BY DEF AcceptNegotiation
<1>2. sessions[n].order = 0 /\ sessions[n] \in Session
  BY <1>1, SessionFacts
<1>3. s \in Session /\ s.order = 0
  <2>1. Validity \in -1..Validity
    BY BoundAssumption
  <2> QED
    BY <1>2, <2>1 DEF Session
<1>4. n \notin found
  BY <1>1, <1>2 DEF IInv, FoundAreOver, Over, IsExpired
<1> HIDE DEF s
<1> QED
  BY <1>1, <1>2, <1>3, <1>4, SessionsAlone, OneSessionKeeps

LEMMA CancelKeeps ==
  ASSUME IInv, NEW n \in DOMAIN sessions, CancelNegotiation(n)
  PROVE  IInv'
<1> DEFINE s == [sessions[n] EXCEPT !.status = "cancelled"]
<1>1. /\ SessionStep /\ found' = found /\ sessions[n].status = "active"
      /\ sessions' = [sessions EXCEPT ![n] = s]
  BY DEF CancelNegotiation
<1>2. sessions[n].order = 0 /\ sessions[n] \in Session
  BY <1>1, SessionFacts
<1>3. s \in Session /\ s.order = 0 /\ s.status = "cancelled"
  BY <1>2 DEF Session
<1> HIDE DEF s
<1> QED
  BY <1>1, <1>2, <1>3, SessionsAlone, OneSessionKeeps

LEMMA FindKeeps ==
  ASSUME IInv, NEW n \in DOMAIN sessions, FindExpired(n)
  PROVE  IInv'
<1>1. SessionStep /\ found' = found \cup {n} /\ sessions' = sessions /\ IsExpired(n)
  BY DEF FindExpired
<1>2. sessions' \in [DOMAIN sessions -> Session]
  BY <1>1, SessionFacts DEF IInv, TypeOK
<1>3. found' \subseteq DOMAIN sessions /\ FoundAreOver'
  BY <1>1 DEF IInv, TypeOK, FoundAreOver, Over, IsExpired
<1> QED
  BY <1>1, <1>2, <1>3, SessionsAlone, MapKeeps

LEMMA ExpireKeeps ==
  ASSUME IInv, NEW n \in DOMAIN sessions, ExpireSession(n)
  PROVE  IInv'
<1> DEFINE s == [sessions[n] EXCEPT !.status = "expired"]
<1>1. /\ SessionStep /\ found' = found \ {n}
      /\ sessions' = IF IsOpen(n) /\ ~IsSettled(n) THEN [sessions EXCEPT ![n] = s] ELSE sessions
  BY DEF ExpireSession
<1>2. SessionsOnly /\ sessions[n] \in Session
  BY <1>1, SessionsAlone, SessionFacts
<1>3. CASE IsOpen(n) /\ ~IsSettled(n)
  <2>1. s \in Session /\ s.order = 0 /\ sessions[n].order = 0
    BY <1>2, <1>3 DEF Session, IsSettled
  <2> HIDE DEF s
  <2> QED
    BY <1>1, <1>2, <1>3, <2>1, OneSessionKeeps
<1>4. CASE ~(IsOpen(n) /\ ~IsSettled(n))
  <2>1. sessions' = sessions /\ sessions' \in [DOMAIN sessions -> Session]
    BY <1>1, <1>4, SessionFacts DEF IInv, TypeOK
  <2>2. found' \subseteq DOMAIN sessions /\ FoundAreOver'
    BY <1>1, <2>1 DEF IInv, TypeOK, FoundAreOver, Over
  <2> QED
    BY <1>2, <2>1, <2>2, MapKeeps
<1> QED
  BY <1>3, <1>4

LEMMA TickKeeps ==
  ASSUME IInv, Tick
  PROVE  IInv'
<1> DEFINE running == {n \in DOMAIN sessions : IsOpen(n) /\ ~IsSettled(n) /\ ~IsExpired(n)}
<1>1. /\ SessionStep /\ found' = found
      /\ sessions' = [n \in DOMAIN sessions |->
           IF n \in running THEN [sessions[n] EXCEPT !.left = @ - 1] ELSE sessions[n]]
  BY DEF Tick
<1>2. sessions' \in [DOMAIN sessions -> Session]
  <2> SUFFICES ASSUME NEW n \in DOMAIN sessions
               PROVE  (IF n \in running THEN [sessions[n] EXCEPT !.left = @ - 1] ELSE sessions[n])
                        \in Session
    BY <1>1
  <2>1. sessions[n] \in Session
    BY SessionFacts
  <2>2. n \in running => sessions[n].left \in 0..Validity
    BY <2>1, BoundAssumption DEF IsExpired, Session
  <2> QED
    BY <2>1, <2>2, BoundAssumption DEF Session
<1>3. \A m \in 1..Len(sessions) :
        /\ sessions'[m].order = sessions[m].order
        /\ sessions'[m].status = sessions[m].status
        /\ sessions'[m].buyer = sessions[m].buyer
        /\ sessions'[m].price = sessions[m].price
  BY <1>1, SessionFacts DEF Session
<1>4. \A m \in 1..Len(sessions) : Over(m) => sessions'[m] = sessions[m]
  BY <1>1, SessionFacts DEF Over, IsOpen, IsSettled, IsExpired
<1>5. found' \subseteq DOMAIN sessions /\ FoundAreOver'
  BY <1>1, <1>4, SessionFacts DEF IInv, TypeOK, FoundAreOver, Over
<1> QED
  BY <1>1, <1>2, <1>3, <1>5, SessionsAlone, MapKeeps

LEMMA SoldKeeps ==
  ASSUME IInv, HandleSold
  PROVE  IInv'
<1> DEFINE s == [n \in DOMAIN sessions |->
                   IF sessions[n].status = "accepted" /\ ~IsSettled(n)
                   THEN [sessions[n] EXCEPT !.status = "cancelled"] ELSE sessions[n]]
<1>1. sessions' = s /\ found' = found /\ SessionsOnly
  BY DEF HandleSold, SessionsOnly
<1>2. sessions' \in [DOMAIN sessions -> Session]
  BY <1>1, SessionFacts DEF Session
<1>3. \A m \in 1..Len(sessions) :
        /\ sessions'[m].order = sessions[m].order
        /\ sessions[m].order # 0 => sessions'[m] = sessions[m]
  BY <1>1, SessionFacts DEF Session, IsSettled
<1>4. found' \subseteq DOMAIN sessions /\ FoundAreOver'
  BY <1>1, <1>2, SessionFacts DEF IInv, TypeOK, FoundAreOver, Over, Session
<1> QED
  BY <1>1, <1>2, <1>3, <1>4, MapKeeps

LEMMA ArchiveKeeps ==
  ASSUME IInv, ArchiveSold
  PROVE  IInv'
<1>1. sessions' = sessions /\ found' = found /\ SessionsOnly
  BY DEF ArchiveSold, SessionsOnly
<1>2. sessions' \in [DOMAIN sessions -> Session]
  BY <1>1, SessionFacts DEF IInv, TypeOK
<1>3. found' \subseteq DOMAIN sessions /\ FoundAreOver'
  BY <1>1 DEF IInv, TypeOK, FoundAreOver, Over
<1> QED
  BY <1>1, <1>2, <1>3, MapKeeps

--------------------------------------------------------------------------------
(* The seller, moderation and tokens. *)

LEMMA SellerKeeps ==
  ASSUME IInv, Withdraw \/ RestoreFromModeration
  PROVE  IInv'
<1>1. /\ UNCHANGED <<available, sessions, orders, tokens, found, sold>>
      /\ status \in {"active", "withdrawn"} /\ status' \in {"active", "withdrawn"}
  BY DEF Withdraw, RestoreFromModeration
<1>2. TypeOK' /\ ReferencesHold' /\ FoundAreOver' /\ OneOrderPerAgreement'
  BY <1>1 DEF IInv, TypeOK, ReferencesHold, FoundAreOver, Over, OneOrderPerAgreement
<1>3. StockConserved'
  BY <1>1 DEF IInv, StockConserved, Items, Holds
<1> QED
  BY <1>2, <1>3 DEF IInv

Token == [qty : 0..Stock, price : Nat, session : Nat]

(* A token that may be held: it names a session there is, if any, and then  *)
(* is for one item.                                                         *)
Holdable(t) ==
  t \in Token /\ t.session \in 0..Len(sessions) /\ (t.session # 0 => t.qty = 1)

LEMMA TokenKeeps ==
  ASSUME IInv, TokenStep, NEW b \in Buyers, NEW t, Holdable(t),
         tokens' = [tokens EXCEPT ![b] = t]
  PROVE  IInv'
<1>1. TypeOK'
  BY DEF IInv, TypeOK, TokenStep, Holdable, Token
<1>2. ReferencesHold'
  BY DEF IInv, TypeOK, ReferencesHold, TokenStep, Holdable
<1>3. FoundAreOver' /\ OneOrderPerAgreement'
  BY DEF IInv, FoundAreOver, Over, OneOrderPerAgreement, TokenStep
<1>4. StockConserved'
  BY DEF IInv, StockConserved, Items, Holds, TokenStep
<1> QED
  BY <1>1, <1>2, <1>3, <1>4 DEF IInv

LEMMA GenerateForForSaleKeeps ==
  ASSUME IInv, NEW b \in Buyers, NEW qty \in 1..Stock, GenerateForForSale(b, qty)
  PROVE  IInv'
<1> DEFINE t == [qty |-> qty, price |-> ListPrice, session |-> 0]
<1>1. TokenStep /\ tokens' = [tokens EXCEPT ![b] = t]
  BY DEF GenerateForForSale
<1>2. t \in Token /\ t.session = 0
  BY StockAssumption, PriceAssumption DEF Token
<1>3. Holdable(t)
  BY <1>2, SessionFacts DEF Holdable
<1> QED
  BY <1>1, <1>3, TokenKeeps

LEMMA GenerateForNegotiationKeeps ==
  ASSUME IInv, NEW b \in Buyers, NEW n \in DOMAIN sessions, GenerateForNegotiation(b, n)
  PROVE  IInv'
<1> DEFINE t == [qty |-> 1, price |-> sessions[n].price, session |-> n]
<1>1. TokenStep /\ tokens' = [tokens EXCEPT ![b] = t]
  BY DEF GenerateForNegotiation
<1>2. n \in 1..Len(sessions) /\ Len(sessions) \in Nat /\ sessions[n].price \in Nat
  BY SessionFacts DEF Session
<1>3. t \in Token /\ t.session = n /\ t.qty = 1
  BY <1>2, StockAssumption DEF Token
<1>4. Holdable(t)
  BY <1>2, <1>3 DEF Holdable
<1> QED
  BY <1>1, <1>4, TokenKeeps

--------------------------------------------------------------------------------
(* Orders. *)

LEMMA OrderFacts ==
  ASSUME IInv
  PROVE  /\ Len(orders) \in Nat /\ DOMAIN orders = 1..Len(orders)
         /\ \A o \in DOMAIN orders : orders[o] \in Order
BY SeqFacts DEF IInv, TypeOK

(* The sale is active and its stock was enough; a deal had no order.        *)
LEMMA CreateKeeps ==
  ASSUME IInv, NEW b \in Buyers, CreateFromSaleSurface(b)
  PROVE  IInv'
<1> DEFINE t == tokens[b]
           N == Len(orders) + 1
           order == [buyer |-> b, qty |-> t.qty, price |-> t.price, session |-> t.session,
                     state |-> "pending"]
<1>1. /\ t \in Token /\ t.qty \in 1..Stock /\ t.session \in 0..Len(sessions)
      /\ t.session # 0 => t.qty = 1
  BY StockAssumption DEF IInv, TypeOK, ReferencesHold, Token, CreateFromSaleSurface
<1>2. /\ status = "active" /\ t.qty <= available /\ available' = available - t.qty
      /\ status' = IF available = t.qty THEN "sold" ELSE status
      /\ sold' \in {sold, "pending"} /\ orders' = Append(orders, order)
      /\ sessions' = IF t.session = 0 THEN sessions
                     ELSE [sessions EXCEPT ![t.session].order = N]
      /\ tokens' = [tokens EXCEPT ![b] = NoToken] /\ found' = found
  BY DEF CreateFromSaleSurface
<1>3. t.session # 0 => /\ sessions[t.session].status = "accepted"
                       /\ sessions[t.session].order = 0
                       /\ sessions[t.session].buyer = b
                       /\ sessions[t.session].price = t.price
  BY DEF CreateFromSaleSurface, CanSettle, IsSettled
<1>4. order \in Order
  BY <1>1, SessionFacts DEF Order, Token
<1>5. /\ orders' \in Seq(Order) /\ Len(orders') = N /\ DOMAIN orders' = 1..N
      /\ orders'[N] = order /\ \A o \in 1..Len(orders) : orders'[o] = orders[o]
  BY <1>2, <1>4, AppendFacts, SeqFacts DEF IInv, TypeOK
<1>6. sessions' \in [DOMAIN sessions -> Session] /\ DOMAIN sessions' = DOMAIN sessions
  <2>1. CASE t.session = 0
    BY <1>2, <2>1, SessionFacts DEF IInv, TypeOK
  <2>2. CASE t.session # 0
    <3>1. t.session \in DOMAIN sessions /\ N \in Nat
      BY <1>1, <2>2, SessionFacts, OrderFacts
    <3>2. [sessions[t.session] EXCEPT !.order = N] \in Session
      BY <3>1, SessionFacts DEF Session
    <3>3. sessions' = [sessions EXCEPT ![t.session] = [sessions[t.session] EXCEPT !.order = N]]
      BY <1>2, <2>2
    <3> QED
      BY <3>1, <3>2, <3>3, SessionFacts DEF IInv, TypeOK
  <2> QED
    BY <2>1, <2>2
<1>7. sessions' \in Seq(Session) /\ Len(sessions') = Len(sessions)
  BY <1>6, MapFacts DEF IInv, TypeOK
<1>8. \A n \in 1..Len(sessions) :
        IF n = t.session
        THEN /\ sessions'[n].order = N /\ sessions'[n].status = "accepted"
             /\ sessions'[n].buyer = b /\ sessions'[n].price = t.price
        ELSE sessions'[n] = sessions[n]
  <2>1. DOMAIN sessions = 1..Len(sessions) /\ sessions \in [DOMAIN sessions -> Session]
    BY SessionFacts DEF IInv, TypeOK
  <2>2. CASE t.session = 0
    BY <1>2, <2>1, <2>2
  <2>3. CASE t.session # 0
    <3>1. sessions' = [sessions EXCEPT ![t.session] = [sessions[t.session] EXCEPT !.order = N]]
      BY <1>2, <2>3
    <3>2. t.session \in DOMAIN sessions /\ sessions[t.session] \in Session
      BY <1>1, <2>1, <2>3, SessionFacts
    <3>3. /\ sessions'[t.session] = [sessions[t.session] EXCEPT !.order = N]
          /\ \A n \in 1..Len(sessions) : n # t.session => sessions'[n] = sessions[n]
      BY <2>1, <3>1, <3>2
    <3>4. /\ sessions'[t.session].order = N /\ sessions'[t.session].status = "accepted"
          /\ sessions'[t.session].buyer = b /\ sessions'[t.session].price = t.price
      BY <1>3, <2>3, <3>2, <3>3 DEF Session
    <3> QED
      BY <3>3, <3>4
  <2> QED
    BY <2>2, <2>3
<1>9. TypeOK'
  <2>1. available' \in 0..Stock /\ status' \in {"active", "sold", "withdrawn"}
    BY <1>1, <1>2, StockAssumption DEF IInv, TypeOK
  <2>2. NoToken \in Token
    BY StockAssumption DEF NoToken, Token
  <2>3. tokens' \in [Buyers -> Token]
    BY <1>2, <2>2 DEF IInv, TypeOK, Token
  <2> QED
    BY <1>2, <1>5, <1>6, <1>7, <2>1, <2>3 DEF IInv, TypeOK, Token
<1>10. ReferencesHold'
  <2>1. \A n \in 1..Len(sessions) : /\ sessions'[n].order \in 0..N
                                    /\ sessions'[n].order # 0 => sessions'[n].status = "accepted"
    BY <1>8, OrderFacts DEF IInv, ReferencesHold
  <2>2. \A o \in 1..N : orders'[o].session \in 0..Len(sessions)
    BY <1>1, <1>5, OrderFacts DEF IInv, ReferencesHold
  <2>3. \A c \in Buyers : /\ tokens'[c].session \in 0..Len(sessions)
                          /\ tokens'[c].session # 0 => tokens'[c].qty = 1
    BY <1>2, SessionFacts DEF IInv, TypeOK, ReferencesHold, NoToken
  <2> QED
    BY <1>5, <1>7, <2>1, <2>2, <2>3 DEF ReferencesHold
<1>11. FoundAreOver'
  BY <1>2, <1>8, SessionFacts, OrderFacts DEF IInv, TypeOK, FoundAreOver, Over
<1>12. OneOrderPerAgreement'
  <2> SUFFICES ASSUME NEW o \in 1..N, orders'[o].session # 0
               PROVE  LET deal == sessions'[orders'[o].session]
                      IN /\ deal.order = o /\ deal.status = "accepted"
                         /\ orders'[o].buyer = deal.buyer /\ orders'[o].price = deal.price
                         /\ orders'[o].qty = 1
    BY <1>5 DEF OneOrderPerAgreement
  <2>1. CASE o = N
    <3>1. orders'[o] = order /\ t.session # 0 /\ t.session \in 1..Len(sessions)
      BY <1>1, <1>5, <2>1, SessionFacts
    <3> QED
      BY <1>1, <1>8, <2>1, <3>1
  <2>2. CASE o # N
    <3>1. o \in DOMAIN orders /\ orders'[o] = orders[o]
      BY <1>5, <2>2, OrderFacts
    <3>2. orders[o].session \in 1..Len(sessions)
      BY <3>1, SessionFacts, OrderFacts DEF IInv, ReferencesHold
    <3>3. LET deal == sessions[orders[o].session]
          IN /\ deal.order = o /\ deal.status = "accepted"
             /\ orders[o].buyer = deal.buyer /\ orders[o].price = deal.price
             /\ orders[o].qty = 1
      BY <3>1 DEF IInv, OneOrderPerAgreement
    <3>4. orders[o].session # t.session
      BY <1>3, <3>1, <3>3, OrderFacts
    <3> QED
      BY <1>8, <3>1, <3>2, <3>3, <3>4
  <2> QED
    BY <2>1, <2>2
<1>13. StockConserved'
  <2>1. Items' = Items \cup Piece(N, t.qty)
    <3>1. Items' = {i \in (1..N) \X (1..Stock) :
                      orders'[i[1]].state \in {"pending", "paid", "refunded"}
                      /\ i[2] <= orders'[i[1]].qty}
      BY <1>5 DEF Items, Holds
    <3>2. Items = {i \in (1..Len(orders)) \X (1..Stock) :
                     orders[i[1]].state \in {"pending", "paid", "refunded"}
                     /\ i[2] <= orders[i[1]].qty}
      BY OrderFacts DEF Items, Holds
    <3>3. \A o \in 1..N : o = N \/ (o \in 1..Len(orders) /\ orders'[o] = orders[o])
      BY <1>5, OrderFacts
    <3>4. Piece(N, t.qty) = {i \in (1..N) \X (1..Stock) : i[1] = N /\ i[2] <= t.qty}
      BY <1>1, OrderFacts, StockAssumption DEF Piece
    <3>5. N \notin 1..Len(orders) /\ 1..Len(orders) \subseteq 1..N
      BY OrderFacts
    <3> QED
      BY <1>5, <3>1, <3>2, <3>3, <3>4, <3>5
  <2>2. Items \cap Piece(N, t.qty) = {}
    BY OrderFacts DEF Items, Piece
  <2>3. Cardinality(Items') = Cardinality(Items) + t.qty
    <3>1. IsFiniteSet(Items) /\ Cardinality(Items) \in Nat
      BY ItemsFinite DEF IInv
    <3>2. IsFiniteSet(Piece(N, t.qty)) /\ Cardinality(Piece(N, t.qty)) = t.qty
      BY <1>1, PieceFacts
    <3>3. Cardinality(Items') = Cardinality(Items) + t.qty - Cardinality(Items \cap Piece(N, t.qty))
      BY <2>1, <3>1, <3>2, FS_Union
    <3>4. Cardinality(Items \cap Piece(N, t.qty)) = 0
      BY <2>2, FS_EmptySet
    <3>5. t.qty \in Nat
      BY <1>1, StockAssumption
    <3> QED
      BY <3>1, <3>3, <3>4, <3>5
  <2> QED
    <3>1. /\ available + Cardinality(Items) = Stock
          /\ status = "sold" <=> available = 0
      BY DEF IInv, StockConserved
    <3>2. available \in Int /\ t.qty \in Int /\ Cardinality(Items) \in Int
      BY <1>1, ItemsFinite, StockAssumption DEF IInv, TypeOK
    <3>3. available' + Cardinality(Items') = Stock
      BY <1>2, <2>3, <3>1, <3>2
    <3>4. status' = "sold" <=> available' = 0
      BY <1>1, <1>2, <3>1, <3>2
    <3> QED
      BY <3>3, <3>4 DEF StockConserved
<1> QED
  BY <1>9, <1>10, <1>11, <1>12, <1>13 DEF IInv

(* What happens to an order after its creation. *)
LEMMA BecomesFacts ==
  ASSUME IInv, NEW o \in DOMAIN orders, NEW state \in {"paid", "refunded", "dropped"},
         Becomes(o, state)
  PROVE  /\ orders' \in Seq(Order) /\ Len(orders') = Len(orders) /\ DOMAIN orders' = DOMAIN orders
         /\ orders'[o].state = state
         /\ \A p \in DOMAIN orders :
              /\ orders'[p].buyer = orders[p].buyer /\ orders'[p].qty = orders[p].qty
              /\ orders'[p].price = orders[p].price /\ orders'[p].session = orders[p].session
              /\ p # o => orders'[p].state = orders[p].state
<1>1. orders' = [orders EXCEPT ![o].state = state]
  BY DEF Becomes
<1>2. orders' \in [DOMAIN orders -> Order]
  BY <1>1, OrderFacts DEF Order
<1>3. orders' \in Seq(Order) /\ Len(orders') = Len(orders)
  BY <1>2, MapFacts DEF IInv, TypeOK
<1> QED
  BY <1>1, <1>2, <1>3, OrderFacts DEF Order

(* All but the stock is untouched. *)
LEMMA OrderStepKeeps ==
  ASSUME IInv, NEW o \in DOMAIN orders, NEW state \in {"paid", "refunded", "dropped"},
         Becomes(o, state), UNCHANGED <<sessions, tokens, found, sold>>,
         status' \in {"active", "sold", "withdrawn"}, available' \in 0..Stock
  PROVE  TypeOK' /\ ReferencesHold' /\ FoundAreOver' /\ OneOrderPerAgreement'
<1>1. TypeOK'
  BY BecomesFacts DEF IInv, TypeOK
<1>2. ReferencesHold'
  BY BecomesFacts, OrderFacts DEF IInv, ReferencesHold
<1>3. FoundAreOver'
  BY DEF IInv, FoundAreOver, Over
<1>4. OneOrderPerAgreement'
  BY BecomesFacts DEF IInv, OneOrderPerAgreement
<1> QED
  BY <1>1, <1>2, <1>3, <1>4

LEMMA PaidOrRefundedKeeps ==
  ASSUME IInv, NEW o \in DOMAIN orders, MarkPaid(o) \/ RefundOrder(o)
  PROVE  IInv'
<1>1. PICK state \in {"paid", "refunded"} : Becomes(o, state)
  BY DEF MarkPaid, RefundOrder
<1>2. UNCHANGED <<status, available, sessions, tokens, found, sold>> /\ Holds(o)
  BY DEF MarkPaid, RefundOrder, Holds
<1>3. TypeOK' /\ ReferencesHold' /\ FoundAreOver' /\ OneOrderPerAgreement'
  BY <1>1, <1>2, OrderStepKeeps DEF IInv, TypeOK
<1>4. \A p \in DOMAIN orders : Holds(p)' <=> Holds(p)
  BY <1>1, <1>2, BecomesFacts DEF Holds
<1>5. Items' = Items
  BY <1>1, <1>4, BecomesFacts DEF Items
<1>6. StockConserved'
  BY <1>2, <1>5 DEF IInv, StockConserved
<1> QED
  BY <1>3, <1>6 DEF IInv

(* The order held its items, and puts them back. *)
LEMMA FallsThroughKeeps ==
  ASSUME IInv, NEW o \in DOMAIN orders, CancelOrExpire(o) \/ CancelOverdue(o)
  PROVE  IInv'
<1> DEFINE qty == orders[o].qty
<1>1. /\ Becomes(o, "dropped") /\ UNCHANGED <<sessions, tokens, found, sold>>
      /\ available' = available + qty
      /\ status' = IF status = "sold" THEN "active" ELSE status
      /\ Holds(o)
  BY DEF CancelOrExpire, CancelOverdue, FallsThrough, restoreFixedPriceForSaleStock, Holds
<1>2. qty \in 1..Stock /\ qty \in Nat
  BY OrderFacts, StockAssumption DEF Order
<1>3. IsFiniteSet(Items) /\ Cardinality(Items) \in Nat
  BY ItemsFinite DEF IInv
<1>4. Items \cap Piece(o, qty) = Piece(o, qty)
  <2>1. Piece(o, qty) = {i \in (DOMAIN orders) \X (1..Stock) : i[1] = o /\ i[2] <= qty}
    BY <1>2, StockAssumption DEF Piece
  <2>2. Items = {i \in (DOMAIN orders) \X (1..Stock) : Holds(i[1]) /\ i[2] <= orders[i[1]].qty}
    BY DEF Items
  <2> QED
    BY <1>1, <2>1, <2>2
<1>5. Items' = Items \ Piece(o, qty)
  <2>1. ~Holds(o)' /\ \A p \in DOMAIN orders : p # o => (Holds(p)' <=> Holds(p))
    BY <1>1, BecomesFacts DEF Holds
  <2>2. Items' = {i \in (DOMAIN orders) \X (1..Stock) : Holds(i[1])' /\ i[2] <= orders[i[1]].qty}
    BY <1>1, BecomesFacts DEF Items
  <2>3. Items = {i \in (DOMAIN orders) \X (1..Stock) : Holds(i[1]) /\ i[2] <= orders[i[1]].qty}
    BY DEF Items
  <2>4. Piece(o, qty) = {i \in (DOMAIN orders) \X (1..Stock) : i[1] = o /\ i[2] <= qty}
    BY <1>2, StockAssumption DEF Piece
  <2> QED
    BY <2>1, <2>2, <2>3, <2>4
<1>6. Cardinality(Items') = Cardinality(Items) - qty
  <2>1. Cardinality(Piece(o, qty)) = qty
    BY <1>2, PieceFacts
  <2>2. Cardinality(Items \ Piece(o, qty)) = Cardinality(Items) - Cardinality(Items \cap Piece(o, qty))
    BY <1>3, FS_Difference
  <2> QED
    BY <1>4, <1>5, <2>1, <2>2
<1>7. Cardinality(Items') \in Nat
  BY <1>3, <1>5, FS_Difference, FS_CardinalityType
<1>8. available' + Cardinality(Items') = Stock
  BY <1>1, <1>2, <1>3, <1>6 DEF IInv, StockConserved, TypeOK
<1>9. available' \in 0..Stock /\ available' > 0
  BY <1>1, <1>2, <1>7, <1>8, StockAssumption DEF IInv, TypeOK
<1>10. status' \in {"active", "withdrawn"}
  BY <1>1 DEF IInv, TypeOK
<1>11. StockConserved'
  BY <1>8, <1>9, <1>10 DEF StockConserved
<1> QED
  BY <1>1, <1>9, <1>10, <1>11, OrderStepKeeps DEF IInv

--------------------------------------------------------------------------------
(* The theorems. *)

LEMMA InitHolds ==
  ASSUME Init
  PROVE  IInv
<1>1. Items = {}
  BY DEF Init, Items
<1>2. StockConserved
  BY <1>1, FS_EmptySet, StockAssumption DEF Init, StockConserved
<1>3. TypeOK
  BY StockAssumption DEF Init, TypeOK, NoToken
<1> QED
  BY <1>2, <1>3
  DEF Init, IInv, ReferencesHold, FoundAreOver, OneOrderPerAgreement, NoToken

LEMMA NextKeeps ==
  ASSUME IInv, [Next]_vars
  PROVE  IInv'
<1>1. CASE Withdraw \/ RestoreFromModeration
  BY <1>1, SellerKeeps
<1>2. CASE Negotiate
  BY <1>2, StartKeeps, CounterKeeps, AcceptKeeps, CancelKeeps, FindKeeps, ExpireKeeps, TickKeeps
  DEF Negotiate
<1>3. CASE CheckOut
  BY <1>3, GenerateForForSaleKeeps, GenerateForNegotiationKeeps, CreateKeeps DEF CheckOut
<1>4. ASSUME NEW o \in DOMAIN orders,
             MarkPaid(o) \/ CancelOrExpire(o) \/ CancelOverdue(o) \/ RefundOrder(o)
      PROVE  IInv'
  BY <1>4, PaidOrRefundedKeeps, FallsThroughKeeps
<1>5. CASE HandleSold \/ ArchiveSold
  BY <1>5, SoldKeeps, ArchiveKeeps
<1>6. CASE UNCHANGED vars
  BY <1>6 DEF vars, IInv, TypeOK, ReferencesHold, FoundAreOver, Over, OneOrderPerAgreement,
              StockConserved, Items, Holds
<1> QED
  BY <1>1, <1>2, <1>3, <1>4, <1>5, <1>6 DEF Next

(* The inductive invariant of the sale (see the head of this module).       *)
THEOREM Invariance == Spec => []IInv
BY InitHolds, NextKeeps, PTL DEF Spec

(* Types of the sale, its negotiations and its orders. *)
THEOREM TypeCorrect == Spec => []TypeOK
<1>1. IInv => TypeOK
  BY DEF IInv
<1> QED
  BY Invariance, <1>1, PTL

(* Stock that orders hold and stock that is available always make up what   *)
(* the sale began with, however checkouts, cancellations, expiries and      *)
(* refunds follow each other.                                               *)
THEOREM StockIsConserved == Spec => []StockConserved
<1>1. IInv => StockConserved
  BY DEF IInv
<1> QED
  BY Invariance, <1>1, PTL

(* An agreed price is ordered at once at most, by the buyer who agreed.     *)
THEOREM DealsAreOrderedOnce == Spec => []OneOrderPerAgreement
<1>1. IInv => OneOrderPerAgreement
  BY DEF IInv
<1> QED
  BY Invariance, <1>1, PTL

(* The worker never expires a session that has time left, although it looks *)
(* at the time in an earlier transaction.                                   *)
THEOREM FreshDealsStand == Spec => FreshDealStands
<1> DEFINE Stands == \A n \in DOMAIN sessions :
      sessions[n].left >= 0 => (sessions'[n].status = "expired" => sessions[n].status = "expired")
<1>1. ASSUME IInv, [Next]_vars
      PROVE  [Stands]_vars
  <2> SUFFICES ASSUME Next, NEW n \in DOMAIN sessions, sessions[n].left >= 0,
                      sessions'[n].status = "expired"
               PROVE  sessions[n].status = "expired"
    BY <1>1
  <2>1. /\ n \in 1..Len(sessions) /\ Len(sessions) \in Nat /\ sessions[n] \in Session
        /\ sessions \in [DOMAIN sessions -> Session]
    BY <1>1, SessionFacts DEF IInv, TypeOK
  <2>2. CASE sessions' = sessions
    BY <2>2
  <2>3. ASSUME NEW m \in DOMAIN sessions, ExpireSession(m)
        PROVE  sessions[n].status = "expired"
    <3>1. m \in found /\ (m = n => Over(n))
      BY <1>1, <2>3 DEF ExpireSession, IInv, FoundAreOver
    <3>2. CASE m = n
      BY <2>1, <2>3, <3>1, <3>2 DEF Over, ExpireSession, IsOpen, IsSettled, Session
    <3>3. CASE m # n
      BY <2>1, <2>3, <3>3 DEF ExpireSession
    <3> QED
      BY <3>2, <3>3
  <2>4. ASSUME NEW b \in Buyers, NEW price \in Offers, StartNegotiation(b, price)
        PROVE  sessions[n].status = "expired"
    BY <1>1, <2>1, <2>4 DEF StartNegotiation, IInv, TypeOK
  <2>5. ASSUME NEW m \in DOMAIN sessions, NEW u, NEW price, SendCounterOffer(m, u, price)
        PROVE  sessions[n].status = "expired"
    BY <2>1, <2>5 DEF SendCounterOffer, Session
  <2>6. ASSUME NEW m \in DOMAIN sessions, AcceptNegotiation(m) \/ CancelNegotiation(m)
        PROVE  sessions[n].status = "expired"
    BY <2>1, <2>6 DEF AcceptNegotiation, CancelNegotiation, Session
  <2>7. CASE Tick \/ HandleSold
    <3>1. sessions'[n].status \in {sessions[n].status, "cancelled"}
      <4>1. CASE Tick
        BY <2>1, <4>1 DEF Tick, Session
      <4>2. CASE HandleSold
        BY <2>1, <4>2 DEF HandleSold, Session
      <4> QED
        BY <2>7, <4>1, <4>2
    <3> QED
      BY <3>1
  <2>8. ASSUME NEW b \in Buyers, CreateFromSaleSurface(b)
        PROVE  sessions[n].status = "expired"
    BY <2>1, <2>8 DEF CreateFromSaleSurface, Session
  <2> QED
    BY <2>2, <2>3, <2>4, <2>5, <2>6, <2>7, <2>8
    DEF Next, Negotiate, CheckOut, SessionStep, TokenStep, Withdraw, RestoreFromModeration,
        FindExpired, GenerateForForSale, GenerateForNegotiation, MarkPaid, CancelOrExpire,
        CancelOverdue, FallsThrough, RefundOrder, ArchiveSold
<1> QED
  BY Invariance, <1>1, PTL DEF Spec, FreshDealStands

=================================================================================
