---------------------------------- MODULE Sale ----------------------------------
(***************************************************************************)
(* One fixed-price sale: its stock, the negotiations over its price and the *)
(* orders that take from its stock and may give it back.  Buyers and the    *)
(* seller negotiate in sessions; an accepted session is a deal for one      *)
(* item, which the buyer can check out until the deal expires.  Whoever     *)
(* checks out uses a pricing token, made earlier and without locks.         *)
(*                                                                          *)
(* Shipping quotes and discounts are left out: they can only bar a checkout *)
(* that is possible here, and change nothing but themselves.                *)
(*                                                                          *)
(* What changes the stock or negotiates locks the sale first, so it is one  *)
(* action.  The worker that expires sessions finds them in one transaction  *)
(* and expires each in another; the event that the sale is sold out is      *)
(* handled later, and perhaps again.                                        *)
(***************************************************************************)
EXTENDS Integers, Sequences, FiniteSets

CONSTANTS
  Buyers, Seller,
  Stock,           \* items the sale was created with
  ListPrice,       \* its unit price, which cannot be edited
  Offers,          \* prices proposed in negotiations
  Validity,        \* of a session and of a deal: 24 hours
  MaxSessions, MaxOrders \* bounds: ever started, ever created

ASSUME StockAssumption == Stock \in Nat \ {0}
ASSUME PriceAssumption == ListPrice \in Nat \ {0} /\ Offers \subseteq Nat \ {0}
ASSUME BoundAssumption ==
  Validity \in Nat /\ MaxSessions \in Nat /\ MaxOrders \in Nat
ASSUME SellerAssumption == Seller \notin Buyers

VARIABLES
  status, available, \* for_sales.status and quantity_available
  sessions,  \* negotiation_sessions in order of creation
  orders,    \* orders of the sale in order of creation
  tokens,    \* the last pricing token of each buyer; of quantity 0 if used or none
  found,     \* sessions the expire worker has found and not yet processed
  sold       \* the outbox row of for_sale.sold

vars == <<status, available, sessions, orders, tokens, found, sold>>

NoToken == [qty |-> 0, price |-> 0, session |-> 0]

Init ==
  /\ status = "active" /\ available = Stock
  /\ sessions = <<>> /\ orders = <<>>
  /\ tokens = [b \in Buyers |-> NoToken]
  /\ found = {} /\ sold = "none"

--------------------------------------------------------------------------------
(* The entities. *)

IsAvailable == status = "active" /\ available > 0

IsExpired(n) == sessions[n].left < 0
IsSettled(n) == sessions[n].order # 0
IsOpen(n) == sessions[n].status \in {"active", "accepted"}

(* Mutant of CanSettle: a settled deal can be checked out again. *)
CanSettleAgain(n) == sessions[n].status = "accepted" /\ ~IsExpired(n)

CanSettle(n) == sessions[n].status = "accepted" /\ ~IsExpired(n) /\ ~IsSettled(n)

(* Orders that hold what they took.  A paid order stays paid here until it  *)
(* is refunded or cancelled: its shipment and completion change no stock.   *)
Holds(o) == orders[o].state \in {"pending", "paid", "refunded"}

--------------------------------------------------------------------------------
(* The seller and moderation. *)

Withdraw ==
  /\ status = "active" /\ status' = "withdrawn"
  /\ UNCHANGED <<available, sessions, orders, tokens, found, sold>>

RestoreFromModeration ==
  /\ status = "withdrawn" /\ status' = "active"
  /\ UNCHANGED <<available, sessions, orders, tokens, found, sold>>

--------------------------------------------------------------------------------
(* Negotiation. *)

SessionStep == UNCHANGED <<status, available, orders, tokens, sold>>

StartNegotiation(b, price) ==
  /\ IsAvailable /\ Len(sessions) < MaxSessions
  /\ ~\E n \in DOMAIN sessions : sessions[n].buyer = b /\ IsOpen(n) /\ ~IsSettled(n)
  /\ sessions' = Append(sessions,
       [buyer |-> b, status |-> "active", price |-> price, by |-> b,
        left |-> Validity, order |-> 0])
  /\ UNCHANGED found /\ SessionStep

SendCounterOffer(n, sender, price) ==
  /\ IsAvailable /\ sessions[n].status = "active" /\ ~IsExpired(n)
  /\ sender \in {sessions[n].buyer, Seller} /\ sessions[n].by # sender
  /\ sessions' = [sessions EXCEPT ![n].price = price, ![n].by = sender]
  /\ UNCHANGED found /\ SessionStep

(* Mutant of AcceptNegotiation: an expired session is not refused. *)
AcceptLate(n) ==
  /\ IsAvailable /\ sessions[n].status = "active"
  /\ sessions' = [sessions EXCEPT ![n].status = "accepted", ![n].left = Validity]
  /\ UNCHANGED found /\ SessionStep

(* Either party accepts the price that stands, whoever proposed it.  The    *)
(* buyer must have no other accepted session of the sale, settled or not.   *)
(* The price stands from here on: only an active session takes counters.    *)
AcceptNegotiation(n) ==
  /\ IsAvailable /\ sessions[n].status = "active" /\ ~IsExpired(n)
  /\ ~\E m \in DOMAIN sessions :
        sessions[m].buyer = sessions[n].buyer /\ sessions[m].status = "accepted"
  /\ sessions' = [sessions EXCEPT ![n].status = "accepted", ![n].left = Validity]
  /\ UNCHANGED found /\ SessionStep

CancelNegotiation(n) ==
  /\ sessions[n].status = "active" /\ ~IsExpired(n)
  /\ sessions' = [sessions EXCEPT ![n].status = "cancelled"]
  /\ UNCHANGED found /\ SessionStep

(* GetExpiredSessions, whose locks end with it. *)
FindExpired(n) ==
  /\ IsOpen(n) /\ ~IsSettled(n) /\ IsExpired(n)
  /\ found' = found \cup {n}
  /\ UNCHANGED sessions /\ SessionStep

(* ExpireSession: no look at the time, which was looked at when found.      *)
ExpireSession(n) ==
  /\ n \in found /\ found' = found \ {n}
  /\ sessions' = IF IsOpen(n) /\ ~IsSettled(n)
                 THEN [sessions EXCEPT ![n].status = "expired"] ELSE sessions
  /\ SessionStep

(* The clock of the sessions whose time matters still. *)
Tick ==
  LET running == {n \in DOMAIN sessions : IsOpen(n) /\ ~IsSettled(n) /\ ~IsExpired(n)}
  IN /\ running # {}
     /\ sessions' = [n \in DOMAIN sessions |->
          IF n \in running THEN [sessions[n] EXCEPT !.left = @ - 1] ELSE sessions[n]]
     /\ UNCHANGED found /\ SessionStep

--------------------------------------------------------------------------------
(* Checkout. *)

TokenStep == UNCHANGED <<status, available, sessions, orders, found, sold>>

GenerateForForSale(b, qty) ==
  /\ status = "active" /\ qty <= available
  /\ tokens' = [tokens EXCEPT ![b] =
       [qty |-> qty, price |-> ListPrice, session |-> 0]]
  /\ TokenStep

(* For one item, always. *)
GenerateForNegotiation(b, n) ==
  /\ sessions[n].buyer = b /\ CanSettle(n) /\ IsAvailable
  /\ tokens' = [tokens EXCEPT ![b] =
       [qty |-> 1, price |-> sessions[n].price, session |-> n]]
  /\ TokenStep

(* The sale is locked.  One that is sold out says so, unless the row that   *)
(* said it before is not archived yet.  The order of a deal is put on its   *)
(* session.                                                                 *)
CreateFromSaleSurface(b) ==
  LET t == tokens[b]
      last == available = t.qty
  IN /\ t.qty > 0 /\ Len(orders) < MaxOrders
     /\ status = "active" /\ t.qty <= available
     /\ t.session # 0 => /\ CanSettle(t.session)
                         /\ sessions[t.session].buyer = b
                         /\ sessions[t.session].price = t.price
     /\ available' = available - t.qty
     /\ status' = IF last THEN "sold" ELSE status
     /\ sold' = IF last /\ sold = "none" THEN "pending" ELSE sold
     /\ orders' = Append(orders,
          [buyer |-> b, qty |-> t.qty, price |-> t.price, session |-> t.session,
           state |-> "pending"])
     /\ sessions' = IF t.session = 0 THEN sessions
                    ELSE [sessions EXCEPT ![t.session].order = Len(orders) + 1]
     /\ tokens' = [tokens EXCEPT ![b] = NoToken]
     /\ UNCHANGED found

--------------------------------------------------------------------------------
(* What becomes of an order. *)

Becomes(o, state) == orders' = [orders EXCEPT ![o].state = state]

MarkPaid(o) ==
  /\ orders[o].state = "pending" /\ Becomes(o, "paid")
  /\ UNCHANGED <<status, available, sessions, tokens, found, sold>>

(* Mutant of restoreFixedPriceForSaleStock: a sale that was sold out stays. *)
restoreQuantityOnly(o) == available' = available + orders[o].qty /\ UNCHANGED status

(* RestoreQuantity: a sale that was sold out is active again. *)
restoreFixedPriceForSaleStock(o) ==
  /\ available' = available + orders[o].qty
  /\ status' = IF status = "sold" THEN "active" ELSE status

FallsThrough(o) ==
  /\ restoreFixedPriceForSaleStock(o) /\ Becomes(o, "dropped")
  /\ UNCHANGED <<sessions, tokens, found, sold>>

(* Mutant of CancelOrExpire: one that has fallen through does so again. *)
CancelOrExpireAgain(o) == orders[o].state \in {"pending", "dropped"} /\ FallsThrough(o)

(* Cancel by the buyer, Expire by the payment workers. *)
CancelOrExpire(o) == orders[o].state = "pending" /\ FallsThrough(o)

CancelOverdue(o) == orders[o].state = "paid" /\ FallsThrough(o)

(* RefundOrder and RefundFromDispute: the goods are not put up again.       *)
RefundOrder(o) ==
  /\ orders[o].state = "paid" /\ Becomes(o, "refunded")
  /\ UNCHANGED <<status, available, sessions, tokens, found, sold>>

(* ForSaleSoldEventHandler: the deals that wait for their checkout are      *)
(* cancelled, whatever has become of the sale since.  The outbox may        *)
(* deliver the event again.                                                 *)
HandleSold ==
  /\ sold = "pending" /\ sold' \in {"pending", "done"}
  /\ sessions' = [n \in DOMAIN sessions |->
       IF sessions[n].status = "accepted" /\ ~IsSettled(n)
       THEN [sessions[n] EXCEPT !.status = "cancelled"] ELSE sessions[n]]
  /\ UNCHANGED <<status, available, orders, tokens, found>>

ArchiveSold ==
  /\ sold = "done" /\ sold' = "none"
  /\ UNCHANGED <<status, available, sessions, orders, tokens, found>>

--------------------------------------------------------------------------------

Negotiate ==
  \/ \E b \in Buyers, price \in Offers : StartNegotiation(b, price)
  \/ \E n \in DOMAIN sessions :
       \/ \E u \in Buyers \cup {Seller}, price \in Offers : SendCounterOffer(n, u, price)
       \/ AcceptNegotiation(n) \/ CancelNegotiation(n)
       \/ FindExpired(n) \/ ExpireSession(n)
  \/ Tick

CheckOut ==
  \E b \in Buyers :
    \/ \E qty \in 1..Stock : GenerateForForSale(b, qty)
    \/ \E n \in DOMAIN sessions : GenerateForNegotiation(b, n)
    \/ CreateFromSaleSurface(b)

Next ==
  \/ Withdraw \/ RestoreFromModeration
  \/ Negotiate \/ CheckOut
  \/ \E o \in DOMAIN orders :
       MarkPaid(o) \/ CancelOrExpire(o) \/ CancelOverdue(o) \/ RefundOrder(o)
  \/ HandleSold \/ ArchiveSold

Spec == Init /\ [][Next]_vars

--------------------------------------------------------------------------------
(* Properties. *)

Session == [buyer : Buyers, status : {"active", "accepted", "cancelled", "expired"},
            price : Nat, by : Buyers \cup {Seller}, left : -1..Validity, order : Nat]
Order == [buyer : Buyers, qty : 1..Stock, price : Nat, session : Nat,
          state : {"pending", "paid", "refunded", "dropped"}]

(* Every variable holds what its column or its process can hold. *)
TypeOK ==
  /\ status \in {"active", "sold", "withdrawn"} /\ available \in 0..Stock
  /\ sessions \in Seq(Session) /\ orders \in Seq(Order)
  /\ tokens \in [Buyers -> [qty : 0..Stock, price : Nat, session : Nat]]
  /\ found \subseteq DOMAIN sessions
  /\ sold \in {"none", "pending", "done"}

(* No item is sold twice and none gets lost: what is available and what the *)
(* orders hold that did not fall through make up the stock, through all     *)
(* cancellations, expiries, withdrawals and restorations; and the sale is   *)
(* sold out exactly when nothing is available.                              *)
Items == {i \in (DOMAIN orders) \X (1..Stock) : Holds(i[1]) /\ i[2] <= orders[i[1]].qty}
StockConserved ==
  /\ available + Cardinality(Items) = Stock
  /\ status = "sold" <=> available = 0

(* A deal makes one order at most, of its buyer, one item, at the price     *)
(* agreed, and is not cancelled or expired under it.                        *)
OneOrderPerAgreement ==
  \A o \in DOMAIN orders : orders[o].session # 0 =>
    LET deal == sessions[orders[o].session]
    IN /\ deal.order = o /\ deal.status = "accepted"
       /\ orders[o].buyer = deal.buyer /\ orders[o].price = deal.price
       /\ orders[o].qty = 1

(* A session with time left is not expired, although the worker does not    *)
(* look at the time again after it has found the session, and accepting one *)
(* gives it new time.                                                       *)
FreshDealStands ==
  [][\A n \in DOMAIN sessions :
       sessions[n].left >= 0 => (sessions'[n].status = "expired" => sessions[n].status = "expired")]_vars

=================================================================================
