------------------------------ MODULE Auction_proofs ------------------------------
(***************************************************************************)
(* Proofs about Auction, for any bidders, amounts, prices and times, any    *)
(* number of rounds and of orders.                                          *)
(***************************************************************************)
EXTENDS Auction, TLAPS

--------------------------------------------------------------------------------
(* The inductive invariant.  What an auction keeps from earlier rounds, its *)
(* bids, orders and violations, is told apart by the round; what it keeps   *)
(* of this round agrees with the row.                                       *)

NoRowYet ==
  status = "none" => round = 0 /\ bid = 0 /\ winner = Nobody /\ order = 0

BidsAreOld == \A x \in bids : x.round <= round

BlamedAreOld == \A v \in blamed : v.round < round

(* Once there is an order in a round the round takes no more bids.          *)
Over(s) == s \in {"waiting_settlement", "ended", "cancelled"}
OrdersAreOld ==
  \A o \in DOMAIN orders :
    orders[o].round <= round /\ (orders[o].round = round => Over(status))

(* The auction is bound to an order of this round, and while it waits for   *)
(* the payment its shipping is resolved, so that the settlement worker      *)
(* leaves it alone.                                                         *)
BoundToRound ==
  order # 0 => /\ orders[order].round = round
               /\ status = "waiting_settlement" => resolved

DurationKept == left - wait <= MaxDuration + extended

Order == [buyer : Bidders, price : Nat, round : Nat, via : {"bid", "buy_now"},
          state : {"pending", "paid", "gone"}]
Bid == [by : Bidders, key : Keys, amount : Amounts, round : Nat]
Violation == [user : Users, round : Nat, kind : Kinds]

(* TypeOK with the sets of its records named.                               *)
Typed ==
  /\ status \in Statuses /\ wait \in Int /\ left \in Int /\ extended \in 0..MaxExtension
  /\ bid \in Nat /\ winner \in Bidders \cup {Nobody} /\ order \in 0..Len(orders)
  /\ resolved \in BOOLEAN /\ asked \in BOOLEAN /\ given \in BOOLEAN /\ round \in Nat
  /\ bids \subseteq Bid /\ orders \in Seq(Order)
  /\ quoted \in [Bidders -> Nat] /\ found \subseteq Jobs
  /\ blamed \subseteq Violation /\ restricted \subseteq Users

IInv ==
  /\ Typed /\ NoRowYet /\ BidsAreOld /\ BlamedAreOld /\ OrdersAreOld /\ BoundToRound
  /\ DurationKept /\ HighestBidWins /\ SoldOnce /\ FairPrice /\ PayersAreNotBlamed

--------------------------------------------------------------------------------
(* Facts about the operators. *)

LEMMA PreviousBounded ==
  ASSUME Typed
  PROVE  PreviousDuration \in Nat /\ PreviousDuration <= MaxDuration
BY TimeAssumption DEF Typed, PreviousDuration

LEMMA ExtensionBounded ==
  ASSUME Typed
  PROVE  AntiSnipingExtension \in Nat /\ extended + AntiSnipingExtension \in 0..MaxExtension
BY TimeAssumption DEF Typed, AntiSnipingExtension

LEMMA MoreTime ==
  \A a, b \in Int, m, n \in Nat : a - b <= m => a - b <= m + n
OBVIOUS

LEMMA TypeParts == TypeOK <=> Typed
BY DEF TypeOK, Typed, Order, Bid, Violation

LEMMA OrdersTyped ==
  ASSUME Typed
  PROVE  /\ DOMAIN orders = 1..Len(orders) /\ Len(orders) \in Nat
         /\ \A o \in DOMAIN orders : orders[o] \in Order
BY DEF Typed

(* An order changes its state and nothing else.                             *)
LEMMA StateSet ==
  ASSUME Typed, NEW o \in DOMAIN orders, NEW s \in {"paid", "gone"},
         orders' = [orders EXCEPT ![o].state = s]
  PROVE  /\ orders' \in Seq(Order) /\ Len(orders') = Len(orders)
         /\ DOMAIN orders' = DOMAIN orders /\ orders'[o].state = s
         /\ \A p \in DOMAIN orders :
              /\ orders'[p].buyer = orders[p].buyer /\ orders'[p].price = orders[p].price
              /\ orders'[p].round = orders[p].round /\ orders'[p].via = orders[p].via
              /\ p # o => orders'[p].state = orders[p].state
<1>1. /\ orders \in Seq(Order) /\ DOMAIN orders = 1..Len(orders) /\ Len(orders) \in Nat
      /\ orders[o] \in Order
  BY OrdersTyped DEF Typed
<1>2. orders' = [orders EXCEPT ![o] = [orders[o] EXCEPT !.state = s]]
  OBVIOUS
<1> DEFINE e == [orders[o] EXCEPT !.state = s]
<1>3. /\ e \in Order /\ e.state = s
      /\ e.buyer = orders[o].buyer /\ e.price = orders[o].price
      /\ e.round = orders[o].round /\ e.via = orders[o].via
  BY <1>1 DEF Order
<1> HIDE DEF e
<1>4. orders' = [orders EXCEPT ![o] = e]
  BY <1>2 DEF e
<1>5. orders' \in Seq(Order) /\ Len(orders') = Len(orders) /\ DOMAIN orders' = DOMAIN orders
  BY <1>1, <1>3, <1>4
<1>6. orders'[o] = e /\ \A p \in DOMAIN orders : p # o => orders'[p] = orders[p]
  BY <1>1, <1>4
<1>7. QED
  BY <1>3, <1>5, <1>6

--------------------------------------------------------------------------------
(* What steps have in common. *)

LEMMA InitIsInv == Init => IInv
<1> SUFFICES ASSUME Init PROVE IInv
  OBVIOUS
<1>1. Typed
  <2>1. orders \in Seq(Order) /\ Len(orders) = 0
    BY DEF Init
  <2>2. order \in 0..Len(orders) /\ extended \in 0..MaxExtension
    BY <2>1, TimeAssumption DEF Init
  <2>3. /\ status \in Statuses /\ wait \in Int /\ left \in Int /\ bid \in Nat
        /\ winner \in Bidders \cup {Nobody}
        /\ round \in Nat
    BY DEF Init, Statuses
  <2>4. /\ quoted \in [Bidders -> Nat] /\ bids \subseteq Bid /\ found \subseteq Jobs
        /\ blamed \subseteq Violation /\ restricted \subseteq Users
    BY DEF Init
  <2>5. resolved \in BOOLEAN /\ asked \in BOOLEAN /\ given \in BOOLEAN
    BY DEF Init
  <2>6. QED
    BY <2>1, <2>2, <2>3, <2>4, <2>5 DEF Typed
<1>2. DurationKept
  BY TimeAssumption DEF Init, DurationKept
<1>3. HighestBidWins
  BY DEF Init, HighestBidWins
<1>4. QED
  BY <1>1, <1>2, <1>3
  DEF Init, IInv, NoRowYet, BidsAreOld, BlamedAreOld, OrdersAreOld, BoundToRound, SoldOnce,
      FairPrice, PayersAreNotBlamed

(* The row moves on within the round, with neither a bid nor an order.      *)
LEMMA RoundGoesOn ==
  ASSUME IInv, Typed', UNCHANGED <<extended, bid, winner, order, round, bids, orders, blamed>>,
         left' - wait' <= MaxDuration + extended,
         status' = "none" => status = "none",
         Over(status) => Over(status'),
         order # 0 /\ status' = "waiting_settlement" => resolved'
  PROVE  IInv'
<1> USE DEF IInv
<1>1. (NoRowYet /\ BidsAreOld /\ BlamedAreOld /\ OrdersAreOld /\ BoundToRound)'
  BY DEF NoRowYet, BidsAreOld, BlamedAreOld, OrdersAreOld, BoundToRound
<1>2. (DurationKept /\ HighestBidWins /\ FairPrice /\ PayersAreNotBlamed)'
  BY DEF DurationKept, HighestBidWins, FairPrice, PayersAreNotBlamed
<1>3. SoldOnce'
  BY DEF SoldOnce, Over, Live
<1>4. QED
  BY <1>1, <1>2, <1>3

(* The auction is put up again; no order of it stands.                      *)
LEMMA NewRound ==
  ASSUME IInv, Typed', status' \in {"active", "scheduled"},
         round' = round + 1, bid' = 0, winner' = Nobody, order' = 0,
         left' - wait' <= MaxDuration,
         UNCHANGED bids,
         DOMAIN orders' = DOMAIN orders,
         \A o \in DOMAIN orders :
           /\ orders'[o].buyer = orders[o].buyer /\ orders'[o].price = orders[o].price
           /\ orders'[o].round = orders[o].round /\ orders'[o].via = orders[o].via
           /\ orders'[o].state = "gone" \/ (orders'[o].state = orders[o].state /\ o # order),
         \A v \in blamed' : v \in blamed \/ v.round = round
  PROVE  IInv'
<1> USE DEF IInv
<1>1. round \in Nat
  BY DEF Typed
<1>2. \A o \in DOMAIN orders : orders[o].round \in Nat
  <2>1. \A o \in DOMAIN orders : orders[o] \in Order
    BY OrdersTyped
  <2>2. QED
    BY <2>1 DEF Order
<1>3. \A x \in bids : x.round \in Nat /\ x.round <= round
  BY DEF Typed, Bid, BidsAreOld
<1>4. \A v \in blamed : v.round \in Nat /\ v.round < round
  BY DEF Typed, Violation, BlamedAreOld
<1>5. (NoRowYet /\ BidsAreOld /\ BlamedAreOld /\ BoundToRound)'
  BY <1>1, <1>3, <1>4 DEF NoRowYet, BidsAreOld, BlamedAreOld, BoundToRound
<1>6. OrdersAreOld'
  BY <1>1, <1>2 DEF OrdersAreOld
<1>7. DurationKept'
  <2>1. extended' \in Nat /\ left' \in Int /\ wait' \in Int /\ MaxDuration \in Nat
    BY TimeAssumption DEF Typed
  <2>2. left' - wait' <= MaxDuration + extended'
    BY <2>1, MoreTime
  <2>3. QED
    BY <2>2 DEF DurationKept
<1>8. HighestBidWins'
  <2>1. {x \in bids' : x.round = round'} = {}
    BY <1>1, <1>3
  <2>2. QED
    BY <2>1 DEF HighestBidWins
<1>9. \A o \in DOMAIN orders : orders'[o].state \notin {"pending", "paid"}
  BY DEF SoldOnce, Live
<1>10. (SoldOnce /\ PayersAreNotBlamed)'
  BY <1>9 DEF SoldOnce, Live, PayersAreNotBlamed
<1>11. FairPrice'
  BY DEF FairPrice
<1>12. QED
  BY <1>5, <1>6, <1>7, <1>8, <1>10, <1>11

--------------------------------------------------------------------------------
(* The steps that put the auction up. *)

LEMMA Reset ==
  ASSUME Typed, NEW w \in Int, NEW d \in Nat, d <= MaxDuration, resetForRelist(w, d)
  PROVE  /\ order' = 0 /\ winner' = Nobody /\ bid' = 0 /\ round' = round + 1
         /\ wait' \in Int /\ left' \in Int /\ left' - wait' <= MaxDuration
         /\ round' \in Nat /\ extended' \in 0..MaxExtension
         /\ resolved' \in BOOLEAN /\ asked' \in BOOLEAN /\ given' \in BOOLEAN
<1>1. resolved' \in BOOLEAN /\ asked' \in BOOLEAN /\ given' \in BOOLEAN
  BY DEF resetForRelist
<1>2. QED
  BY <1>1, TimeAssumption DEF Typed, resetForRelist

LEMMA Rescheduled ==
  ASSUME Typed, RescheduleAfterSettlementFailure
  PROVE  /\ order' = 0 /\ winner' = Nobody /\ bid' = 0 /\ round' = round + 1
         /\ wait' \in Int /\ left' \in Int /\ left' - wait' <= MaxDuration
         /\ round' \in Nat /\ extended' \in 0..MaxExtension
         /\ resolved' \in BOOLEAN /\ asked' \in BOOLEAN /\ given' \in BOOLEAN
         /\ status = "waiting_settlement" /\ status' = "scheduled"
BY Reset, PreviousBounded DEF RescheduleAfterSettlementFailure

LEMMA Blaming ==
  ASSUME Typed, NEW u \in Users, NEW kind \in Kinds, Blame(u, kind)
  PROVE  /\ blamed' \subseteq Violation /\ restricted' \subseteq Users
         /\ \A v \in blamed' : v \in blamed \/ v.round = round
<1>1. [user |-> u, round |-> round, kind |-> kind] \in Violation
  BY DEF Typed, Violation
<1>2. QED
  BY <1>1 DEF Typed, Blame

(* In no other status than these is there an order the auction is bound to. *)
LEMMA Unbound ==
  ASSUME IInv
  PROVE  /\ status \in {"none", "scheduled", "active", "lapsed"} => order = 0
         /\ order = 0 => \A o \in DOMAIN orders : o # order /\ orders[o].state = "gone"
<1>1. order # 0 => Over(status)
  BY DEF IInv, SoldOnce, Over
<1>2. ASSUME order = 0, NEW o \in DOMAIN orders PROVE o # order /\ orders[o].state = "gone"
  <2>1. o # 0 /\ orders[o].state \in {"pending", "paid", "gone"}
    BY OrdersTyped DEF IInv, Order
  <2>2. QED
    BY <1>2, <2>1 DEF IInv, SoldOnce, Live
<1>3. QED
  BY <1>1, <1>2 DEF Over

LEMMA PutUpKeepsInv ==
  ASSUME IInv, NEW t \in Timings, NEW mode,
         Create(t[1], t[2], mode) \/ Relist(t[1], t[2], mode)
  PROVE  IInv'
<1>1. Typed
  BY DEF IInv
<1>2. t[1] \in Int /\ t[2] \in Nat /\ t[2] <= MaxDuration
  BY TimeAssumption DEF Timings
<1>3. /\ UNCHANGED <<bids, orders, quoted, found, blamed, restricted>>
      /\ status' \in {"active", "scheduled"}
  BY DEF Create, Relist, govVars
<1>4. /\ order = 0 /\ order' = 0 /\ winner' = Nobody /\ bid' = 0 /\ round' = round + 1
      /\ wait' \in Int /\ left' \in Int /\ left' - wait' <= MaxDuration
      /\ round' \in Nat /\ extended' \in 0..MaxExtension
      /\ resolved' \in BOOLEAN /\ asked' \in BOOLEAN /\ given' \in BOOLEAN
  <2>1. CASE Create(t[1], t[2], mode)
    <3>1. status = "none" /\ UNCHANGED <<extended, bid, winner, order, resolved, asked, given>>
          /\ wait' = t[1] /\ left' = t[1] + t[2] /\ round' = 1
      BY <2>1 DEF Create
    <3>2. order = 0 /\ bid = 0 /\ winner = Nobody /\ round = 0
      BY <3>1 DEF IInv, NoRowYet
    <3>3. resolved' \in BOOLEAN /\ asked' \in BOOLEAN /\ given' \in BOOLEAN
          /\ extended' \in 0..MaxExtension
      BY <1>1, <3>1 DEF Typed
    <3>4. QED
      BY <1>2, <3>1, <3>2, <3>3, TimeAssumption
  <2>2. CASE Relist(t[1], t[2], mode)
    <3>1. order = 0 /\ resetForRelist(t[1], t[2])
      BY <2>2 DEF Relist
    <3>2. QED
      BY <1>1, <1>2, <3>1, Reset
  <2>3. QED
    BY <2>1, <2>2
<1>5. Typed'
  <2>1. status' \in Statuses /\ bid' \in Nat /\ winner' \in Bidders \cup {Nobody}
        /\ order' \in 0..Len(orders')
    BY <1>3, <1>4, OrdersTyped, <1>1 DEF Statuses
  <2>2. QED
    BY <1>1, <1>3, <1>4, <2>1 DEF Typed
<1>6. \A o \in DOMAIN orders : o # order
  BY <1>4, Unbound
<1>7. QED
  BY <1>3, <1>4, <1>5, <1>6, NewRound

LEMMA ProcessKeepsInv == IInv /\ processExpiredSettlement => IInv'
<1> SUFFICES ASSUME IInv, processExpiredSettlement PROVE IInv'
  OBVIOUS
<1>1. Typed
  BY DEF IInv
<1>2. /\ UNCHANGED <<bids, orders, quoted>> /\ found' \subseteq found
      /\ status = "waiting_settlement" /\ ~resolved
      /\ RescheduleAfterSettlementFailure
  BY DEF processExpiredSettlement
<1>3. \E u \in Users, kind \in Kinds : Blame(u, kind)
  <2>1. winner # Nobody => winner \in Users
    BY <1>1 DEF Typed, Users
  <2>2. Seller \in Users /\ "seller_shipping_default" \in Kinds /\ "buyer_shipping_timeout" \in Kinds
    BY DEF Users, Kinds
  <2>3. QED
    BY <2>1, <2>2 DEF processExpiredSettlement
<1>4. /\ blamed' \subseteq Violation /\ restricted' \subseteq Users
      /\ \A v \in blamed' : v \in blamed \/ v.round = round
  BY <1>1, <1>3, Blaming
<1>5. /\ order' = 0 /\ winner' = Nobody /\ bid' = 0 /\ round' = round + 1
      /\ wait' \in Int /\ left' \in Int /\ left' - wait' <= MaxDuration
      /\ round' \in Nat /\ extended' \in 0..MaxExtension
      /\ resolved' \in BOOLEAN /\ asked' \in BOOLEAN /\ given' \in BOOLEAN
      /\ status' = "scheduled"
  BY <1>1, <1>2, Rescheduled
<1>6. Typed'
  <2>1. status' \in Statuses /\ bid' \in Nat /\ winner' \in Bidders \cup {Nobody}
        /\ order' \in 0..Len(orders')
    BY <1>2, <1>5, OrdersTyped, <1>1 DEF Statuses
  <2>2. QED
    BY <1>1, <1>2, <1>4, <1>5, <2>1 DEF Typed
<1>7. order = 0
  BY <1>2 DEF IInv, BoundToRound
<1>8. \A o \in DOMAIN orders : o # order
  BY <1>7, Unbound
<1>9. QED
  BY <1>2, <1>4, <1>5, <1>6, <1>8, NewRound

--------------------------------------------------------------------------------
(* The steps within a round. *)

LEMMA RowStepsKeepInv ==
  ASSUME IInv,
         \/ \E t \in Timings : UpdateScheduled(t[1], t[2])
         \/ Cancel \/ AdminCancel \/ CancelForModeration \/ SellerQuotes
         \/ ActivateScheduledAuction \/ EndAuctionInternal \/ Tick
  PROVE  IInv'
<1>1. Typed
  BY DEF IInv
<1>2. UNCHANGED <<extended, bid, winner, order, resolved, round, bids, orders, quoted, govVars>>
      /\ found' \subseteq found
  BY DEF UpdateScheduled, Cancel, AdminCancel, CancelForModeration, Cancelled, SellerQuotes,
         ActivateScheduledAuction, EndAuctionInternal, Tick, rowVars
<1>3. wait' \in Int /\ left' \in Int /\ left' - wait' <= MaxDuration + extended
  <2>1. ASSUME NEW t \in Timings, UpdateScheduled(t[1], t[2])
        PROVE  wait' \in Int /\ left' \in Int /\ left' - wait' <= MaxDuration + extended
    <3>1. t[1] \in Int /\ t[2] \in Nat /\ t[2] <= MaxDuration /\ extended \in Nat
      BY <1>1, TimeAssumption DEF Timings, Typed
    <3>2. wait' = t[1] /\ left' = t[1] + t[2]
      BY <2>1 DEF UpdateScheduled
    <3>3. QED
      BY <3>1, <3>2, TimeAssumption
  <2>2. CASE Tick
    <3>1. wait' = wait - 1 /\ left' = left - 1 /\ wait \in Int /\ left \in Int
          /\ left - wait <= MaxDuration + extended
      BY <1>1, <2>2 DEF Tick, Typed, IInv, DurationKept
    <3>2. left' - wait' = left - wait
      BY <3>1
    <3>3. QED
      BY <3>1, <3>2
  <2>3. CASE UNCHANGED timeVars
    BY <1>1, <2>3 DEF timeVars, Typed, IInv, DurationKept
  <2>4. QED
    BY <2>1, <2>2, <2>3
    DEF Cancel, AdminCancel, CancelForModeration, Cancelled, SellerQuotes,
        ActivateScheduledAuction, EndAuctionInternal, timeVars
<1>4. asked' \in BOOLEAN /\ given' \in BOOLEAN
  <2>1. asked \in BOOLEAN /\ given \in BOOLEAN
    BY <1>1 DEF Typed
  <2>2. asked' \in BOOLEAN
    BY <2>1
    DEF UpdateScheduled, Cancel, AdminCancel, CancelForModeration, Cancelled, SellerQuotes,
        ActivateScheduledAuction, EndAuctionInternal, Tick, rowVars
  <2>3. given' \in BOOLEAN
    BY <2>1
    DEF UpdateScheduled, Cancel, AdminCancel, CancelForModeration, Cancelled, SellerQuotes,
        ActivateScheduledAuction, EndAuctionInternal, Tick, rowVars
  <2>4. QED
    BY <2>2, <2>3
<1>5. \/ status' = status
      \/ status \in {"scheduled", "active"} /\ status' \in Statuses \ {"none"}
      \/ status \in {"waiting_settlement"} /\ status' = "cancelled"
  BY DEF UpdateScheduled, Cancel, AdminCancel, CancelForModeration, Cancelled, SellerQuotes,
         ActivateScheduledAuction, EndAuctionInternal, Tick, rowVars, Becomes,
         transitionAllowed, Statuses
<1>6. /\ status' \in Statuses /\ (status' = "none" => status = "none")
      /\ Over(status) => Over(status')
  BY <1>1, <1>5 DEF Typed, Statuses, Over
<1>7. order # 0 /\ status' = "waiting_settlement" => resolved'
  BY <1>2, <1>5, Unbound DEF IInv, BoundToRound
<1>8. Typed'
  BY <1>1, <1>2, <1>3, <1>4, <1>6 DEF Typed, govVars
<1>9. UNCHANGED <<extended, bid, winner, order, round, bids, orders, blamed>>
  BY <1>2 DEF govVars
<1>10. QED
  BY <1>3, <1>6, <1>7, <1>8, <1>9, RoundGoesOn

(* Steps that only look, or that end a restriction.                         *)
LEMMA LookingKeepsInv ==
  ASSUME IInv,
         \/ \E job \in Jobs : Find(job) \/ PassOver(job)
         \/ \E b \in Bidders : GenerateForAuction(b)
         \/ \E u \in Users : RestrictionEnds(u)
         \/ UNCHANGED vars
  PROVE  IInv'
<1>1. Typed
  BY DEF IInv
<1>2. UNCHANGED <<timeVars, rowVars, bids, orders, blamed>>
  BY DEF Find, PassOver, GenerateForAuction, RestrictionEnds, govVars, vars
<1>3. found' \subseteq Jobs /\ restricted' \subseteq Users
  BY <1>1 DEF Find, PassOver, GenerateForAuction, RestrictionEnds, govVars, vars, Typed
<1>4. quoted' \in [Bidders -> Nat]
  <2>1. bid \in Nat /\ BuyNowPrice \in Nat /\ quoted \in [Bidders -> Nat]
    BY <1>1, PriceAssumption DEF Typed
  <2>2. QED
    BY <2>1 DEF Find, PassOver, GenerateForAuction, RestrictionEnds, vars
<1>5. Typed'
  BY <1>1, <1>2, <1>3, <1>4 DEF Typed, timeVars, rowVars
<1>6. left' - wait' <= MaxDuration + extended
  BY <1>2 DEF IInv, DurationKept, timeVars
<1>7. order # 0 /\ status' = "waiting_settlement" => resolved'
  BY <1>2 DEF IInv, BoundToRound, rowVars
<1>8. UNCHANGED <<status, extended, bid, winner, order, round, bids, orders, blamed>>
  BY <1>2 DEF rowVars
<1>9. QED
  BY <1>5, <1>6, <1>7, <1>8, RoundGoesOn

(* The highest bid of the round, as a bound.                                *)
LEMMA Highest ==
  ASSUME IInv
  PROVE  \A y \in bids : y.round = round => y.amount <= bid
BY DEF IInv, HighestBidWins

LEMMA PlaceBidKeepsInv ==
  ASSUME IInv, NEW b \in Bidders, NEW key \in Keys, NEW amount \in Amounts, PlaceBid(b, key, amount)
  PROVE  IInv'
<1> DEFINE new == [by |-> b, key |-> key, amount |-> amount, round |-> round]
<1>1. Typed
  BY DEF IInv
<1>2. /\ status = "active" /\ amount >= MinimumBid
      /\ bid' = amount /\ winner' = b /\ bids' = bids \cup {new}
      /\ left' = left + AntiSnipingExtension /\ extended' = extended + AntiSnipingExtension
      /\ UNCHANGED <<wait, status, order, resolved, asked, given, round, orders, quoted, found, govVars>>
  BY DEF PlaceBid
<1>3. AntiSnipingExtension \in Nat /\ extended' \in 0..MaxExtension
  BY <1>1, <1>2, ExtensionBounded
<1>4. amount \in Nat /\ amount > 0 /\ amount >= bid
  <2>1. bid \in Nat /\ amount \in Nat /\ StartPrice \in Nat \ {0} /\ BidIncrement \in Nat \ {0}
    BY <1>1, PriceAssumption DEF Typed
  <2>2. amount >= IF bid = 0 THEN StartPrice ELSE bid + BidIncrement
    BY <1>2 DEF MinimumBid
  <2>3. QED
    BY <2>1, <2>2
<1>5. new \in Bid /\ new.amount = amount /\ new.by = b /\ new.round = round
  BY <1>1 DEF Typed, Bid
<1> HIDE DEF new
<1>6. Typed'
  <2>1. wait' \in Int /\ left' \in Int /\ bid' \in Nat /\ winner' \in Bidders \cup {Nobody}
        /\ order' \in 0..Len(orders')
    BY <1>1, <1>2, <1>3, <1>4 DEF Typed
  <2>2. bids' \subseteq Bid
    BY <1>1, <1>2, <1>5 DEF Typed
  <2>3. QED
    BY <1>1, <1>2, <1>3, <2>1, <2>2 DEF Typed, govVars
<1>7. DurationKept'
  <2>1. left \in Int /\ wait \in Int /\ extended \in Nat /\ MaxDuration \in Nat
        /\ left - wait <= MaxDuration + extended
    BY <1>1, TimeAssumption DEF Typed, IInv, DurationKept
  <2>2. left' - wait' <= MaxDuration + extended'
    BY <1>2, <1>3, <2>1
  <2>3. QED
    BY <2>2 DEF DurationKept
<1>8. HighestBidWins'
  <2>1. \A y \in bids : y.round = round => y.amount <= amount
    <3>1. \A y \in bids : y.amount \in Nat
      BY <1>1, PriceAssumption DEF Typed, Bid
    <3>2. QED
      BY <1>1, <1>4, <3>1, Highest DEF Typed
  <2>2. new \in bids' /\ \A y \in bids' : y.round = round => y.amount <= amount
    BY <1>2, <1>4, <1>5, <2>1
  <2>3. \A y \in bids' : y \in {x \in bids' : x.round = round'} <=> y.round = round
    BY <1>2
  <2>4. QED
    BY <1>2, <1>5, <2>2, <2>3 DEF HighestBidWins
<1>9. FairPrice'
  <2> SUFFICES ASSUME NEW o \in DOMAIN orders
               PROVE  IF orders[o].via = "buy_now" THEN orders[o].price = BuyNowPrice
                      ELSE \E x \in bids' :
                             /\ x.round = orders[o].round /\ x.by = orders[o].buyer
                             /\ x.amount = orders[o].price
                             /\ \A y \in bids' : y.round = x.round => y.amount <= x.amount
    BY <1>2 DEF FairPrice
  <2>1. orders[o].round # round
    BY <1>2 DEF IInv, OrdersAreOld, Over
  <2>2. QED
    BY <1>2, <1>5, <2>1 DEF IInv, FairPrice
<1>10. (BidsAreOld /\ BlamedAreOld /\ OrdersAreOld /\ BoundToRound)'
  BY <1>1, <1>2, <1>5 DEF IInv, Typed, BidsAreOld, BlamedAreOld, OrdersAreOld, BoundToRound, govVars
<1>11. (NoRowYet /\ SoldOnce /\ PayersAreNotBlamed)'
  BY <1>2 DEF IInv, NoRowYet, SoldOnce, Live, PayersAreNotBlamed, govVars
<1>12. QED
  BY <1>6, <1>7, <1>8, <1>9, <1>10, <1>11 DEF IInv

--------------------------------------------------------------------------------
(* The orders. *)

LEMMA CheckoutKeepsInv ==
  ASSUME IInv, NEW b \in Bidders, CheckoutWin(b) \/ CheckoutBuyNow(b)
  PROVE  IInv'
<1> DEFINE n == Len(orders) + 1
           via == IF isBidWin THEN "bid" ELSE "buy_now"
<1>1. Typed
  BY DEF IInv
<1>2. PICK price \in Nat :
        /\ NewOrder(b, price)
        /\ isBidWin => winner = b /\ price = bid
        /\ ~isBidWin => price = BuyNowPrice
  BY <1>1, PriceAssumption DEF CheckoutWin, CheckoutBuyNow, Typed
<1> DEFINE new == [buyer |-> b, price |-> price, round |-> round, via |-> via, state |-> "pending"]
<1>3. /\ UNCHANGED <<timeVars, extended, bid, winner, asked, given, round, bids, found, govVars>>
      /\ order = 0 /\ Over(status')
      /\ status' \in Statuses
      /\ status' = "waiting_settlement" => resolved'
  BY <1>1 DEF CheckoutWin, CheckoutBuyNow, isBidWin, Becomes, Over, Statuses, Typed
<1>4. orders' = Append(orders, new) /\ order' = n /\ quoted' = [quoted EXCEPT ![b] = 0]
  BY <1>2 DEF NewOrder
<1>5. /\ new \in Order /\ new.buyer = b /\ new.price = price /\ new.round = round
      /\ new.via = via /\ new.state = "pending"
  BY <1>1 DEF Order, Typed
<1>6. via = (IF isBidWin THEN "bid" ELSE "buy_now")
  OBVIOUS
<1> HIDE DEF new, via
<1>7. /\ orders' \in Seq(Order) /\ Len(orders') = n /\ n \in Nat /\ n # 0
      /\ DOMAIN orders' = 1..n /\ orders'[n] = new
      /\ \A o \in DOMAIN orders' : o = n \/ (o \in DOMAIN orders /\ orders'[o] = orders[o] /\ o # n)
  BY <1>1, <1>4, <1>5, OrdersTyped DEF Typed
<1> HIDE DEF n
<1>8. \A o \in DOMAIN orders : orders[o].state = "gone"
  BY <1>3, Unbound
<1>9. Typed'
  <2>1. resolved' \in BOOLEAN
    <3>1. resolved \in BOOLEAN
      BY <1>1 DEF Typed
    <3>2. QED
      BY <3>1 DEF CheckoutWin, CheckoutBuyNow
  <2>2. quoted' \in [Bidders -> Nat]
    BY <1>1, <1>4 DEF Typed
  <2>3. order' \in 0..Len(orders')
    BY <1>4, <1>7
  <2>4. QED
    BY <1>1, <1>3, <1>7, <2>1, <2>2, <2>3 DEF Typed, timeVars, govVars
<1>10. (NoRowYet /\ BidsAreOld /\ BlamedAreOld)'
  BY <1>3 DEF IInv, NoRowYet, BidsAreOld, BlamedAreOld, Over, govVars
<1>11. OrdersAreOld'
  <2> SUFFICES ASSUME NEW o \in DOMAIN orders' PROVE orders'[o].round <= round
    BY <1>3 DEF OrdersAreOld, Over
  <2>1. round \in Nat
    BY <1>1 DEF Typed
  <2>2. QED
    BY <1>5, <1>7, <2>1 DEF IInv, OrdersAreOld
<1>12. BoundToRound'
  BY <1>3, <1>4, <1>5, <1>7 DEF BoundToRound
<1>13. (DurationKept /\ HighestBidWins)'
  BY <1>3 DEF IInv, DurationKept, HighestBidWins, timeVars
<1>14. SoldOnce'
  <2>1. \A o \in DOMAIN orders' : orders'[o].state \in {"pending", "paid"} => o = n
    BY <1>7, <1>8
  <2>2. orders'[n].state = "pending"
    BY <1>5, <1>7
  <2>3. QED
    BY <1>3, <1>4, <2>1, <2>2 DEF SoldOnce, Live, Over
<1>15. FairPrice'
  <2> SUFFICES ASSUME NEW o \in DOMAIN orders'
               PROVE  IF orders'[o].via = "buy_now" THEN orders'[o].price = BuyNowPrice
                      ELSE \E x \in bids :
                             /\ x.round = orders'[o].round /\ x.by = orders'[o].buyer
                             /\ x.amount = orders'[o].price
                             /\ \A y \in bids : y.round = x.round => y.amount <= x.amount
    BY <1>3 DEF FairPrice
  <2>1. CASE o # n
    BY <1>7, <2>1 DEF IInv, FairPrice
  <2>2. CASE o = n /\ ~isBidWin
    BY <1>2, <1>5, <1>6, <1>7, <2>2
  <2>3. CASE o = n /\ isBidWin
    <3>1. winner = b /\ price = bid /\ winner # Nobody
      BY <1>2, <2>3 DEF isBidWin
    <3>2. PICK x \in bids : /\ x.round = round /\ x.amount = bid /\ x.by = winner
                            /\ \A y \in bids : y.round = round => y.amount <= bid
      BY <3>1 DEF IInv, HighestBidWins
    <3>3. orders'[o].via = "bid"
      BY <1>5, <1>6, <1>7, <2>3
    <3>4. QED
      BY <1>5, <1>7, <2>3, <3>1, <3>2, <3>3
  <2>4. QED
    BY <2>1, <2>2, <2>3
<1>16. PayersAreNotBlamed'
  <2>1. \A o \in DOMAIN orders' : orders'[o].state # "paid"
    BY <1>5, <1>7, <1>8
  <2>2. QED
    BY <2>1 DEF PayersAreNotBlamed
<1>17. QED
  BY <1>9, <1>10, <1>11, <1>12, <1>13, <1>14, <1>15, <1>16 DEF IInv

(* Only the order the auction is bound to can be paid or fall through.      *)
LEMMA StandingIsBound ==
  ASSUME IInv, NEW o \in DOMAIN orders, orders[o].state \in {"pending", "paid"}
  PROVE  order = o /\ o # 0 /\ orders[o].round = round /\ Over(status)
<1>1. order = o /\ o # 0
  BY OrdersTyped DEF IInv, SoldOnce, Live
<1>2. QED
  BY <1>1 DEF IInv, BoundToRound, SoldOnce, Over

LEMMA MarkPaidKeepsInv ==
  ASSUME IInv, NEW o \in DOMAIN orders, MarkPaid(o)
  PROVE  IInv'
<1>1. Typed
  BY DEF IInv
<1>2. /\ orders[o].state = "pending" /\ orders' = [orders EXCEPT ![o].state = "paid"]
      /\ status' = IF status = "waiting_settlement" THEN "ended" ELSE status
      /\ UNCHANGED <<timeVars, extended, bid, winner, order, resolved, asked, given, round,
                     bids, quoted, found, govVars>>
  BY DEF MarkPaid
<1>3. order = o /\ o # 0 /\ orders[o].round = round /\ Over(status)
  BY <1>2, StandingIsBound
<1>4. /\ orders' \in Seq(Order) /\ Len(orders') = Len(orders)
      /\ DOMAIN orders' = DOMAIN orders /\ orders'[o].state = "paid"
      /\ \A p \in DOMAIN orders :
           /\ orders'[p].buyer = orders[p].buyer /\ orders'[p].price = orders[p].price
           /\ orders'[p].round = orders[p].round /\ orders'[p].via = orders[p].via
           /\ p # o => orders'[p].state = orders[p].state
  BY <1>1, <1>2, StateSet
<1>5. status' \in Statuses /\ Over(status') /\ status' # "waiting_settlement"
  BY <1>1, <1>2, <1>3 DEF Typed, Over, Statuses
<1>6. Typed'
  BY <1>1, <1>2, <1>4, <1>5 DEF Typed, timeVars, govVars
<1>7. (NoRowYet /\ BidsAreOld /\ BlamedAreOld /\ OrdersAreOld /\ BoundToRound)'
  BY <1>2, <1>3, <1>4, <1>5
  DEF IInv, NoRowYet, BidsAreOld, BlamedAreOld, OrdersAreOld, BoundToRound, Over, govVars
<1>8. (DurationKept /\ HighestBidWins)'
  BY <1>2 DEF IInv, DurationKept, HighestBidWins, timeVars
<1>9. FairPrice'
  BY <1>2, <1>4 DEF IInv, FairPrice
<1>10. SoldOnce'
  <2>1. \A p \in DOMAIN orders : p # o => orders[p].state \notin {"pending", "paid"}
    BY <1>3 DEF IInv, SoldOnce, Live
  <2>2. QED
    BY <1>2, <1>3, <1>4, <1>5, <2>1 DEF SoldOnce, Live, Over
<1>11. PayersAreNotBlamed'
  <2> SUFFICES ASSUME NEW v \in blamed, NEW p \in DOMAIN orders
               PROVE  ~(orders'[p].state = "paid" /\ orders'[p].buyer = v.user
                        /\ orders'[p].round = v.round)
    BY <1>2, <1>4 DEF PayersAreNotBlamed, govVars
  <2>1. CASE p = o
    <3>1. v.round \in Nat /\ round \in Nat /\ v.round < round
      BY <1>1 DEF Typed, Violation, IInv, BlamedAreOld
    <3>2. QED
      BY <1>3, <1>4, <2>1, <3>1
  <2>2. CASE p # o
    BY <1>4, <2>2 DEF IInv, PayersAreNotBlamed
  <2>3. QED
    BY <2>1, <2>2
<1>12. QED
  BY <1>6, <1>7, <1>8, <1>9, <1>10, <1>11 DEF IInv

LEMMA ReleaseKeepsInv ==
  ASSUME IInv, NEW o \in DOMAIN orders, CancelOrExpire(o) \/ CancelOverdue(o)
  PROVE  IInv'
<1>1. Typed
  BY DEF IInv
<1>2. /\ orders[o].state \in {"pending", "paid"} /\ Release(o)
      /\ orders' = [orders EXCEPT ![o].state = "gone"]
      /\ UNCHANGED <<bids, quoted, found>>
  BY DEF CancelOrExpire, CancelOverdue, Release
<1>3. order = o /\ o # 0 /\ orders[o].round = round /\ Over(status)
  BY <1>2, StandingIsBound
<1>4. /\ orders' \in Seq(Order) /\ Len(orders') = Len(orders)
      /\ DOMAIN orders' = DOMAIN orders /\ orders'[o].state = "gone"
      /\ \A p \in DOMAIN orders :
           /\ orders'[p].buyer = orders[p].buyer /\ orders'[p].price = orders[p].price
           /\ orders'[p].round = orders[p].round /\ orders'[p].via = orders[p].via
           /\ p # o => orders'[p].state = orders[p].state
  BY <1>1, <1>2, StateSet
<1>5. CASE status = "waiting_settlement"
  <2>1. Blame(orders[o].buyer, "buyer_bnr") /\ RescheduleAfterSettlementFailure
    BY <1>2, <1>3, <1>5 DEF Release
  <2>2. orders[o].buyer \in Users /\ "buyer_bnr" \in Kinds
    BY <1>1, OrdersTyped DEF Order, Users, Kinds
  <2>3. /\ blamed' \subseteq Violation /\ restricted' \subseteq Users
        /\ \A v \in blamed' : v \in blamed \/ v.round = round
    BY <1>1, <2>1, <2>2, Blaming
  <2>4. /\ order' = 0 /\ winner' = Nobody /\ bid' = 0 /\ round' = round + 1
        /\ wait' \in Int /\ left' \in Int /\ left' - wait' <= MaxDuration
        /\ round' \in Nat /\ extended' \in 0..MaxExtension
        /\ resolved' \in BOOLEAN /\ asked' \in BOOLEAN /\ given' \in BOOLEAN
        /\ status' = "scheduled"
    BY <1>1, <2>1, Rescheduled
  <2>5. Typed'
    <3>1. status' \in Statuses /\ bid' \in Nat /\ winner' \in Bidders \cup {Nobody}
          /\ order' \in 0..Len(orders')
      BY <1>1, <1>4, <2>4, OrdersTyped DEF Statuses
    <3>2. QED
      BY <1>1, <1>2, <1>4, <2>3, <2>4, <3>1 DEF Typed
  <2>6. \A p \in DOMAIN orders :
          orders'[p].state = "gone" \/ (orders'[p].state = orders[p].state /\ p # order)
    BY <1>3, <1>4
  <2>7. QED
    BY <1>2, <1>4, <2>3, <2>4, <2>5, <2>6, NewRound
<1>6. CASE status # "waiting_settlement"
  <2>1. /\ order' = 0
        /\ UNCHANGED <<timeVars, status, extended, bid, winner, resolved, asked, given, round, govVars>>
    BY <1>2, <1>6 DEF Release
  <2>2. Typed'
    <3>1. order' \in 0..Len(orders')
      BY <1>1, <1>4, <2>1, OrdersTyped
    <3>2. QED
      BY <1>1, <1>2, <1>4, <2>1, <3>1 DEF Typed, timeVars, govVars
  <2>3. \A p \in DOMAIN orders : orders'[p].state \notin {"pending", "paid"}
    BY <1>3, <1>4 DEF IInv, SoldOnce, Live
  <2>4. (SoldOnce /\ PayersAreNotBlamed /\ BoundToRound)'
    BY <1>4, <2>1, <2>3 DEF SoldOnce, Live, PayersAreNotBlamed, BoundToRound
  <2>5. (NoRowYet /\ BidsAreOld /\ BlamedAreOld /\ OrdersAreOld)'
    BY <1>2, <1>4, <2>1 DEF IInv, NoRowYet, BidsAreOld, BlamedAreOld, OrdersAreOld, govVars
  <2>6. (DurationKept /\ HighestBidWins /\ FairPrice)'
    BY <1>2, <1>4, <2>1 DEF IInv, DurationKept, HighestBidWins, FairPrice, timeVars
  <2>7. QED
    BY <2>2, <2>4, <2>5, <2>6 DEF IInv
<1>7. QED
  BY <1>5, <1>6

LEMMA NextKeepsInv == IInv /\ [Next]_vars => IInv'
<1> SUFFICES ASSUME IInv, [Next]_vars PROVE IInv'
  OBVIOUS
<1>1. ASSUME NEW t \in Timings, NEW mode, Create(t[1], t[2], mode) \/ Relist(t[1], t[2], mode)
      PROVE  IInv'
  BY <1>1, PutUpKeepsInv
<1>2. ASSUME \/ \E t \in Timings : UpdateScheduled(t[1], t[2])
             \/ Cancel \/ AdminCancel \/ CancelForModeration \/ SellerQuotes
             \/ ActivateScheduledAuction \/ EndAuctionInternal \/ Tick
      PROVE  IInv'
  BY <1>2, RowStepsKeepInv
<1>3. ASSUME NEW b \in Bidders, NEW key \in Keys, NEW amount \in Amounts, PlaceBid(b, key, amount)
      PROVE  IInv'
  BY <1>3, PlaceBidKeepsInv
<1>4. ASSUME processExpiredSettlement PROVE IInv'
  BY <1>4, ProcessKeepsInv
<1>5. ASSUME NEW b \in Bidders, CheckoutWin(b) \/ CheckoutBuyNow(b) PROVE IInv'
  BY <1>5, CheckoutKeepsInv
<1>6. ASSUME NEW o \in DOMAIN orders, MarkPaid(o) PROVE IInv'
  BY <1>6, MarkPaidKeepsInv
<1>7. ASSUME NEW o \in DOMAIN orders, CancelOrExpire(o) \/ CancelOverdue(o) PROVE IInv'
  BY <1>7, ReleaseKeepsInv
<1>8. ASSUME \/ \E job \in Jobs : Find(job) \/ PassOver(job)
             \/ \E b \in Bidders : GenerateForAuction(b)
             \/ \E u \in Users : RestrictionEnds(u)
             \/ UNCHANGED vars
      PROVE  IInv'
  BY <1>8, LookingKeepsInv
<1>9. QED
  BY <1>1, <1>2, <1>3, <1>4, <1>5, <1>6, <1>7, <1>8 DEF Next

--------------------------------------------------------------------------------
(* The theorems. *)

(* The invariant: what is left of earlier rounds is told apart from this    *)
(* one, and this round's bids, orders and violations agree with the row.    *)
THEOREM Invariance == Spec => []IInv
BY InitIsInv, NextKeepsInv, PTL DEF Spec

(* The variables of the auction, its bids, orders and violations keep their *)
(* types: the extension stays within its maximum, the bound order exists.   *)
THEOREM TypeCorrect == Spec => []TypeOK
<1>1. IInv => TypeOK
  BY TypeParts DEF IInv
<1>2. QED
  BY <1>1, Invariance, PTL

(* The current bid is the highest of the round and the current winner the   *)
(* one who made it, after any number of relistings and reschedulings.       *)
THEOREM HighestWins == Spec => []HighestBidWins
<1>1. IInv => HighestBidWins
  BY DEF IInv
<1>2. QED
  BY <1>1, Invariance, PTL

(* One order of the auction at most can be paid or has been, the auction is *)
(* bound to it, and not on offer.                                           *)
THEOREM OneBuyer == Spec => []SoldOnce
<1>1. IInv => SoldOnce
  BY DEF IInv
<1>2. QED
  BY <1>1, Invariance, PTL

(* Whatever token the price comes from, the winner pays the highest bid of  *)
(* the round and the buyer at buy-now the buy-now price.                    *)
THEOREM PriceIsFair == Spec => []FairPrice
<1>1. IInv => FairPrice
  BY DEF IInv
<1>2. QED
  BY <1>1, Invariance, PTL

(* A worker that found the settlement window over before the winner paid    *)
(* does not have the winner who paid restricted.                            *)
THEOREM NoPayerBlamed == Spec => []PayersAreNotBlamed
<1>1. IInv => PayersAreNotBlamed
  BY DEF IInv
<1>2. QED
  BY <1>1, Invariance, PTL

(* Extensions and reschedulings do not make a round longer than the longest *)
(* duration and the largest extension together.                             *)
THEOREM RoundsAreBounded == Spec => []EndBounded
<1>1. IInv => EndBounded
  <2> SUFFICES ASSUME IInv PROVE left - wait <= MaxDuration + MaxExtension
    BY DEF EndBounded
  <2>1. /\ left \in Int /\ wait \in Int /\ extended \in Nat /\ extended <= MaxExtension
        /\ MaxDuration \in Nat /\ MaxExtension \in Nat
        /\ left - wait <= MaxDuration + extended
    BY TimeAssumption DEF IInv, Typed, DurationKept
  <2>2. QED
    BY <2>1
<1>2. QED
  BY <1>1, Invariance, PTL

(* Whoever is blamed for shipping left open is the one who had it to do: the *)
(* winner only where the seller need not quote, or has.                     *)
THEOREM QuoteFirst == Spec => WinnerWaitsForQuote
<1>1. [Next]_vars =>
        [\A v \in blamed' \ blamed :
           v.kind = "buyer_shipping_timeout" => (~asked \/ given) /\ ~resolved]_vars
  <2> SUFFICES ASSUME Next, NEW v \in blamed' \ blamed, v.kind = "buyer_shipping_timeout"
               PROVE  (~asked \/ given) /\ ~resolved
    OBVIOUS
  <2>1. blamed' # blamed
    OBVIOUS
  <2>2. processExpiredSettlement \/ \E o \in DOMAIN orders : Release(o)
    BY <2>1
    DEF Next, Create, Relist, UpdateScheduled, Cancel, AdminCancel, CancelForModeration,
        Cancelled, SellerQuotes, PlaceBid, Find, PassOver, ActivateScheduledAuction,
        EndAuctionInternal, GenerateForAuction, CheckoutWin, CheckoutBuyNow, MarkPaid,
        CancelOrExpire, CancelOverdue, Tick, RestrictionEnds, govVars
  <2>3. CASE processExpiredSettlement
    <3>1. CASE asked /\ ~given
      <4>1. Blame(Seller, "seller_shipping_default")
        BY <2>3, <3>1 DEF processExpiredSettlement
      <4>2. v = [user |-> Seller, round |-> round, kind |-> "seller_shipping_default"]
        BY <4>1 DEF Blame
      <4>3. QED
        BY <4>2
    <3>2. CASE ~(asked /\ ~given)
      BY <2>3, <3>2 DEF processExpiredSettlement
    <3>3. QED
      BY <3>1, <3>2
  <2>4. ASSUME NEW o \in DOMAIN orders, Release(o) PROVE FALSE
    <3>1. Blame(orders[o].buyer, "buyer_bnr")
      BY <2>1, <2>4 DEF Release, govVars
    <3>2. v = [user |-> orders[o].buyer, round |-> round, kind |-> "buyer_bnr"]
      BY <3>1 DEF Blame
    <3>3. QED
      BY <3>2
  <2>5. QED
    BY <2>2, <2>3, <2>4
<1>2. QED
  BY <1>1, PTL DEF Spec, WinnerWaitsForQuote

================================================================================
