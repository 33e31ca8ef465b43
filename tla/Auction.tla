-------------------------------- MODULE Auction --------------------------------
(***************************************************************************)
(* One auction: it is scheduled, bid on, ended and settled.  Bidders, the   *)
(* seller, admins and the moderation worker call in; three workers start    *)
(* it, end it and give up on a settlement that takes too long; the order    *)
(* the winner (or a buyer at the buy-now price) creates is paid or falls    *)
(* through, and then binds or frees the auction.  An auction that was not   *)
(* settled is put up again as the same row: a new round.                    *)
(*                                                                          *)
(* Each operation locks the row first, so it is one action.  What a worker  *)
(* has found, and what a buyer was quoted, is read earlier and without that *)
(* lock: "found" and "quoted" hold it.  Time is what is left: a tick is an  *)
(* unit of it, "wait" and "left" are start_at and end_at less now.          *)
(***************************************************************************)
EXTENDS Integers, Sequences, FiniteSets

CONSTANTS
  Bidders, Seller, Nobody,
  Keys,            \* idempotency keys of each bidder, one for each bid
  Amounts,         \* of bids
  StartPrice, BidIncrement, BuyNowPrice,
  MinDuration, MaxDuration,        \* 1 and 7 days
  MaxWait,         \* how far ahead a start is scheduled
  Grace,           \* settlement window, 24 hours
  Window, Extension, MaxExtension, \* anti-sniping: 5, 5 and 30 minutes
  MaxRounds,       \* bound: rounds that are bid on or relisted
  MaxOrders        \* bound: orders ever created

ASSUME TimeAssumption ==
  /\ MinDuration \in Nat \ {0} /\ MaxDuration \in Nat /\ MinDuration <= MaxDuration
  /\ MaxWait \in Nat /\ Grace \in Nat /\ Window \in Nat
  /\ Extension \in Nat /\ MaxExtension \in Nat
ASSUME PriceAssumption ==
  /\ Amounts \subseteq Nat \ {0} /\ StartPrice \in Nat \ {0} /\ BidIncrement \in Nat \ {0}
  /\ BuyNowPrice \in Nat /\ BuyNowPrice >= StartPrice + BidIncrement
ASSUME PeopleAssumption == Seller \notin Bidders /\ Nobody \notin Bidders \cup {Seller}

VARIABLES
  status,      \* auctions.status, "none" before there is a row
  wait, left,  \* auctions.start_at and end_at, less now
  extended,    \* auctions.anti_snipe_extension_seconds
  bid, winner, \* auctions.current_bid (0: none) and current_winner_id
  order,       \* auctions.order_id: an index of orders, 0 for none
  resolved, asked, given, \* shipping_resolved_at, seller_action_required, seller_quote_provided
  round,       \* how often the row has been put up
  bids,        \* auction_bids, with the round each was placed in
  orders,      \* the orders made from the auction
  quoted,      \* unit price of the last pricing token of each bidder, 0 for none
  found,       \* workers that have found the auction and not yet processed it
  blamed,      \* commerce_violations
  restricted   \* users a violation keeps from commerce

timeVars == <<wait, left>>
rowVars == <<status, extended, bid, winner, order, resolved, asked, given, round>>
govVars == <<blamed, restricted>>
vars == <<timeVars, rowVars, bids, orders, quoted, found, govVars>>

Users == Bidders \cup {Seller}
Jobs == {"start", "end", "settle"}

Init ==
  /\ status = "none" /\ wait = 0 /\ left = 0 /\ extended = 0
  /\ bid = 0 /\ winner = Nobody /\ order = 0
  /\ resolved = FALSE /\ asked = FALSE /\ given = FALSE
  /\ round = 0 /\ bids = {} /\ orders = <<>>
  /\ quoted = [b \in Bidders |-> 0] /\ found = {} /\ blamed = {} /\ restricted = {}

--------------------------------------------------------------------------------
(* The entity. *)

transitionAllowed ==
  {<<"scheduled", "active">>, <<"scheduled", "cancelled">>, <<"scheduled", "lapsed">>,
   <<"lapsed", "scheduled">>,
   <<"active", "waiting_settlement">>, <<"active", "ended">>, <<"active", "cancelled">>,
   <<"waiting_settlement", "ended">>, <<"waiting_settlement", "scheduled">>,
   <<"waiting_settlement", "cancelled">>, <<"ended", "scheduled">>}

Becomes(s) == <<status, s>> \in transitionAllowed /\ status' = s

SettlementDeadlinePassed == left < -Grace

(* resetForRelist, and the timing of the new round. *)
resetForRelist(startsIn, duration) ==
  /\ order' = 0 /\ resolved' = FALSE /\ asked' = FALSE /\ given' = FALSE
  /\ winner' = Nobody /\ bid' = 0 /\ extended' = 0
  /\ round' = round + 1
  /\ wait' = startsIn /\ left' = startsIn + duration

(* Mutant of PreviousDuration: the extensions carry over. *)
DurationAsItWas == left - wait

(* The previous duration, extensions included, within the bounds. *)
PreviousDuration ==
  LET duration == left - wait
  IN IF duration < MinDuration THEN MinDuration
     ELSE IF duration > MaxDuration THEN MaxDuration ELSE duration

RescheduleAfterSettlementFailure ==
  /\ status = "waiting_settlement" /\ status' = "scheduled"
  /\ resetForRelist(0, PreviousDuration)

(* RecordViolationAndRestrict *)
Blame(user, kind) ==
  /\ blamed' = blamed \cup {[user |-> user, round |-> round, kind |-> kind]}
  /\ restricted' = restricted \cup {user}

--------------------------------------------------------------------------------
(* The seller, the admins and moderation.  The seller's market authority    *)
(* and shipping coverage come and go outside this module: where a check of  *)
(* them has both outcomes worth telling apart, either may happen.           *)

Timings == {<<w, d>> : w \in 0..MaxWait, d \in MinDuration..MaxDuration}

(* ResolveAuctionTiming: "now" or "scheduled"; what starts now is activated *)
(* in the same transaction.                                                 *)
Create(w, d, mode) ==
  /\ status = "none" /\ Seller \notin restricted
  /\ mode = "now" => w = 0
  /\ status' = IF mode = "now" THEN "active" ELSE "scheduled"
  /\ wait' = w /\ left' = w + d /\ round' = 1
  /\ UNCHANGED <<extended, bid, winner, order, resolved, asked, given,
                 bids, orders, quoted, found, govVars>>

UpdateScheduled(w, d) ==
  /\ status = "scheduled"
  /\ wait' = w /\ left' = w + d
  /\ UNCHANGED <<rowVars, bids, orders, quoted, found, govVars>>

(* Mutant of Relist: an ended auction is put up again whatever came of it. *)
RelistSold(w, d, mode) ==
  /\ status \in {"ended", "lapsed"} /\ Seller \notin restricted
  /\ round < MaxRounds
  /\ mode = "now" => w = 0
  /\ status' = IF mode = "now" THEN "active" ELSE "scheduled"
  /\ resetForRelist(w, d)
  /\ UNCHANGED <<bids, orders, quoted, found, govVars>>

Relist(w, d, mode) ==
  /\ status \in {"ended", "lapsed"} /\ Seller \notin restricted
  /\ bid = 0 /\ winner = Nobody /\ order = 0
  /\ round < MaxRounds
  /\ mode = "now" => w = 0
  /\ status' = IF mode = "now" THEN "active" ELSE "scheduled"
  /\ resetForRelist(w, d)
  /\ UNCHANGED <<bids, orders, quoted, found, govVars>>

Cancelled ==
  /\ Becomes("cancelled")
  /\ UNCHANGED <<timeVars, extended, bid, winner, order, resolved, asked, given, round,
                 bids, orders, quoted, found, govVars>>

Cancel == (status = "active" => bid = 0) /\ status # "waiting_settlement" /\ Cancelled
AdminCancel == order = 0 /\ Cancelled
CancelForModeration == Cancelled

(* CreateShippingQuote: MarkSellerQuoteProvided, for the winner to accept. *)
SellerQuotes ==
  /\ status = "waiting_settlement" /\ winner # Nobody
  /\ given' = TRUE
  /\ UNCHANGED <<timeVars, status, extended, bid, winner, order, resolved, asked, round,
                 bids, orders, quoted, found, govVars>>

--------------------------------------------------------------------------------
(* Bidding. *)

(* Mutant of MinimumBid: the first bid's minimum for every bid. *)
StartPriceOnly == StartPrice

MinimumBid == IF bid = 0 THEN StartPrice ELSE bid + BidIncrement

(* Mutant of AntiSnipingExtension: each late bid extends by as much. *)
ExtensionUncapped == IF left > Window THEN 0 ELSE Extension

AntiSnipingExtension ==
  IF left > Window \/ extended >= MaxExtension THEN 0
  ELSE IF Extension > MaxExtension - extended THEN MaxExtension - extended
  ELSE Extension

(* A key that has been used finds its bid again and changes nothing. *)
PlaceBid(b, key, amount) ==
  /\ b \notin restricted /\ round <= MaxRounds
  /\ ~\E old \in bids : old.by = b /\ old.key = key
  /\ status = "active" /\ left > 0
  /\ amount >= MinimumBid
  /\ bid' = amount /\ winner' = b
  /\ left' = left + AntiSnipingExtension
  /\ extended' = extended + AntiSnipingExtension
  /\ bids' = bids \cup {[by |-> b, key |-> key, amount |-> amount, round |-> round]}
  /\ UNCHANGED <<wait, status, order, resolved, asked, given, round,
                 orders, quoted, found, govVars>>

--------------------------------------------------------------------------------
(* The workers.  Each finds the auction in one transaction, whose locks end *)
(* with it, and processes it in another.                                    *)

Due(job) ==
  CASE job = "start" -> status = "scheduled" /\ wait <= 0
    [] job = "end" -> status = "active" /\ left <= 0
    [] job = "settle" -> status = "waiting_settlement" /\ ~resolved /\ left <= -Grace

Find(job) ==
  /\ job \notin found /\ Due(job)
  /\ found' = found \cup {job}
  /\ UNCHANGED <<timeVars, rowVars, bids, orders, quoted, govVars>>

(* The row is no longer what the worker has found, or processing it fails.  *)
PassOver(job) ==
  /\ job \in found
  /\ found' = found \ {job}
  /\ UNCHANGED <<timeVars, rowVars, bids, orders, quoted, govVars>>

(* ActivateScheduledAuction: a seller without market authority lapses; with *)
(* a restriction, or without coverage, the auction waits.                   *)
ActivateScheduledAuction ==
  /\ "start" \in found /\ found' = found \ {"start"}
  /\ status = "scheduled" /\ wait <= 0 /\ Seller \notin restricted
  /\ Becomes("active") \/ Becomes("lapsed")
  /\ UNCHANGED <<timeVars, extended, bid, winner, order, resolved, asked, given, round,
                 bids, orders, quoted, govVars>>

(* EndAuctionInternal.  Whether the seller has to quote the shipping to the *)
(* winner depends on the address of the winner.                             *)
EndAuctionInternal ==
  /\ "end" \in found /\ found' = found \ {"end"}
  /\ status = "active" /\ left <= 0
  /\ \/ winner # Nobody /\ Becomes("waiting_settlement") /\ asked' \in BOOLEAN
     \/ winner = Nobody /\ Becomes("ended") /\ UNCHANGED asked
  /\ UNCHANGED <<timeVars, extended, bid, winner, order, resolved, given, round,
                 bids, orders, quoted, govVars>>

(* Mutants of processExpiredSettlement: it trusts what it has found, and it *)
(* blames the buyer whatever the seller owed.                               *)
processAsFound ==
  /\ "settle" \in found /\ found' = found \ {"settle"}
  /\ status = "waiting_settlement"
  /\ IF asked /\ ~given THEN Blame(Seller, "seller_shipping_default")
                        ELSE Blame(winner, "buyer_shipping_timeout")
  /\ RescheduleAfterSettlementFailure
  /\ UNCHANGED <<bids, orders, quoted>>

processBlamingBuyer ==
  /\ "settle" \in found /\ found' = found \ {"settle"}
  /\ status = "waiting_settlement" /\ ~resolved /\ SettlementDeadlinePassed
  /\ Blame(winner, "buyer_shipping_timeout")
  /\ RescheduleAfterSettlementFailure
  /\ UNCHANGED <<bids, orders, quoted>>

processExpiredSettlement ==
  /\ "settle" \in found /\ found' = found \ {"settle"}
  /\ status = "waiting_settlement" /\ ~resolved /\ SettlementDeadlinePassed
  /\ IF asked /\ ~given THEN Blame(Seller, "seller_shipping_default")
     ELSE IF winner = Nobody THEN Blame(Seller, "seller_shipping_default")
     ELSE Blame(winner, "buyer_shipping_timeout")
  /\ RescheduleAfterSettlementFailure
  /\ UNCHANGED <<bids, orders, quoted>>

--------------------------------------------------------------------------------
(* Checkout: a pricing token fixes the price, the order is made with it.    *)

isBidWin == status \in {"ended", "waiting_settlement"} /\ winner # Nobody

(* GenerateForAuction reads the row without locking it. *)
GenerateForAuction(b) ==
  /\ order = 0
  /\ \/ status = "active" /\ quoted' = [quoted EXCEPT ![b] = BuyNowPrice]
     \/ /\ isBidWin /\ winner = b /\ ~SettlementDeadlinePassed
        /\ quoted' = [quoted EXCEPT ![b] = bid]
  /\ UNCHANGED <<timeVars, rowVars, bids, orders, found, govVars>>

NewOrder(b, price) ==
  /\ Len(orders) < MaxOrders
  /\ orders' = Append(orders, [buyer |-> b, price |-> price, round |-> round,
                               via |-> IF isBidWin THEN "bid" ELSE "buy_now",
                               state |-> "pending"])
  /\ order' = Len(orders) + 1
  /\ quoted' = [quoted EXCEPT ![b] = 0]

(* Mutant of CheckoutWin: the price is the one of the token, unchecked. *)
CheckoutWinAsQuoted(b) ==
  /\ quoted[b] # 0 /\ order = 0 /\ b \notin restricted
  /\ isBidWin /\ winner = b /\ ~SettlementDeadlinePassed
  /\ NewOrder(b, quoted[b])
  /\ resolved' = TRUE
  /\ UNCHANGED <<timeVars, status, extended, bid, winner, asked, given, round,
                 bids, found, govVars>>

(* POST /orders by the winner: resolves the shipping and binds the order.   *)
CheckoutWin(b) ==
  /\ quoted[b] # 0 /\ order = 0 /\ b \notin restricted
  /\ isBidWin /\ winner = b /\ ~SettlementDeadlinePassed
  /\ quoted[b] = bid
  /\ NewOrder(b, bid)
  /\ resolved' = TRUE
  /\ UNCHANGED <<timeVars, status, extended, bid, winner, asked, given, round,
                 bids, found, govVars>>

(* POST /orders at the buy-now price: ends the auction. *)
CheckoutBuyNow(b) ==
  /\ quoted[b] # 0 /\ order = 0 /\ b \notin restricted
  /\ ~isBidWin /\ status = "active" /\ quoted[b] = BuyNowPrice
  /\ NewOrder(b, quoted[b])
  /\ Becomes("ended")
  /\ UNCHANGED <<timeVars, extended, bid, winner, resolved, asked, given, round,
                 bids, found, govVars>>

(* MarkPaid, with settleAuctionOnPaymentSuccess. *)
MarkPaid(o) ==
  /\ orders[o].state = "pending"
  /\ orders' = [orders EXCEPT ![o].state = "paid"]
  /\ status' = IF status = "waiting_settlement" THEN "ended" ELSE status
  /\ UNCHANGED <<timeVars, extended, bid, winner, order, resolved, asked, given, round,
                 bids, quoted, found, govVars>>

(* Mutant of Release: the binding is released and that is all. *)
ReleaseOnly(o) ==
  /\ order \in {0, o} /\ orders' = [orders EXCEPT ![o].state = "gone"]
  /\ order' = 0
  /\ UNCHANGED <<timeVars, status, extended, bid, winner, resolved, asked, given, round, govVars,
                 bids, quoted, found>>

(* releaseAuctionOrderBinding: an order bound to another row's run fails    *)
(* the transaction; a winner who did not pay is blamed and the auction put  *)
(* up again.                                                                *)
Release(o) ==
  /\ order \in {0, o} /\ orders' = [orders EXCEPT ![o].state = "gone"]
  /\ IF order = o /\ status = "waiting_settlement"
     THEN /\ Blame(orders[o].buyer, "buyer_bnr")
          /\ RescheduleAfterSettlementFailure
     ELSE /\ order' = 0
          /\ UNCHANGED <<timeVars, status, extended, bid, winner, resolved, asked, given,
                         round, govVars>>
  /\ UNCHANGED <<bids, quoted, found>>

(* Cancel by the buyer, or Expire when the time to pay is over. *)
CancelOrExpire(o) == orders[o].state = "pending" /\ Release(o)

(* CancelOverdue: a paid order the seller has not shipped in time. *)
CancelOverdue(o) == orders[o].state = "paid" /\ Release(o)

--------------------------------------------------------------------------------

Tick ==
  /\ status \notin {"none", "lapsed", "cancelled"} /\ left >= -Grace
  /\ wait' = wait - 1 /\ left' = left - 1
  /\ UNCHANGED <<rowVars, bids, orders, quoted, found, govVars>>

RestrictionEnds(u) ==
  /\ u \in restricted /\ restricted' = restricted \ {u}
  /\ UNCHANGED <<timeVars, rowVars, bids, orders, quoted, found, blamed>>

Next ==
  \/ \E t \in Timings : \/ \E mode \in {"now", "scheduled"} :
                             Create(t[1], t[2], mode) \/ Relist(t[1], t[2], mode)
                        \/ UpdateScheduled(t[1], t[2])
  \/ Cancel \/ AdminCancel \/ CancelForModeration \/ SellerQuotes
  \/ \E b \in Bidders, key \in Keys, amount \in Amounts : PlaceBid(b, key, amount)
  \/ \E job \in Jobs : Find(job) \/ PassOver(job)
  \/ ActivateScheduledAuction \/ EndAuctionInternal \/ processExpiredSettlement
  \/ \E b \in Bidders : GenerateForAuction(b) \/ CheckoutWin(b) \/ CheckoutBuyNow(b)
  \/ \E o \in DOMAIN orders : MarkPaid(o) \/ CancelOrExpire(o) \/ CancelOverdue(o)
  \/ Tick
  \/ \E u \in Users : RestrictionEnds(u)

Spec == Init /\ [][Next]_vars

(* Time passes, the workers poll, and an order that is not paid expires.  A *)
(* worker may fail on a row, or find it changed, but not for ever.          *)
FairSpec ==
  /\ Spec /\ WF_vars(Tick)
  /\ \A job \in Jobs : WF_vars(Find(job))
  /\ SF_vars(EndAuctionInternal) /\ SF_vars(processExpiredSettlement)
  /\ \A o \in 1..MaxOrders : WF_vars(o \in DOMAIN orders /\ CancelOrExpire(o))

--------------------------------------------------------------------------------
(* Properties. *)

Statuses == {"none", "scheduled", "active", "waiting_settlement", "ended", "cancelled", "lapsed"}
Kinds == {"seller_shipping_default", "buyer_shipping_timeout", "buyer_bnr"}

TypeOK ==
  /\ status \in Statuses /\ wait \in Int /\ left \in Int /\ extended \in 0..MaxExtension
  /\ bid \in Nat /\ winner \in Bidders \cup {Nobody} /\ order \in 0..Len(orders)
  /\ resolved \in BOOLEAN /\ asked \in BOOLEAN /\ given \in BOOLEAN /\ round \in Nat
  /\ bids \subseteq [by : Bidders, key : Keys, amount : Amounts, round : Nat]
  /\ orders \in Seq([buyer : Bidders, price : Nat, round : Nat, via : {"bid", "buy_now"},
                     state : {"pending", "paid", "gone"}])
  /\ quoted \in [Bidders -> Nat] /\ found \subseteq Jobs
  /\ blamed \subseteq [user : Users, round : Nat, kind : Kinds] /\ restricted \subseteq Users

(* The price to beat is the highest bid of this round, and its bidder is    *)
(* who has won when the round ends: bids of earlier rounds do not count.    *)
HighestBidWins ==
  LET placed == {x \in bids : x.round = round}
  IN IF placed = {} THEN bid = 0 /\ winner = Nobody
     ELSE \E x \in placed : /\ x.amount = bid /\ x.by = winner
                            /\ \A y \in placed : y.amount <= bid

Live(o) == orders[o].state \in {"pending", "paid"}

(* The fish is sold to one buyer: an order that can still be paid, or has   *)
(* been and stands, is the one the auction is bound to, and the auction is  *)
(* not on offer meanwhile.                                                  *)
SoldOnce ==
  /\ \A o \in DOMAIN orders : Live(o) => order = o
  /\ order # 0 => /\ Live(order)
                  /\ status \in {"waiting_settlement", "ended", "cancelled"}

(* The winner pays the highest bid of the round, the buyer at buy-now that  *)
(* price, however old the quote.                                            *)
FairPrice ==
  \A o \in DOMAIN orders :
    IF orders[o].via = "buy_now" THEN orders[o].price = BuyNowPrice
    ELSE \E x \in bids : /\ x.round = orders[o].round /\ x.by = orders[o].buyer
                         /\ x.amount = orders[o].price
                         /\ \A y \in bids : y.round = x.round => y.amount <= x.amount

(* Nobody is blamed for a round who has paid in it, whatever raced the      *)
(* payment.                                                                 *)
PayersAreNotBlamed ==
  \A v \in blamed, o \in DOMAIN orders :
    ~(orders[o].state = "paid" /\ orders[o].buyer = v.user /\ orders[o].round = v.round)

(* The winner does not answer for a quote the seller has not given.         *)
WinnerWaitsForQuote ==
  [][\A v \in blamed' \ blamed :
       v.kind = "buyer_shipping_timeout" => (~asked \/ given) /\ ~resolved]_vars

(* However many late bids and failed settlements, a round runs no longer    *)
(* than the longest duration and the largest extension.                     *)
EndBounded == left - wait <= MaxDuration + MaxExtension

(* An auction under way comes to an end, and one that waits for its winner  *)
(* does not wait for ever.                                                  *)
Concluded == (status \in {"active", "waiting_settlement"})
               ~> (status \notin {"active", "waiting_settlement"})

================================================================================
