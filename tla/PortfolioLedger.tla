--------------------------- MODULE PortfolioLedger ---------------------------
(***************************************************************************)
(* The manual trading ledger: the account row, the position rows, the      *)
(* portfolio_transactions rows and the execution observations a purchase   *)
(* consumes.  Each action is one API request run from its first read to    *)
(* its commit; PortfolioConcurrent opens the requests up and interleaves   *)
(* them.                                                                   *)
(*                                                                         *)
(* The transaction table is kept as what the properties read of it, column *)
(* sums: over all rows in book, per card in trades.  Texts, the activity   *)
(* feed and row identifiers are left out.  None is written 0, which is     *)
(* neither a price nor a lowest BIN (both are positive).                   *)
(***************************************************************************)
EXTENDS Integers, Sequences

CONSTANTS
  Card,          \* cards that may be traded
  Price,         \* unit prices, positive
  Quantity,      \* traded quantities, positive
  Balance,       \* coin balances the user may type in
  Books,         \* the order books a market check may report: price -> listings
  Backdated,     \* TRUE iff clients send occurred_at (the web pages never do)
  MaxRequests    \* bound on the number of requests

None == 0

ASSUME LedgerAssumption ==
  /\ Price \subseteq Nat \ {None}
  /\ Quantity \subseteq Nat \ {0}
  /\ Balance \subseteq Nat
  /\ Books \subseteq [Price -> Nat]
  /\ Backdated \in BOOLEAN
  /\ MaxRequests \in Nat

VARIABLES
  account,   \* the trading_accounts row "main"
  position,  \* card -> its portfolio_positions row
  book,      \* sums over all portfolio_transactions rows
  trades,    \* card -> sums over the card's portfolio_transactions rows
  evidence,  \* card -> its PC execution_observations, in id order
  now        \* the clock, in requests

vars == <<account, position, book, trades, evidence, now>>

-----------------------------------------------------------------------------
(* Arithmetic.                                                             *)

(* math.floor(gross * 0.05): the product of any amount the game allows is  *)
(* within half an ulp of gross / 20, so the floor is the integer quotient. *)
Tax(gross) == gross \div 20

(* Faulty variant: truncates instead of rounding.                          *)
RoundDown(a, b) == a \div b

(* Python's round(a / b): to nearest, ties to the even neighbour.          *)
RoundHalfEven(a, b) ==
  LET q == a \div b
      r == a % b
  IN IF 2 * r < b \/ (2 * r = b /\ q % 2 = 0) THEN q ELSE q + 1

-----------------------------------------------------------------------------
(* Execution observations.                                                 *)

(* The latest row: ORDER BY observed_at DESC, id DESC LIMIT 1.             *)
Latest(rows) ==
  CHOOSE i \in DOMAIN rows : \A j \in DOMAIN rows :
    rows[j].at < rows[i].at \/ (rows[j].at = rows[i].at /\ j <= i)

LowestOf(listings) ==
  LET offered == {p \in Price : listings[p] > 0}
  IN IF offered = {} THEN None
     ELSE CHOOSE p \in offered : \A r \in offered : p <= r

(* Faulty variant: one copy leaves the book however many were bought.      *)
RemainingLessOne(listings, p, q) ==
  [listings EXCEPT ![p] = IF @ > 1 THEN @ - 1 ELSE 0]

(* remaining.remove(price), at most quantity times                         *)
Remaining(listings, p, q) ==
  [listings EXCEPT ![p] = IF @ > q THEN @ - q ELSE 0]

(* Faulty variant: the derived row claims to be as fresh as the purchase.  *)
AfterPurchaseRestamped(rows, p, q, at) ==
  IF rows = <<>> THEN rows
  ELSE LET last == rows[Latest(rows)]
           left == Remaining(last.listings, p, q)
       IN IF last.listings[p] = 0 THEN rows
          ELSE Append(rows, [type |-> "derived", at |-> at, checked |-> at,
                             listings |-> left, lowest |-> LowestOf(left)])

(* The rows after a purchase of q copies at p recorded for time at: a      *)
(* derived row when the latest row lists p, the same rows otherwise.       *)
AfterPurchase(rows, p, q, at) ==
  IF rows = <<>> THEN rows
  ELSE LET last == rows[Latest(rows)]
           left == Remaining(last.listings, p, q)
       IN IF last.listings[p] = 0 THEN rows
          ELSE Append(rows, [type |-> "derived", at |-> at, checked |-> last.checked,
                             listings |-> left, lowest |-> LowestOf(left)])

(* The executable marks the portfolio page may show: the lowest BIN of a   *)
(* row with the greatest observed_at (that query has no tie-break).        *)
Marks(rows) ==
  {rows[i].lowest : i \in {k \in DOMAIN rows :
                             \A j \in DOMAIN rows : rows[j].at <= rows[k].at}}

Observation == [type : {"check", "derived"}, at : Nat, checked : Nat,
                listings : [Price -> Nat], lowest : Price \cup {None}]

-----------------------------------------------------------------------------
(* Requests.                                                               *)

NoPosition == [status |-> "none", quantity |-> 0, average |-> 0, cost |-> 0,
               desired |-> None]

Init ==
  /\ account = [coins |-> 0, realized |-> 0, tax |-> 0]
  /\ position = [c \in Card |-> NoPosition]
  /\ book = [flow |-> 0, adjusted |-> 0, realized |-> 0, tax |-> 0,
             paid |-> 0, released |-> 0]
  /\ trades = [c \in Card |-> [bought |-> 0, sold |-> 0]]
  /\ evidence = [c \in Card |-> <<>>]
  /\ now = 1

Tick == now <= MaxRequests /\ now' = now + 1

(* occurred_at or datetime.now(): when the trade is recorded to happen     *)
TradeTimes == IF Backdated THEN 1..now ELSE {now}

SetCoinBalance(coins) ==
  LET delta == coins - account.coins
  IN /\ Tick
     /\ account' = [account EXCEPT !.coins = coins]
     /\ book' = [book EXCEPT !.flow = @ + delta, !.adjusted = @ + delta]
     /\ UNCHANGED <<position, trades, evidence>>

SetDesiredListingPrice(c, p) ==
  /\ Tick
  /\ position[c].status # "none"
  /\ position' = [position EXCEPT ![c].desired = p]
  /\ UNCHANGED <<account, book, trades, evidence>>

(* The position row after buying q copies for total coins in all.          *)
Bought(pos, q, total) ==
  [pos EXCEPT !.status = "open",
              !.quantity = @ + q,
              !.cost = @ + total,
              !.average = RoundHalfEven(pos.cost + total, pos.quantity + q)]

(* Faulty variant: no check of the coin balance.                           *)
PurchaseUnchecked(c, q, p, at) ==
  LET total == q * p
  IN /\ Tick
     /\ position' = [position EXCEPT ![c] = Bought(@, q, total)]
     /\ account' = [account EXCEPT !.coins = @ - total]
     /\ book' = [book EXCEPT !.flow = @ - total, !.paid = @ + total]
     /\ trades' = [trades EXCEPT ![c].bought = @ + q]
     /\ evidence' = [evidence EXCEPT ![c] = AfterPurchase(@, p, q, at)]

RecordPurchase(c, q, p, at) ==
  LET total == q * p
  IN /\ Tick
     /\ account.coins >= total
     /\ position' = [position EXCEPT ![c] = Bought(@, q, total)]
     /\ account' = [account EXCEPT !.coins = @ - total]
     /\ book' = [book EXCEPT !.flow = @ - total, !.paid = @ + total]
     /\ trades' = [trades EXCEPT ![c].bought = @ + q]
     /\ evidence' = [evidence EXCEPT ![c] = AfterPurchase(@, p, q, at)]

(* Faulty variant: a closed position keeps its cost basis and average.     *)
SoldKeepingCost(pos, q) ==
  [pos EXCEPT !.quantity = @ - q,
              !.status = IF pos.quantity = q THEN "closed" ELSE @]

(* The position row after selling q of its copies; the last sale closes it *)
Sold(pos, q) ==
  IF pos.quantity = q
  THEN [NoPosition EXCEPT !.status = "closed"]
  ELSE [pos EXCEPT !.quantity = @ - q, !.cost = pos.average * (pos.quantity - q)]

(* Faulty variant: the realized profit forgets the EA tax.                 *)
SaleProfitBeforeTax(c, q, p) ==
  LET pos    == position[c]
      gross  == q * p
      net    == gross - Tax(gross)
      basis  == pos.average * q
      profit == gross - basis
  IN /\ Tick
     /\ pos.quantity >= q
     /\ position' = [position EXCEPT ![c] = Sold(@, q)]
     /\ account' = [coins |-> account.coins + net,
                    realized |-> account.realized + profit,
                    tax |-> account.tax + Tax(gross)]
     /\ book' = [book EXCEPT !.flow = @ + net, !.realized = @ + profit,
                             !.tax = @ + Tax(gross), !.released = @ + basis]
     /\ trades' = [trades EXCEPT ![c].sold = @ + q]
     /\ UNCHANGED evidence

RecordSale(c, q, p) ==
  LET pos    == position[c]
      gross  == q * p
      net    == gross - Tax(gross)
      basis  == pos.average * q
      profit == net - basis
  IN /\ Tick
     /\ pos.quantity >= q
     /\ position' = [position EXCEPT ![c] = Sold(@, q)]
     /\ account' = [coins |-> account.coins + net,
                    realized |-> account.realized + profit,
                    tax |-> account.tax + Tax(gross)]
     /\ book' = [book EXCEPT !.flow = @ + net, !.realized = @ + profit,
                             !.tax = @ + Tax(gross), !.released = @ + basis]
     /\ trades' = [trades EXCEPT ![c].sold = @ + q]
     /\ UNCHANGED evidence

(* A market check: the row a verification response inserts.  typed is the  *)
(* lowest BIN the user entered besides the listings, if any.  The time of  *)
(* the check is never later than its receipt, and no two rows of a card    *)
(* share their (microsecond) time.                                         *)
ObserveListings(c, listings, typed, at) ==
  /\ Tick
  /\ \A i \in DOMAIN evidence[c] : evidence[c][i].at # at
  /\ evidence' = [evidence EXCEPT ![c] =
                    Append(@, [type |-> "check", at |-> at, checked |-> at,
                               listings |-> listings,
                               lowest |-> IF typed # None THEN typed
                                          ELSE LowestOf(listings)])]
  /\ UNCHANGED <<account, position, book, trades>>

Next ==
  \/ \E coins \in Balance : SetCoinBalance(coins)
  \/ \E c \in Card, p \in Price \cup {None} : SetDesiredListingPrice(c, p)
  \/ \E c \in Card, q \in Quantity, p \in Price, at \in TradeTimes :
       RecordPurchase(c, q, p, at)
  \/ \E c \in Card, q \in Quantity, p \in Price : RecordSale(c, q, p)
  \/ \E c \in Card, listings \in Books, typed \in Price \cup {None}, at \in 1..now :
       ObserveListings(c, listings, typed, at)

Spec == Init /\ [][Next]_vars

-----------------------------------------------------------------------------
(* Properties.                                                             *)

Account == [coins : Nat, realized : Int, tax : Nat]
Totals == [flow : Int, adjusted : Int, realized : Int, tax : Nat, paid : Nat,
           released : Nat]
Traded == [bought : Nat, sold : Nat]
Position == [status : {"none", "open", "closed"}, quantity : Nat, average : Nat,
             cost : Nat, desired : Price \cup {None}]

(* Every row has its columns' types; coins never go below zero.            *)
TypeOK ==
  /\ account \in Account
  /\ position \in [Card -> Position]
  /\ book \in Totals
  /\ trades \in [Card -> Traded]
  /\ evidence \in [Card -> Seq(Observation)]
  /\ now \in Nat

(* record_purchase and record_sale keep a position row equal to what the   *)
(* card's transactions say: the copies held are those bought and not yet   *)
(* sold, the row is closed exactly when none is left, and the cost basis   *)
(* is the rounded average times the quantity up to half a coin per copy.   *)
PositionsFollowTrades ==
  \A c \in Card :
    LET pos == position[c]
    IN /\ pos.quantity = trades[c].bought - trades[c].sold
       /\ pos.quantity > 0 <=> pos.status = "open"
       /\ pos.quantity = 0 => pos.cost = 0 /\ pos.average = 0
       /\ 2 * (pos.cost - pos.average * pos.quantity) <= pos.quantity
       /\ 2 * (pos.average * pos.quantity - pos.cost) <= pos.quantity

(* The account row never disagrees with the transactions: coins are the    *)
(* sum of the net coin flows, and what was paid for copies and not yet     *)
(* released as cost basis is what separates coins from adjustments plus    *)
(* realized profit.                                                        *)
CashIdentity ==
  /\ account.coins = book.flow
  /\ account.realized = book.realized
  /\ account.tax = book.tax
  /\ account.coins + book.paid - book.released = book.adjusted + book.realized

(* A request moves coins between cash and cost basis exactly, except that  *)
(* a sale may lose or make up, by the rounding of the average price, at    *)
(* most half a coin per copy held.                                         *)
BasisDriftBounded ==
  [][\A c \in Card : position'[c] # position[c] =>
       LET drift == (book'.paid - book.paid) - (book'.released - book.released)
                      - (position'[c].cost - position[c].cost)
       IN /\ 2 * drift <= position[c].quantity
          /\ -2 * drift <= position[c].quantity
          /\ trades'[c].sold = trades[c].sold => drift = 0]_vars

(* Buying every copy a market check listed at the lowest price takes that  *)
(* price off the portfolio page: the next listing, or nothing, becomes the *)
(* executable mark (_consume_observed_listings_after_purchase).            *)
BoughtOutListingLeavesMark ==
  [][\A c \in Card : trades'[c].bought # trades[c].bought /\ evidence[c] # <<>> =>
       LET copies   == trades'[c].bought - trades[c].bought
           price    == (book'.paid - book.paid) \div copies
           listings == evidence[c][Latest(evidence[c])].listings
       IN listings[price] \in 1..copies =>
            Marks(evidence'[c]) = {LowestOf([listings EXCEPT ![price] = 0])}]_vars

(* A derived book never looks fresher or richer than the evidence it      *)
(* comes from: the market check made at the time it claims listed at least *)
(* as much of everything.                                                  *)
DerivedBooksShrink ==
  \A c \in Card : \A i \in DOMAIN evidence[c] :
    LET row == evidence[c][i]
    IN \E j \in 1..i : /\ evidence[c][j].type = "check"
                       /\ evidence[c][j].at = row.checked
                       /\ \A p \in Price :
                            row.listings[p] <= evidence[c][j].listings[p]
=============================================================================
