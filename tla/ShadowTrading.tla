---------------------------- MODULE ShadowTrading ----------------------------
(***************************************************************************)
(* The simulated executions of a shadow trade (shadow/execution.py,        *)
(* shadow/rules.py). A shadow trade is bought from an observation made     *)
(* after its decision, or, when nothing executable was observed, from the  *)
(* learned acquisition model; it is listed and sold against an observation *)
(* made after the listing. Prices live on EA's grid, whose tick grows with *)
(* the price. Who calls the simulations is not part of the sources.        *)
(***************************************************************************)
EXTENDS Integers

CONSTANTS Quote,   \* market prices that may be observed, or expected
          Limit,   \* highest prices a decision may allow, and listing prices
          Lot,     \* quantities that may be asked for
          Depth,   \* listings that may be seen, and quantities expected
          Chance,  \* probabilities and uncertainties, in percent
          MaxTick  \* bound: the clock

ASSUME ShadowAssumption ==
    /\ Quote \subseteq Nat /\ Limit \subseteq Nat
    /\ Lot \subseteq Nat \ {0} /\ Depth \subseteq Nat
    /\ Chance \subseteq 0..100
    /\ MaxTick \in Nat

\* ShadowRules as they stand.
BuySlippage  == 1
SellSlippage == 1
Undercut     == 1
UnknownDepth == -1

VARIABLES instant,   \* the clock of the snapshots
          stance,    \* what the trade waits for
          decision,  \* the order: when, up to which price, how many
          offer,     \* the listing: when, at which price
          bought,    \* the buying fill, with the price that was observed for it
          sold       \* the selling fill, likewise, with the tax

shadowVars == <<instant, stance, decision, offer, bought, sold>>

NoOffer == [at |-> 0, price |-> 0]
NoFill == [price |-> 0, seen |-> 0, quantity |-> 0, at |-> 0, tax |-> 0]
Fill   == [price : Nat, seen : Nat, quantity : Nat, at : Nat, tax : Nat]

ShadowTypeOK ==
    /\ instant \in 0..MaxTick
    /\ stance \in {"none", "buying", "holding", "listed", "closed"}
    /\ decision \in [at : 0..MaxTick, limit : Limit \cup {0}, wanted : Lot \cup {0}]
    /\ offer \in [at : 0..MaxTick, price : Limit \cup {0}]
    /\ bought \in Fill /\ sold \in Fill

ShadowInit ==
    /\ instant = 0
    /\ stance = "none"
    /\ decision = [at |-> 0, limit |-> 0, wanted |-> 0]
    /\ offer = NoOffer
    /\ bought = NoFill /\ sold = NoFill

-----------------------------------------------------------------------------
\* The step between two prices EA accepts around p.
PriceTick(p) ==
    CASE p <= 1000  -> 50
      [] p > 1000 /\ p <= 10000   -> 100
      [] p > 10000 /\ p <= 50000  -> 250
      [] p > 50000 /\ p <= 100000 -> 500
      [] OTHER -> 1000

SnapDown(p) == (p \div PriceTick(p)) * PriceTick(p)
SnapUp(p)   == ((p + PriceTick(p) - 1) \div PriceTick(p)) * PriceTick(p)

\* Rounded with the tick of the price before the slippage (faulty variant).
PaidForOldTick(p) ==
    LET t == PriceTick(p) IN ((p + BuySlippage * t + t - 1) \div t) * t

\* What a purchase costs when p was seen, and the highest listing price that
\* still sells.
PaidFor(p) == SnapUp(p + BuySlippage * PriceTick(p))
Ceiling(p) == SnapDown(p - (Undercut + SellSlippage) * PriceTick(p))

AtLeastOne(n) == IF n < 1 THEN 1 ELSE n
Fewer(m, n)   == IF m < n THEN m ELSE n

\* An observation of the second of the order counts (faulty variant of After).
AfterOrAt(at, since) == at >= since

\* What is observed is not used for an order that is not older.
After(at, since) == at > since

\* EA's tax of 5 %, rounded down over the whole quantity.
TaxOf(price, quantity) == (price * quantity) \div 20

-----------------------------------------------------------------------------
\* The caller opens a shadow order.
Decide ==
    /\ stance \in {"none", "closed"}
    /\ \E limit \in Limit, wanted \in Lot :
          decision' = [at |-> instant, limit |-> limit, wanted |-> wanted]
    /\ stance' = "buying"
    /\ offer' = NoOffer
    /\ bought' = NoFill /\ sold' = NoFill
    /\ UNCHANGED instant

\* simulate_buy_fill, when it fills; it changes nothing when it does not.
BuyFill ==
    /\ stance = "buying"
    /\ \E at \in 0..instant, seen \in Quote, depth \in Depth \cup {UnknownDepth} :
          LET quantity == IF depth = UnknownDepth
                          THEN AtLeastOne(decision.wanted \div 4)
                          ELSE Fewer(decision.wanted, depth)
          IN  /\ After(at, decision.at)
              /\ PaidFor(seen) <= decision.limit
              /\ quantity > 0
              /\ bought' = [price |-> PaidFor(seen), seen |-> seen, quantity |-> quantity,
                            at |-> at, tax |-> 0]
    /\ stance' = "holding"
    /\ UNCHANGED <<instant, decision, offer, sold>>

\* simulate_acquisition_attempt, when it fills: a draw that is not above the
\* probability that is left of the model's after the uncertainty. No quantity
\* expected counts as one.
AcquisitionFill ==
    /\ stance = "buying"
    /\ \E expected \in Quote, probability, uncertainty, draw \in Chance, delay \in 0..MaxTick,
          depth \in Depth :
          /\ 100 * draw <= probability * (100 - uncertainty)
          /\ PaidFor(expected) <= decision.limit
          /\ decision.at + AtLeastOne(delay) <= MaxTick
          /\ bought' = [price |-> PaidFor(expected), seen |-> expected,
                        quantity |-> Fewer(decision.wanted, AtLeastOne(depth)),
                        at |-> decision.at + AtLeastOne(delay), tax |-> 0]
    /\ stance' = "holding"
    /\ UNCHANGED <<instant, decision, offer, sold>>

\* The caller puts the cards up, or up again; the time and the price of that
\* are the decision_at and the listed_price of the sale's simulation.
PutUp ==
    /\ stance \in {"holding", "listed"}
    /\ instant >= bought.at
    /\ \E price \in Limit : offer' = [at |-> instant, price |-> price]
    /\ stance' = "listed"
    /\ UNCHANGED <<instant, decision, bought, sold>>

\* simulate_sell_fill, when it fills; confirmed_twice is the caller's word.
SellFill ==
    /\ stance = "listed"
    /\ \E at \in 0..instant, seen \in Quote :
          /\ After(at, offer.at)
          /\ offer.price <= Ceiling(seen)
          /\ sold' = [price |-> offer.price, seen |-> seen, quantity |-> bought.quantity, at |-> at,
                      tax |-> TaxOf(offer.price, bought.quantity)]
    /\ stance' = "closed"
    /\ UNCHANGED <<instant, decision, offer, bought>>

\* An order is given up.
GiveUp ==
    /\ stance = "buying"
    /\ stance' = "none"
    /\ UNCHANGED <<instant, decision, offer, bought, sold>>

NextInstant ==
    /\ instant < MaxTick
    /\ instant' = instant + 1
    /\ UNCHANGED <<stance, decision, offer, bought, sold>>

ShadowNext == Decide \/ BuyFill \/ AcquisitionFill \/ PutUp \/ SellFill \/ GiveUp \/ NextInstant

ShadowSpec == ShadowInit /\ [][ShadowNext]_shadowVars

-----------------------------------------------------------------------------
OnGrid(p) == p % PriceTick(p) = 0

\* What a trade earns, and what it would have earned at the prices observed.
Profit(buy, sell, quantity) == sell * quantity - TaxOf(sell, quantity) - buy * quantity

\* A fill is never better than the market it was taken from, nor earlier. The
\* purchase is at a price EA accepts, above the one observed, within the limit
\* of the decision and after it, whichever of the two simulations filled it;
\* the sale is after the listing, and that after the purchase. A closed trade
\* earns less than the same trade at the prices observed, at every boundary of
\* the price grid.
ShadowIsConservative ==
    /\ stance \in {"holding", "listed", "closed"} =>
          /\ decision.at < bought.at
          /\ OnGrid(bought.price) /\ bought.seen < bought.price /\ bought.price <= decision.limit
          /\ bought.quantity \in 1..decision.wanted
    /\ stance = "closed" =>
          /\ bought.at <= offer.at /\ offer.at < sold.at
          /\ Profit(bought.price, sold.price, sold.quantity)
                < Profit(bought.seen, sold.seen, sold.quantity)

=============================================================================
