------------------------ MODULE PortfolioLedgerProofs ------------------------
EXTENDS PortfolioLedger, WellFoundedInduction, SequenceTheorems, TLAPS

(* Dividing and taking the remainder: the facts the rounding rests on. *)
LEMMA DivMod ==
  ASSUME NEW a \in Nat, NEW b \in Nat \ {0}
  PROVE  /\ a \div b \in Nat
         /\ a % b \in 0..(b - 1)
         /\ a = b * (a \div b) + (a % b)
BY SMT

(* round(a / b) is a natural number within half of a / b. *)
LEMMA RoundHalfEvenNearest ==
  ASSUME NEW a \in Nat, NEW b \in Nat \ {0}
  PROVE  /\ RoundHalfEven(a, b) \in Nat
         /\ 2 * (a - RoundHalfEven(a, b) * b) <= b
         /\ 2 * (RoundHalfEven(a, b) * b - a) <= b
<1> DEFINE q == a \div b
           r == a % b
<1>1. q \in Nat /\ r \in 0..(b - 1) /\ a = b * q + r
  BY DivMod
<1>2. \/ 2 * r <= b /\ RoundHalfEven(a, b) = q
      \/ 2 * r >= b /\ RoundHalfEven(a, b) = q + 1
  BY <1>1 DEF RoundHalfEven
<1> HIDE DEF q, r
<1>3. CASE 2 * r <= b /\ RoundHalfEven(a, b) = q
  <2>1. a - q * b = r /\ q * b - a = -r
    BY <1>1
  <2> QED
    BY <1>1, <1>3, <2>1
<1>4. CASE 2 * r >= b /\ RoundHalfEven(a, b) = q + 1
  <2>1. (q + 1) * b = b * q + b
    BY <1>1
  <2>2. a - (q + 1) * b = r - b /\ (q + 1) * b - a = b - r
    BY <1>1, <2>1
  <2> QED
    BY <1>1, <1>4, <2>2
<1> QED
  BY <1>2, <1>3, <1>4

(* A nonempty set of natural numbers has a least element. *)
LEMMA LeastNatural ==
  ASSUME NEW T \in SUBSET Nat, T # {}
  PROVE  \E m \in T : \A n \in T : m <= n
<1> DEFINE less == {ss \in Nat \X Nat : ss[1] < ss[2]}
<1>1. IsWellFoundedOn(less, Nat)
  BY NatLessThanWellFounded DEF OpToRel
<1>2. PICK m \in T : \A n \in T : <<n, m>> \notin less
  <2> HIDE DEF less
  <2> QED BY <1>1, WFMin, Zenon
<1>3. \A n \in T : ~(n < m)
  BY <1>2
<1> QED
  BY <1>3

(* Products of natural numbers are natural numbers, and the EA tax never   *)
(* exceeds what is taxed.                                                  *)
LEMMA Products == \A a, b \in Nat : a * b \in Nat
BY SMT

LEMMA TaxWithinGross ==
  ASSUME NEW gross \in Nat
  PROVE  Tax(gross) \in Nat /\ Tax(gross) <= gross
BY SMT DEF Tax

(* The lowest listed price, when there is one, is a listed price below     *)
(* every other one.                                                        *)
LEMMA LowestOfListings ==
  ASSUME NEW listings \in [Price -> Nat]
  PROVE  LowestOf(listings) \in Price \cup {None}
<1> DEFINE offered == {p \in Price : listings[p] > 0}
<1>1. CASE offered = {}
  BY <1>1 DEF LowestOf
<1>2. CASE offered # {}
  <2>1. offered \in SUBSET Nat
    BY LedgerAssumption
  <2>2. \E p \in offered : \A r \in offered : p <= r
    <3> HIDE DEF offered
    <3> QED BY <1>2, <2>1, LeastNatural
  <2>3. LowestOf(listings) \in offered
    BY <1>2, <2>2 DEF LowestOf
  <2> QED
    BY <2>3
<1> QED
  BY <1>1, <1>2

(* ORDER BY observed_at DESC, id DESC LIMIT 1 returns a row when there is  *)
(* one: otherwise the shortest prefix without a latest row would extend a  *)
(* prefix that has one.                                                    *)
LEMMA LatestExists ==
  ASSUME NEW rows \in Seq(Observation), rows # <<>>
  PROVE  Latest(rows) \in DOMAIN rows
<1> DEFINE At(k) == rows[k].at
           Before(j, i) == \/ At(j) < At(i)
                           \/ At(j) = At(i) /\ j <= i
           Last(n) == \E i \in 1..n : \A j \in 1..n : Before(j, i)
           Bad == {n \in 1..Len(rows) : ~ Last(n)}
<1>1. Len(rows) \in Nat \ {0} /\ DOMAIN rows = 1..Len(rows)
  BY EmptySeq, LenProperties
<1>2. \A i \in 1..Len(rows) : At(i) \in Nat
  <2> TAKE i \in 1..Len(rows)
  <2>1. rows[i] \in Observation
    BY ElementOfSeq
  <2> QED BY <2>1 DEF Observation
<1> HIDE DEF At
<1>3. Bad = {}
  <2> SUFFICES ASSUME Bad # {} PROVE FALSE
    OBVIOUS
  <2>1. Bad \in SUBSET Nat
    BY <1>1
  <2>2. PICK n \in Bad : \A m \in Bad : n <= m
    <3> HIDE DEF Bad
    <3> QED BY <2>1, LeastNatural
  <2>3. n \in 1..Len(rows) /\ ~ Last(n) /\ Len(rows) \in Nat
    BY <1>1, <2>2
  <2>4. n # 1
    <3> SUFFICES ASSUME n = 1 PROVE Last(n)
      BY <2>3
    <3>1. \A j \in 1..1 : Before(j, 1)
      BY <1>2, <2>3
    <3> QED BY <3>1
  <2>5. n - 1 \in 1..Len(rows) /\ n - 1 \in 1..(n - 1)
    BY <2>3, <2>4
  <2>6. Last(n - 1)
    <3> HIDE DEF Last
    <3> QED BY <2>2, <2>3, <2>5
  <2>7. PICK i \in 1..(n - 1) : \A j \in 1..(n - 1) : Before(j, i)
    BY <2>6
  <2>8. i \in 1..n /\ n \in 1..n /\ 1..n \subseteq 1..Len(rows)
    BY <2>3, <2>7
  <2>9. \A j \in 1..n : j \in 1..(n - 1) \/ j = n
    BY <2>3
  <2>10. CASE At(n) < At(i)
    <3>1. \A j \in 1..n : Before(j, i)
      BY <2>7, <2>9, <2>10
    <3> HIDE DEF Before
    <3> QED BY <2>3, <2>8, <3>1
  <2>11. CASE ~(At(n) < At(i))
    <3>1. \A j \in 1..n : Before(j, n)
      <4> TAKE j \in 1..n
      <4>1. At(j) \in Nat /\ At(i) \in Nat /\ At(n) \in Nat
        BY <1>2, <2>8
      <4>2. At(i) <= At(n)
        BY <2>11, <4>1
      <4>3. CASE j \in 1..(n - 1)
        <5>1. Before(j, i)
          <6> HIDE DEF Before
          <6> QED BY <2>7, <4>3
        <5>2. At(j) < At(i) \/ At(j) = At(i)
          BY <5>1, Zenon
        <5>3. At(j) <= At(i)
          <6> DEFINE a == At(j)
                     b == At(i)
          <6>1. a \in Nat /\ b \in Nat /\ (a < b \/ a = b)
            BY <4>1, <5>2, Zenon
          <6> HIDE DEF a, b
          <6>2. a <= b
            BY <6>1
          <6> QED BY <6>2, Zenon DEF a, b
        <5>4. At(j) <= At(n) /\ j \in Int /\ n \in Int /\ j <= n
          <6>1. j \in Int /\ n \in Int /\ j <= n
            BY <2>3, <4>3
          <6>2. ASSUME NEW a \in Nat, NEW b \in Nat, NEW d \in Nat, a <= b, b <= d PROVE a <= d
            BY <6>2
          <6>3. At(j) <= At(n)
            BY <4>1, <4>2, <5>3, <6>2, Zenon
          <6> QED BY <6>1, <6>3
        <5> QED BY <4>1, <5>4
      <4>4. CASE j = n
        BY <2>3, <4>1, <4>4
      <4> QED BY <2>9, <4>3, <4>4
    <3> HIDE DEF Before
    <3> QED BY <2>3, <2>8, <3>1
  <2> QED
    BY <2>10, <2>11
<1>4. Last(Len(rows))
  <2>1. Len(rows) \in 1..Len(rows)
    BY <1>1
  <2> HIDE DEF Last
  <2> QED BY <1>3, <2>1
<1>5. \E i \in DOMAIN rows : \A j \in DOMAIN rows : Before(j, i)
  BY <1>1, <1>4
<1> USE DEF At
<1> QED
  BY <1>5 DEF Latest

(* Taking bought copies out of an order book leaves an order book that     *)
(* lists no more of anything.                                              *)
LEMMA RemainingListings ==
  ASSUME NEW listings \in [Price -> Nat], NEW p \in Price, NEW q \in Nat
  PROVE  /\ Remaining(listings, p, q) \in [Price -> Nat]
         /\ \A r \in Price : Remaining(listings, p, q)[r] <= listings[r]
BY SMT DEF Remaining

(* A purchase appends at most one row, and that row is an observation.     *)
LEMMA AfterPurchaseType ==
  ASSUME NEW rows \in Seq(Observation), NEW p \in Price, NEW q \in Nat,
         NEW at \in Nat
  PROVE  AfterPurchase(rows, p, q, at) \in Seq(Observation)
<1>1. CASE rows = <<>>
  BY <1>1 DEF AfterPurchase
<1>2. CASE rows # <<>>
  <2> DEFINE last == rows[Latest(rows)]
             left == Remaining(last.listings, p, q)
             row == [type |-> "derived", at |-> at, checked |-> last.checked,
                     listings |-> left, lowest |-> LowestOf(left)]
  <2>1. last \in Observation
    BY <1>2, LatestExists, ElementOfSeq, LenProperties
  <2>2. last.listings \in [Price -> Nat] /\ last.checked \in Nat
    BY <2>1 DEF Observation
  <2>3. left \in [Price -> Nat] /\ LowestOf(left) \in Price \cup {None}
    BY <2>2, RemainingListings, LowestOfListings
  <2>4. row \in Observation
    BY <2>2, <2>3 DEF Observation
  <2>5. AfterPurchase(rows, p, q, at) \in {rows, Append(rows, row)}
    BY <1>2 DEF AfterPurchase
  <2> QED
    BY <2>4, <2>5, AppendProperties
<1> QED
  BY <1>1, <1>2

(* The position row a purchase and a sale leave behind.                    *)
LEMMA BoughtType ==
  ASSUME NEW pos \in Position, NEW q \in Nat \ {0}, NEW total \in Nat
  PROVE  Bought(pos, q, total) \in Position
<1>1. pos.cost + total \in Nat /\ pos.quantity + q \in Nat \ {0}
  BY DEF Position
<1>2. RoundHalfEven(pos.cost + total, pos.quantity + q) \in Nat
  BY <1>1, RoundHalfEvenNearest
<1> QED
  BY <1>1, <1>2 DEF Bought, Position

LEMMA SoldType ==
  ASSUME NEW pos \in Position, NEW q \in Nat \ {0}, pos.quantity >= q
  PROVE  Sold(pos, q) \in Position
<1>1. pos.quantity - q \in Nat /\ pos.average \in Nat
  BY DEF Position
<1>2. pos.average * (pos.quantity - q) \in Nat
  BY <1>1, Products
<1> QED
  BY <1>1, <1>2 DEF Sold, Position, NoPosition, None

(* The amounts of a purchase or a sale.                                    *)
LEMMA TradeAmounts ==
  ASSUME NEW q \in Quantity, NEW p \in Price
  PROVE  q \in Nat \ {0} /\ p \in Nat \ {0} /\ q * p \in Nat
BY LedgerAssumption, Products DEF None

(* What is recorded as past never exceeds the clock.                       *)
LEMMA TradeTimesType ==
  ASSUME now \in Nat
  PROVE  TradeTimes \subseteq Nat
BY DEF TradeTimes

-----------------------------------------------------------------------------
(* Type correctness: whatever requests are made, the coin balance stays a  *)
(* natural number and every row keeps the types of its columns.            *)

LEMMA TypeInitially == Init => TypeOK
BY EmptySeq DEF Init, TypeOK, Position, NoPosition, None, Account, Totals, Traded

LEMMA TypePreserved == TypeOK /\ [Next]_vars => TypeOK'
<1> SUFFICES ASSUME TypeOK, [Next]_vars PROVE TypeOK'
  OBVIOUS
<1> DEFINE AccountOK  == account \in Account
           PositionOK == position \in [Card -> Position]
           BookOK     == book \in Totals
           TradesOK   == trades \in [Card -> Traded]
           EvidenceOK == evidence \in [Card -> Seq(Observation)]
<1>a. AccountOK /\ PositionOK /\ BookOK /\ TradesOK /\ EvidenceOK /\ now \in Nat
  BY DEF TypeOK
<1>b. /\ account.coins \in Nat /\ account.realized \in Int /\ account.tax \in Nat
      /\ book.flow \in Int /\ book.adjusted \in Int /\ book.realized \in Int
      /\ book.tax \in Nat /\ book.paid \in Nat /\ book.released \in Nat
  BY <1>a DEF Account, Totals
<1>1. ASSUME NEW coins \in Balance, SetCoinBalance(coins)
      PROVE  TypeOK'
  <2> DEFINE delta == coins - account.coins
  <2>1. coins \in Nat /\ delta \in Int
    BY <1>b, LedgerAssumption
  <2>2. /\ now' = now + 1 /\ UNCHANGED <<position, trades, evidence>>
        /\ account' = [account EXCEPT !.coins = coins]
        /\ book' = [book EXCEPT !.flow = @ + delta, !.adjusted = @ + delta]
    BY <1>1 DEF SetCoinBalance, Tick
  <2> HIDE DEF delta
  <2>3. account' \in Account
    BY <1>a, <2>1, <2>2 DEF Account
  <2>4. book.flow + delta \in Int /\ book.adjusted + delta \in Int
    BY <1>b, <2>1
  <2>5. book' \in Totals
    BY <1>a, <2>2, <2>4 DEF Totals
  <2> QED BY <1>a, <2>2, <2>3, <2>5 DEF TypeOK
<1>2. ASSUME NEW c \in Card, NEW p \in Price \cup {None}, SetDesiredListingPrice(c, p)
      PROVE  TypeOK'
  <2>1. position' = [position EXCEPT ![c] = [position[c] EXCEPT !.desired = p]]
    BY <1>2 DEF SetDesiredListingPrice
  <2>2. [position[c] EXCEPT !.desired = p] \in Position
    BY <1>a DEF Position
  <2>3. position' \in [Card -> Position]
    BY <1>a, <2>1, <2>2
  <2> QED BY <1>a, <1>2, <2>3 DEF TypeOK, SetDesiredListingPrice, Tick
<1>3. ASSUME NEW c \in Card, NEW q \in Quantity, NEW p \in Price,
             NEW at \in TradeTimes, RecordPurchase(c, q, p, at)
      PROVE  TypeOK'
  <2> DEFINE total == q * p
  <2>1. q \in Nat \ {0} /\ total \in Nat /\ at \in Nat
    BY <1>a, TradeAmounts, TradeTimesType
  <2>2. Bought(position[c], q, total) \in Position
    BY <1>a, <2>1, BoughtType
  <2>3. AfterPurchase(evidence[c], p, q, at) \in Seq(Observation)
    BY <1>a, <2>1, AfterPurchaseType
  <2>4. /\ now' = now + 1
        /\ account.coins >= total
        /\ position' = [position EXCEPT ![c] = Bought(@, q, total)]
        /\ account' = [account EXCEPT !.coins = @ - total]
        /\ book' = [book EXCEPT !.flow = @ - total, !.paid = @ + total]
        /\ trades' = [trades EXCEPT ![c] = [trades[c] EXCEPT !.bought = @ + q]]
        /\ evidence' = [evidence EXCEPT ![c] = AfterPurchase(@, p, q, at)]
    BY <1>3 DEF RecordPurchase, Tick
  <2> HIDE DEF total
  <2>a. /\ account.coins - total \in Nat
        /\ book.flow - total \in Int /\ book.paid + total \in Nat
    BY <1>b, <2>1, <2>4
  <2>5. account' \in Account
    BY <1>a, <2>a, <2>4 DEF Account
  <2>6. book' \in Totals
    BY <1>a, <2>a, <2>4 DEF Totals
  <2>b. trades[c].bought + q \in Nat
    BY <1>a, <2>1 DEF Traded
  <2>7. [trades[c] EXCEPT !.bought = @ + q] \in Traded
    BY <1>a, <2>b DEF Traded
  <2>8. /\ position' \in [Card -> Position] /\ evidence' \in [Card -> Seq(Observation)]
        /\ trades' \in [Card -> Traded] /\ now' \in Nat
    BY <1>a, <2>2, <2>3, <2>4, <2>7
  <2> QED BY <2>5, <2>6, <2>8 DEF TypeOK
<1>4. ASSUME NEW c \in Card, NEW q \in Quantity, NEW p \in Price, RecordSale(c, q, p)
      PROVE  TypeOK'
  <2> DEFINE gross == q * p
             tax == Tax(gross)
             basis == position[c].average * q
  <2>1. q \in Nat \ {0} /\ gross \in Nat
    BY TradeAmounts
  <2>2. tax \in Nat /\ gross - tax \in Nat
    BY <2>1, TaxWithinGross
  <2>3. position[c] \in Position /\ position[c].average \in Nat
    BY <1>a DEF Position
  <2>4. basis \in Nat
    BY <2>1, <2>3, Products
  <2>5. Sold(position[c], q) \in Position
    BY <1>4, <2>1, <2>3, SoldType DEF RecordSale
  <2>6. /\ now' = now + 1 /\ evidence' = evidence
        /\ position' = [position EXCEPT ![c] = Sold(@, q)]
        /\ account' = [coins |-> account.coins + (gross - tax),
                       realized |-> account.realized + (gross - tax - basis),
                       tax |-> account.tax + tax]
        /\ book' = [book EXCEPT !.flow = @ + (gross - tax),
                                !.realized = @ + (gross - tax - basis),
                                !.tax = @ + tax, !.released = @ + basis]
        /\ trades' = [trades EXCEPT ![c] = [trades[c] EXCEPT !.sold = @ + q]]
    BY <1>4 DEF RecordSale, Tick
  <2> HIDE DEF gross, basis, tax
  <2>7. account' \in Account
    BY <1>b, <2>1, <2>2, <2>4, <2>6 DEF Account
  <2>a. /\ book.flow + (gross - tax) \in Int /\ book.tax + tax \in Nat
        /\ book.realized + (gross - tax - basis) \in Int
        /\ book.released + basis \in Nat
    BY <1>b, <2>1, <2>2, <2>4
  <2>8. book' \in Totals
    BY <1>a, <2>a, <2>6 DEF Totals
  <2>9. [trades[c] EXCEPT !.sold = @ + q] \in Traded
    BY <1>a, <2>1 DEF Traded
  <2>10. /\ position' \in [Card -> Position] /\ trades' \in [Card -> Traded]
         /\ now' \in Nat
    BY <1>a, <2>5, <2>6, <2>9
  <2> QED BY <1>a, <2>6, <2>7, <2>8, <2>10 DEF TypeOK
<1>5. ASSUME NEW c \in Card, NEW listings \in Books, NEW typed \in Price \cup {None},
             NEW at \in 1..now, ObserveListings(c, listings, typed, at)
      PROVE  TypeOK'
  <2> DEFINE row == [type |-> "check", at |-> at, checked |-> at, listings |-> listings,
                     lowest |-> IF typed # None THEN typed ELSE LowestOf(listings)]
  <2>1. listings \in [Price -> Nat] /\ at \in Nat
    BY LedgerAssumption DEF TypeOK
  <2>2. row \in Observation
    BY <2>1, LowestOfListings DEF Observation
  <2>3. Append(evidence[c], row) \in Seq(Observation)
    BY <2>2, AppendProperties DEF TypeOK
  <2>4. /\ now' = now + 1 /\ UNCHANGED <<account, position, book, trades>>
        /\ evidence' = [evidence EXCEPT ![c] = Append(@, row)]
    BY <1>5 DEF ObserveListings, Tick
  <2> HIDE DEF row
  <2> QED BY <2>3, <2>4 DEF TypeOK
<1>6. CASE UNCHANGED vars
  BY <1>6 DEF TypeOK, vars
<1> QED
  BY <1>1, <1>2, <1>3, <1>4, <1>5, <1>6 DEF Next

(* No sequence of requests overdraws the account or takes a row out of its *)
(* type.                                                                   *)
THEOREM TypeCorrect == Spec => []TypeOK
<1>1. Init => TypeOK
  BY TypeInitially
<1>2. TypeOK /\ [Next]_vars => TypeOK'
  BY TypePreserved
<1> QED
  BY <1>1, <1>2, PTL DEF Spec

-----------------------------------------------------------------------------
(* Position rows follow the transactions.                                  *)

(* What must hold of one position row and the sums of its transactions.    *)
RowFollows(pos, t) ==
  /\ pos.quantity = t.bought - t.sold
  /\ pos.quantity > 0 <=> pos.status = "open"
  /\ pos.quantity = 0 => pos.cost = 0 /\ pos.average = 0
  /\ 2 * (pos.cost - pos.average * pos.quantity) <= pos.quantity
  /\ 2 * (pos.average * pos.quantity - pos.cost) <= pos.quantity

LEMMA BoughtFollows ==
  ASSUME NEW pos \in Position, NEW t \in Traded, RowFollows(pos, t),
         NEW q \in Nat \ {0}, NEW total \in Nat
  PROVE  RowFollows(Bought(pos, q, total), [t EXCEPT !.bought = @ + q])
<1> DEFINE cost == pos.cost + total
           copies == pos.quantity + q
           average == RoundHalfEven(cost, copies)
           new == Bought(pos, q, total)
           u == [t EXCEPT !.bought = @ + q]
<1>1. cost \in Nat /\ copies \in Nat \ {0}
  BY DEF Position
<1>2. /\ average \in Nat
      /\ 2 * (cost - average * copies) <= copies
      /\ 2 * (average * copies - cost) <= copies
  BY <1>1, RoundHalfEvenNearest
<1>3. /\ new.quantity = copies /\ new.cost = cost /\ new.average = average
      /\ new.status = "open"
  BY DEF Bought, Position
<1>4. u.bought = t.bought + q /\ u.sold = t.sold /\ t.bought \in Nat /\ t.sold \in Nat
  BY DEF Traded
<1>5. copies = u.bought - u.sold
  BY <1>4 DEF RowFollows
<1> HIDE DEF cost, copies, average, new, u
<1>6. RowFollows(new, u)
  BY <1>1, <1>2, <1>3, <1>5 DEF RowFollows
<1> QED
  BY <1>6 DEF new, u

LEMMA SoldFollows ==
  ASSUME NEW pos \in Position, NEW t \in Traded, RowFollows(pos, t),
         NEW q \in Nat \ {0}, pos.quantity >= q
  PROVE  RowFollows(Sold(pos, q), [t EXCEPT !.sold = @ + q])
<1> DEFINE left == pos.quantity - q
           new == Sold(pos, q)
           u == [t EXCEPT !.sold = @ + q]
<1>1. pos.quantity \in Nat /\ left \in Nat /\ pos.average \in Nat
  BY DEF Position
<1>2. u.bought = t.bought /\ u.sold = t.sold + q /\ t.bought \in Nat /\ t.sold \in Nat
  BY DEF Traded
<1>3. left = u.bought - u.sold
  BY <1>2 DEF RowFollows
<1>4. ASSUME pos.quantity = q PROVE RowFollows(new, u)
  <2>1. new.quantity = 0 /\ new.cost = 0 /\ new.average = 0 /\ new.status = "closed"
    BY <1>4 DEF Sold, NoPosition
  <2>2. left = 0
    BY <1>1, <1>4
  <2> HIDE DEF left, new, u
  <2> QED BY <1>3, <2>1, <2>2 DEF RowFollows
<1>5. ASSUME pos.quantity # q PROVE RowFollows(new, u)
  <2>1. /\ new.quantity = left /\ new.cost = pos.average * left
        /\ new.average = pos.average /\ new.status = pos.status
    BY <1>5 DEF Sold, Position
  <2>2. left \in Nat \ {0} /\ pos.status = "open"
    BY <1>1, <1>5 DEF RowFollows
  <2>3. pos.average * left \in Nat
    BY <1>1, Products
  <2> HIDE DEF left, new, u
  <2>4. new.cost = new.average * new.quantity /\ new.cost \in Nat
    BY <2>1, <2>3
  <2>5. /\ 2 * (new.cost - new.average * new.quantity) <= new.quantity
        /\ 2 * (new.average * new.quantity - new.cost) <= new.quantity
    <3> DEFINE a == new.cost
               b == new.average * new.quantity
    <3>1. a = b /\ a \in Nat /\ new.quantity \in Nat
      BY <2>1, <2>2, <2>4
    <3> HIDE DEF a, b
    <3>2. 2 * (a - b) <= new.quantity /\ 2 * (b - a) <= new.quantity
      BY <3>1
    <3> QED BY <3>2, Zenon DEF a, b
  <2> QED BY <1>3, <2>1, <2>2, <2>5 DEF RowFollows
<1> QED
  BY <1>4, <1>5

LEMMA PositionsFollowTradesRows ==
  PositionsFollowTrades <=> \A c \in Card : RowFollows(position[c], trades[c])
BY DEF PositionsFollowTrades, RowFollows

LEMMA PositionsInitially == Init => PositionsFollowTrades
<1> SUFFICES ASSUME Init, NEW c \in Card PROVE RowFollows(position[c], trades[c])
  BY PositionsFollowTradesRows
<1>1. /\ position[c].quantity = 0 /\ position[c].cost = 0 /\ position[c].average = 0
      /\ position[c].status = "none"
      /\ trades[c].bought = 0 /\ trades[c].sold = 0
  BY DEF Init, NoPosition
<1>2. position[c].average * position[c].quantity = 0
  BY <1>1
<1> QED BY <1>1, <1>2 DEF RowFollows

LEMMA PositionsPreserved ==
  TypeOK /\ PositionsFollowTrades /\ [Next]_vars => PositionsFollowTrades'
<1> SUFFICES ASSUME TypeOK, PositionsFollowTrades, [Next]_vars
             PROVE  \A c \in Card : RowFollows(position'[c], trades'[c])
  BY DEF PositionsFollowTrades, RowFollows
<1>a. \A c \in Card : RowFollows(position[c], trades[c])
  BY PositionsFollowTradesRows
<1>b. position \in [Card -> Position] /\ trades \in [Card -> Traded]
  BY DEF TypeOK
<1>1. ASSUME NEW coins \in Balance, SetCoinBalance(coins)
      PROVE  \A c \in Card : RowFollows(position'[c], trades'[c])
  BY <1>1, <1>a DEF SetCoinBalance
<1>2. ASSUME NEW c \in Card, NEW p \in Price \cup {None}, SetDesiredListingPrice(c, p)
      PROVE  \A d \in Card : RowFollows(position'[d], trades'[d])
  <2>1. trades' = trades /\ position' = [position EXCEPT ![c].desired = p]
    BY <1>2 DEF SetDesiredListingPrice
  <2>2. \A d \in Card : /\ position'[d].quantity = position[d].quantity
                        /\ position'[d].cost = position[d].cost
                        /\ position'[d].average = position[d].average
                        /\ position'[d].status = position[d].status
    BY <1>b, <2>1 DEF Position
  <2> QED
    BY <1>a, <2>1, <2>2 DEF RowFollows
<1>3. ASSUME NEW c \in Card, NEW q \in Quantity, NEW p \in Price,
             NEW at \in TradeTimes, RecordPurchase(c, q, p, at)
      PROVE  \A d \in Card : RowFollows(position'[d], trades'[d])
  <2>1. /\ position' = [position EXCEPT ![c] = Bought(@, q, q * p)]
        /\ trades' = [trades EXCEPT ![c] = [trades[c] EXCEPT !.bought = @ + q]]
    BY <1>3 DEF RecordPurchase
  <2>2. RowFollows(Bought(position[c], q, q * p), [trades[c] EXCEPT !.bought = @ + q])
    BY <1>a, <1>b, TradeAmounts, BoughtFollows
  <2> QED
    BY <1>a, <1>b, <2>1, <2>2
<1>4. ASSUME NEW c \in Card, NEW q \in Quantity, NEW p \in Price, RecordSale(c, q, p)
      PROVE  \A d \in Card : RowFollows(position'[d], trades'[d])
  <2>1. /\ position[c].quantity >= q
        /\ position' = [position EXCEPT ![c] = Sold(@, q)]
        /\ trades' = [trades EXCEPT ![c] = [trades[c] EXCEPT !.sold = @ + q]]
    BY <1>4 DEF RecordSale
  <2>2. RowFollows(Sold(position[c], q), [trades[c] EXCEPT !.sold = @ + q])
    BY <1>a, <1>b, <2>1, TradeAmounts, SoldFollows
  <2> QED
    BY <1>a, <1>b, <2>1, <2>2
<1>5. ASSUME NEW c \in Card, NEW listings \in Books, NEW typed \in Price \cup {None},
             NEW at \in 1..now, ObserveListings(c, listings, typed, at)
      PROVE  \A d \in Card : RowFollows(position'[d], trades'[d])
  BY <1>5, <1>a DEF ObserveListings
<1>6. CASE UNCHANGED vars
  BY <1>6, <1>a DEF vars
<1> QED
  BY <1>1, <1>2, <1>3, <1>4, <1>5, <1>6 DEF Next

(* For every set of cards, prices and quantities: each position row holds  *)
(* exactly the copies bought and not sold, is open exactly when there are  *)
(* some, and its cost basis stays within half a coin per copy of its       *)
(* rounded average.                                                        *)
THEOREM PositionsCorrect == Spec => []PositionsFollowTrades
BY PositionsInitially, TypeCorrect, PositionsPreserved, PTL DEF Spec

-----------------------------------------------------------------------------
(* The account row follows the transactions.                               *)

LEMMA CashPreserved == TypeOK /\ CashIdentity /\ [Next]_vars => CashIdentity'
<1> SUFFICES ASSUME TypeOK, CashIdentity, [Next]_vars PROVE CashIdentity'
  OBVIOUS
<1>a. /\ account.coins \in Int /\ account.realized \in Int /\ account.tax \in Int
      /\ book.adjusted \in Int /\ book.paid \in Int /\ book.released \in Int
      /\ account = [coins |-> account.coins, realized |-> account.realized,
                    tax |-> account.tax]
      /\ book = [flow |-> book.flow, adjusted |-> book.adjusted,
                 realized |-> book.realized, tax |-> book.tax,
                 paid |-> book.paid, released |-> book.released]
  BY DEF TypeOK, Account, Totals
<1>b. /\ account.coins = book.flow /\ account.realized = book.realized
      /\ account.tax = book.tax
      /\ account.coins + book.paid - book.released = book.adjusted + book.realized
  BY DEF CashIdentity
<1>1. ASSUME NEW coins \in Balance, SetCoinBalance(coins)
      PROVE  CashIdentity'
  <2>1. coins \in Int
    BY LedgerAssumption
  <2> QED BY <1>1, <1>a, <1>b, <2>1 DEF SetCoinBalance, CashIdentity
<1>2. ASSUME NEW c \in Card, NEW p \in Price \cup {None}, SetDesiredListingPrice(c, p)
      PROVE  CashIdentity'
  BY <1>2 DEF SetDesiredListingPrice, CashIdentity
<1>3. ASSUME NEW c \in Card, NEW q \in Quantity, NEW p \in Price,
             NEW at \in TradeTimes, RecordPurchase(c, q, p, at)
      PROVE  CashIdentity'
  <2> DEFINE total == q * p
  <2>1. total \in Int
    BY TradeAmounts
  <2>2. /\ account' = [account EXCEPT !.coins = @ - total]
        /\ book' = [book EXCEPT !.flow = @ - total, !.paid = @ + total]
    BY <1>3 DEF RecordPurchase
  <2> HIDE DEF total
  <2> QED BY <1>a, <1>b, <2>1, <2>2 DEF CashIdentity
<1>4. ASSUME NEW c \in Card, NEW q \in Quantity, NEW p \in Price, RecordSale(c, q, p)
      PROVE  CashIdentity'
  <2> DEFINE gross == q * p
             tax == Tax(gross)
             basis == position[c].average * q
  <2>1. gross \in Int /\ tax \in Int
    BY TradeAmounts, TaxWithinGross
  <2>2. basis \in Int
    BY TradeAmounts, Products DEF TypeOK, Position
  <2>3. /\ account' = [coins |-> account.coins + (gross - tax),
                       realized |-> account.realized + (gross - tax - basis),
                       tax |-> account.tax + tax]
        /\ book' = [book EXCEPT !.flow = @ + (gross - tax),
                                !.realized = @ + (gross - tax - basis),
                                !.tax = @ + tax, !.released = @ + basis]
    BY <1>4 DEF RecordSale
  <2> HIDE DEF gross, tax, basis
  <2> QED BY <1>a, <1>b, <2>1, <2>2, <2>3 DEF CashIdentity
<1>5. ASSUME NEW c \in Card, NEW listings \in Books, NEW typed \in Price \cup {None},
             NEW at \in 1..now, ObserveListings(c, listings, typed, at)
      PROVE  CashIdentity'
  BY <1>5 DEF ObserveListings, CashIdentity
<1>6. CASE UNCHANGED vars
  BY <1>6 DEF vars, CashIdentity
<1> QED
  BY <1>1, <1>2, <1>3, <1>4, <1>5, <1>6 DEF Next

(* The coins are the sum of the net coin flows, the realized profit and    *)
(* the tax are the sums of their columns, and the coins tied up in cost    *)
(* basis separate cash from adjustments plus realized profit.              *)
THEOREM CashCorrect == Spec => []CashIdentity
<1>1. Init => CashIdentity
  BY DEF Init, CashIdentity
<1> QED
  BY <1>1, TypeCorrect, CashPreserved, PTL DEF Spec

-----------------------------------------------------------------------------
(* Coins move between cash and cost basis exactly, up to the rounding of   *)
(* the average price on a sale.                                            *)

(* What a step may do to one card's row: the part of BasisDriftBounded.    *)
DriftBounded(c) ==
  LET drift == (book'.paid - book.paid) - (book'.released - book.released)
                 - (position'[c].cost - position[c].cost)
  IN /\ 2 * drift <= position[c].quantity
     /\ -2 * drift <= position[c].quantity
     /\ trades'[c].sold = trades[c].sold => drift = 0

LEMMA DriftStep ==
  ASSUME TypeOK, PositionsFollowTrades, [Next]_vars,
         NEW d \in Card, position'[d] # position[d]
  PROVE  DriftBounded(d)
<1>a. /\ position[d] \in Position /\ RowFollows(position[d], trades[d])
      /\ position \in [Card -> Position] /\ trades \in [Card -> Traded]
  BY PositionsFollowTradesRows DEF TypeOK
<1>b. /\ position[d].quantity \in Nat /\ position[d].cost \in Nat
      /\ position[d].average \in Nat
      /\ book \in Totals /\ book.paid \in Int /\ book.released \in Int
  BY <1>a DEF TypeOK, Position, Totals
<1>1. ASSUME NEW coins \in Balance, SetCoinBalance(coins)
      PROVE  FALSE
  BY <1>1 DEF SetCoinBalance
<1>2. ASSUME NEW c \in Card, NEW p \in Price \cup {None}, SetDesiredListingPrice(c, p)
      PROVE  DriftBounded(d)
  <2>1. /\ position'[d].cost = position[d].cost /\ book' = book
    BY <1>2, <1>a DEF SetDesiredListingPrice, Position
  <2> QED BY <1>b, <2>1 DEF DriftBounded
<1>3. ASSUME NEW c \in Card, NEW q \in Quantity, NEW p \in Price,
             NEW at \in TradeTimes, RecordPurchase(c, q, p, at)
      PROVE  DriftBounded(d)
  <2> DEFINE total == q * p
  <2>1. total \in Nat
    BY TradeAmounts
  <2>2. /\ book' = [book EXCEPT !.flow = @ - total, !.paid = @ + total]
        /\ position' = [position EXCEPT ![c] = Bought(@, q, total)]
    BY <1>3 DEF RecordPurchase
  <2>3. d = c
    BY <1>a, <2>2
  <2>4. position'[d].cost = position[d].cost + total
    BY <1>a, <2>2, <2>3 DEF Bought, Position
  <2> HIDE DEF total
  <2>5. book'.paid = book.paid + total /\ book'.released = book.released
    BY <1>b, <2>2 DEF Totals
  <2> QED BY <1>b, <2>1, <2>4, <2>5 DEF DriftBounded
<1>4. ASSUME NEW c \in Card, NEW q \in Quantity, NEW p \in Price, RecordSale(c, q, p)
      PROVE  DriftBounded(d)
  <2> DEFINE pos == position[d]
             basis == pos.average * q
             held == pos.average * pos.quantity
             left == pos.average * (pos.quantity - q)
  <2>1. /\ position' = [position EXCEPT ![c] = Sold(@, q)]
        /\ trades' = [trades EXCEPT ![c] = [trades[c] EXCEPT !.sold = @ + q]]
        /\ position[c].quantity >= q /\ q \in Nat \ {0}
        /\ book'.paid = book.paid
        /\ book'.released = book.released + position[c].average * q
    BY <1>4, <1>b, TradeAmounts DEF RecordSale, Totals
  <2>2. d = c
    BY <1>a, <2>1
  <2>3. trades'[d].sold # trades[d].sold
    <3>1. trades[d] \in Traded /\ trades[d].sold \in Nat
      BY <1>a DEF Traded
    <3>2. trades'[d].sold = trades[d].sold + q
      BY <1>a, <2>1, <2>2, <3>1 DEF Traded
    <3> QED BY <2>1, <3>1, <3>2
  <2>4. /\ basis \in Nat /\ held \in Nat /\ left \in Nat
        /\ held = basis + left
    <3>1. pos.quantity - q \in Nat
      BY <1>b, <2>1, <2>2
    <3> QED BY <1>b, <2>1, <3>1, Products
  <2>5. position'[d].cost = left
    <3>1. position'[d] = Sold(pos, q)
      BY <1>a, <2>1, <2>2
    <3>2. CASE pos.quantity = q
      BY <1>b, <3>1, <3>2 DEF Sold, NoPosition
    <3>3. CASE pos.quantity # q
      BY <1>a, <3>1, <3>3 DEF Sold, Position
    <3> QED BY <3>2, <3>3
  <2>6. 2 * (pos.cost - held) <= pos.quantity /\ 2 * (held - pos.cost) <= pos.quantity
    BY <1>a DEF RowFollows
  <2> DEFINE cost == pos.cost
             quantity == pos.quantity
             paid == book.paid
             released == book.released
  <2>7. /\ book'.paid = paid /\ book'.released = released + basis
        /\ cost \in Nat /\ quantity \in Nat /\ paid \in Int /\ released \in Int
        /\ 2 * (cost - held) <= quantity /\ 2 * (held - cost) <= quantity
    BY <1>b, <2>1, <2>2, <2>6
  <2> DEFINE drift == (book'.paid - paid) - (book'.released - released)
                        - (position'[d].cost - cost)
  <2> HIDE DEF basis, held, left, cost, quantity, paid, released
  <2>8. drift = cost - held
    BY <2>4, <2>5, <2>7
  <2>9. 2 * drift <= quantity /\ -2 * drift <= quantity
    BY <2>4, <2>7, <2>8
  <2> QED BY <2>3, <2>9, Zenon DEF DriftBounded, cost, quantity, paid, released
<1>5. ASSUME NEW c \in Card, NEW listings \in Books, NEW typed \in Price \cup {None},
             NEW at \in 1..now, ObserveListings(c, listings, typed, at)
      PROVE  FALSE
  BY <1>5 DEF ObserveListings
<1>6. CASE UNCHANGED vars
  BY <1>6 DEF vars
<1> QED
  BY <1>1, <1>2, <1>3, <1>4, <1>5, <1>6 DEF Next

(* Whatever is traded, a purchase moves exactly its cost into the cost     *)
(* basis and a sale misses at most half a coin per copy held.              *)
THEOREM BasisDriftCorrect == Spec => BasisDriftBounded
<1>1. TypeOK /\ PositionsFollowTrades /\ [Next]_vars
        => [\A c \in Card : position'[c] # position[c] => DriftBounded(c)]_vars
  BY DriftStep
<1>2. BasisDriftBounded
        <=> [][\A c \in Card : position'[c] # position[c] => DriftBounded(c)]_vars
  BY PTL DEF BasisDriftBounded, DriftBounded
<1> QED
  BY <1>1, <1>2, TypeCorrect, PositionsCorrect, PTL DEF Spec

-----------------------------------------------------------------------------
(* Derived order books come from market checks.                            *)

(* The row was checked at the time of a market check among the rows and    *)
(* lists no more than it.                                                  *)
Backed(row, rows, i) ==
  \E j \in 1..i : /\ rows[j].type = "check"
                  /\ rows[j].at = row.checked
                  /\ \A p \in Price : row.listings[p] <= rows[j].listings[p]

AllBacked(rows) == \A i \in DOMAIN rows : Backed(rows[i], rows, i)

LEMMA DerivedBooksShrinkRows ==
  DerivedBooksShrink <=> \A c \in Card : AllBacked(evidence[c])
BY DEF DerivedBooksShrink, AllBacked, Backed

(* Appending a backed row keeps every row backed.                          *)
LEMMA AppendBacked ==
  ASSUME NEW rows \in Seq(Observation), AllBacked(rows), NEW row \in Observation,
         Backed(row, Append(rows, row), Len(rows) + 1)
  PROVE  AllBacked(Append(rows, row))
<1> DEFINE new == Append(rows, row)
<1>1. /\ new \in Seq(Observation) /\ Len(new) = Len(rows) + 1
      /\ \A i \in 1..Len(rows) : new[i] = rows[i]
      /\ new[Len(rows) + 1] = row
  BY AppendProperties
<1>2. DOMAIN new = 1..(Len(rows) + 1) /\ DOMAIN rows = 1..Len(rows) /\ Len(rows) \in Nat
  BY <1>1, LenProperties
<1> HIDE DEF new
<1>3. \A i \in 1..Len(rows) : Backed(new[i], new, i)
  <2> TAKE i \in 1..Len(rows)
  <2>1. Backed(rows[i], rows, i)
    BY <1>2 DEF AllBacked
  <2>2. new[i] = rows[i] /\ \A j \in 1..i : new[j] = rows[j]
    BY <1>1, <1>2
  <2> QED BY <2>1, <2>2 DEF Backed
<1>4. Backed(new[Len(rows) + 1], new, Len(rows) + 1)
  BY <1>1 DEF new
<1>5. AllBacked(new)
  BY <1>2, <1>3, <1>4 DEF AllBacked
<1> QED
  BY <1>5 DEF new

LEMMA PurchaseBacked ==
  ASSUME NEW rows \in Seq(Observation), AllBacked(rows), NEW p \in Price,
         NEW q \in Nat, NEW at \in Nat
  PROVE  AllBacked(AfterPurchase(rows, p, q, at))
<1> DEFINE k == Latest(rows)
           last == rows[k]
           left == Remaining(last.listings, p, q)
           row == [type |-> "derived", at |-> at, checked |-> last.checked,
                   listings |-> left, lowest |-> LowestOf(left)]
           new == Append(rows, row)
<1>1. CASE AfterPurchase(rows, p, q, at) = rows
  BY <1>1
<1>2. CASE rows # <<>> /\ AfterPurchase(rows, p, q, at) = new
  <2>1. k \in 1..Len(rows) /\ last \in Observation /\ Len(rows) \in Nat
    BY <1>2, LatestExists, ElementOfSeq, LenProperties
  <2>2. last.listings \in [Price -> Nat] /\ last.checked \in Nat
    BY <2>1 DEF Observation
  <2>3. /\ left \in [Price -> Nat] /\ LowestOf(left) \in Price \cup {None}
        /\ \A r \in Price : left[r] <= last.listings[r]
    BY <2>2, RemainingListings, LowestOfListings
  <2>4. row \in Observation
    BY <2>2, <2>3 DEF Observation
  <2>5. PICK j \in 1..k : /\ rows[j].type = "check"
                          /\ rows[j].at = last.checked
                          /\ \A r \in Price : last.listings[r] <= rows[j].listings[r]
    <3>1. Backed(last, rows, k)
      BY <2>1, LenProperties DEF AllBacked
    <3> QED BY <3>1 DEF Backed
  <2>6. j \in 1..Len(rows) /\ rows[j] \in Observation /\ new[j] = rows[j]
    BY <2>1, <2>4, ElementOfSeq, AppendProperties
  <2>7. rows[j].listings \in [Price -> Nat]
    BY <2>6 DEF Observation
  <2>8. \A r \in Price : left[r] <= rows[j].listings[r]
    <3> TAKE r \in Price
    <3> DEFINE a == left[r]
               b == last.listings[r]
               d == rows[j].listings[r]
    <3>1. a \in Nat /\ b \in Nat /\ d \in Nat /\ a <= b /\ b <= d
      BY <2>2, <2>3, <2>5, <2>7
    <3> HIDE DEF a, b, d
    <3>2. a <= d
      BY <3>1
    <3> QED BY <3>2 DEF a, d
  <2>9. Backed(row, new, Len(rows) + 1)
    <3>1. j \in 1..(Len(rows) + 1)
      BY <2>1, <2>6
    <3>2. new[j].type = "check" /\ new[j].at = row.checked
      BY <2>5, <2>6
    <3>3. \A r \in Price : row.listings[r] <= new[j].listings[r]
      BY <2>6, <2>8
    <3> HIDE DEF row, new
    <3> QED BY <3>1, <3>2, <3>3 DEF Backed
  <2>10. AllBacked(new)
    BY <2>4, <2>9, AppendBacked
  <2> QED BY <1>2, <2>10
<1> QED
  BY <1>1, <1>2 DEF AfterPurchase

LEMMA CheckBacked ==
  ASSUME NEW rows \in Seq(Observation), AllBacked(rows), NEW row \in Observation,
         row.type = "check", row.checked = row.at
  PROVE  AllBacked(Append(rows, row))
<1> DEFINE n == Len(rows) + 1
           new == Append(rows, row)
<1>1. n \in 1..n /\ new[n] = row
  BY AppendProperties, LenProperties
<1>2. row.listings \in [Price -> Nat]
  BY DEF Observation
<1>3. \A p \in Price : row.listings[p] <= row.listings[p]
  BY <1>2
<1>4. Backed(row, new, n)
  <2> HIDE DEF n, new
  <2> QED BY <1>1, <1>3 DEF Backed
<1> QED
  BY <1>4, AppendBacked

LEMMA BackedPreserved ==
  TypeOK /\ DerivedBooksShrink /\ [Next]_vars => DerivedBooksShrink'
<1> SUFFICES ASSUME TypeOK, DerivedBooksShrink, [Next]_vars
             PROVE  \A c \in Card : AllBacked(evidence'[c])
  BY DEF DerivedBooksShrink, AllBacked, Backed
<1>a. /\ \A c \in Card : AllBacked(evidence[c])
      /\ evidence \in [Card -> Seq(Observation)] /\ now \in Nat
  BY DerivedBooksShrinkRows DEF TypeOK
<1>1. ASSUME NEW coins \in Balance, SetCoinBalance(coins)
      PROVE  \A c \in Card : AllBacked(evidence'[c])
  BY <1>1, <1>a DEF SetCoinBalance
<1>2. ASSUME NEW c \in Card, NEW p \in Price \cup {None}, SetDesiredListingPrice(c, p)
      PROVE  \A d \in Card : AllBacked(evidence'[d])
  BY <1>2, <1>a DEF SetDesiredListingPrice
<1>3. ASSUME NEW c \in Card, NEW q \in Quantity, NEW p \in Price,
             NEW at \in TradeTimes, RecordPurchase(c, q, p, at)
      PROVE  \A d \in Card : AllBacked(evidence'[d])
  <2>1. AllBacked(AfterPurchase(evidence[c], p, q, at))
    BY <1>a, TradeAmounts, TradeTimesType, PurchaseBacked
  <2>2. evidence' = [evidence EXCEPT ![c] = AfterPurchase(@, p, q, at)]
    BY <1>3 DEF RecordPurchase
  <2> QED BY <1>a, <2>1, <2>2
<1>4. ASSUME NEW c \in Card, NEW q \in Quantity, NEW p \in Price, RecordSale(c, q, p)
      PROVE  \A d \in Card : AllBacked(evidence'[d])
  BY <1>4, <1>a DEF RecordSale
<1>5. ASSUME NEW c \in Card, NEW listings \in Books, NEW typed \in Price \cup {None},
             NEW at \in 1..now, ObserveListings(c, listings, typed, at)
      PROVE  \A d \in Card : AllBacked(evidence'[d])
  <2> DEFINE row == [type |-> "check", at |-> at, checked |-> at, listings |-> listings,
                     lowest |-> IF typed # None THEN typed ELSE LowestOf(listings)]
  <2>1. listings \in [Price -> Nat] /\ at \in Nat
    BY <1>a, LedgerAssumption
  <2>2. row \in Observation /\ row.type = "check" /\ row.checked = row.at
    BY <2>1, LowestOfListings DEF Observation
  <2>3. evidence' = [evidence EXCEPT ![c] = Append(@, row)]
    BY <1>5 DEF ObserveListings
  <2> HIDE DEF row
  <2>4. AllBacked(Append(evidence[c], row))
    BY <1>a, <2>2, CheckBacked
  <2> QED BY <1>a, <2>3, <2>4
<1>6. CASE UNCHANGED vars
  BY <1>6, <1>a DEF vars
<1> QED
  BY <1>1, <1>2, <1>3, <1>4, <1>5, <1>6 DEF Next

(* However many purchases are derived from one another, each derived order *)
(* book carries the time of a real market check and lists no more than it. *)
THEOREM DerivedBooksCorrect == Spec => []DerivedBooksShrink
<1>1. Init => DerivedBooksShrink
  BY DEF Init, DerivedBooksShrink
<1> QED
  BY <1>1, TypeCorrect, BackedPreserved, PTL DEF Spec

-----------------------------------------------------------------------------
(* Purchases take what they bought out off the page.                       *)

(* The price of a copy is what is paid divided by the copies.              *)
LEMMA PriceOfCopy ==
  ASSUME NEW q \in Nat \ {0}, NEW p \in Nat
  PROVE  (q * p) \div q = p
<1> DEFINE a == q * p
           d == a \div q
           r == a % q
<1>1. a \in Nat
  BY Products
<1>2. d \in Nat /\ r \in 0..(q - 1) /\ a = q * d + r
  <2> HIDE DEF a
  <2> QED BY <1>1, DivMod
<1> HIDE DEF d, r
<1>3. CASE p > d
  <2>1. PICK e \in Nat : p = d + 1 + e
    <3>1. p - d - 1 \in Nat /\ p = d + 1 + (p - d - 1)
      BY <1>2, <1>3
    <3> QED BY <3>1
  <2>2. q * e \in Nat /\ q * d \in Nat
    BY <1>2, Products
  <2>3. q * p = q * d + q + q * e
    BY <1>2, <2>1
  <2> QED BY <1>2, <2>2, <2>3 DEF a
<1>4. CASE p < d
  <2>1. PICK e \in Nat : d = p + 1 + e
    <3>1. d - p - 1 \in Nat /\ d = p + 1 + (d - p - 1)
      BY <1>2, <1>4
    <3> QED BY <3>1
  <2>2. q * e \in Nat /\ q * p \in Nat
    BY <1>2, <2>1, Products
  <2>3. q * d = q * p + q + q * e
    BY <1>2, <2>1
  <2> QED BY <1>2, <2>2, <2>3 DEF a
<1> QED
  BY <1>2, <1>3, <1>4 DEF d, a

(* Rows are of the past, unless trades are recorded for earlier times.     *)
RowsPast == \A c \in Card : \A i \in DOMAIN evidence[c] : evidence[c][i].at < now

LEMMA AppendPast ==
  ASSUME NEW rows \in Seq(Observation), NEW row \in Observation, NEW n \in Nat,
         \A i \in DOMAIN rows : rows[i].at < n, row.at < n
  PROVE  \A i \in DOMAIN Append(rows, row) : Append(rows, row)[i].at < n
<1>1. /\ Len(rows) \in Nat /\ DOMAIN rows = 1..Len(rows)
      /\ DOMAIN Append(rows, row) = 1..(Len(rows) + 1)
      /\ \A i \in 1..Len(rows) : Append(rows, row)[i] = rows[i]
      /\ Append(rows, row)[Len(rows) + 1] = row
  BY AppendProperties, LenProperties
<1>2. \A i \in 1..(Len(rows) + 1) : i \in 1..Len(rows) \/ i = Len(rows) + 1
  BY <1>1
<1> QED
  BY <1>1, <1>2

(* What a purchase makes of the rows, by cases.                            *)
LEMMA AfterPurchaseCases ==
  ASSUME NEW rows \in Seq(Observation), NEW p \in Price, NEW q \in Nat, NEW at \in Nat
  PROVE  \/ AfterPurchase(rows, p, q, at) = rows
         \/ \E row \in Observation :
               row.at = at /\ AfterPurchase(rows, p, q, at) = Append(rows, row)
<1>1. CASE rows = <<>>
  BY <1>1 DEF AfterPurchase
<1>2. CASE rows # <<>>
  <2> DEFINE last == rows[Latest(rows)]
             left == Remaining(last.listings, p, q)
             row == [type |-> "derived", at |-> at, checked |-> last.checked,
                     listings |-> left, lowest |-> LowestOf(left)]
  <2>1. last \in Observation
    BY <1>2, LatestExists, ElementOfSeq, LenProperties
  <2>2. last.listings \in [Price -> Nat] /\ last.checked \in Nat
    BY <2>1 DEF Observation
  <2>3. left \in [Price -> Nat] /\ LowestOf(left) \in Price \cup {None}
    BY <2>2, RemainingListings, LowestOfListings
  <2>4. row \in Observation /\ row.at = at
    BY <2>2, <2>3 DEF Observation
  <2>5. AfterPurchase(rows, p, q, at) \in {rows, Append(rows, row)}
    BY <1>2 DEF AfterPurchase
  <2> HIDE DEF row
  <2> QED
    BY <2>4, <2>5
<1> QED
  BY <1>1, <1>2

LEMMA PastPreserved ==
  ASSUME ~Backdated, TypeOK, RowsPast, [Next]_vars
  PROVE  RowsPast'
<1>a. /\ evidence \in [Card -> Seq(Observation)] /\ now \in Nat /\ now + 1 \in Nat
      /\ \A c \in Card : \A i \in DOMAIN evidence[c] : evidence[c][i].at \in Nat
  <2>1. evidence \in [Card -> Seq(Observation)] /\ now \in Nat
    BY DEF TypeOK
  <2>2. ASSUME NEW c \in Card, NEW i \in DOMAIN evidence[c] PROVE evidence[c][i].at \in Nat
    <3>1. evidence[c][i] \in Observation
      BY <2>1, ElementOfSeq, LenProperties
    <3> QED BY <3>1 DEF Observation
  <2> QED BY <2>1, <2>2
<1>b. \A c \in Card : \A i \in DOMAIN evidence[c] : evidence[c][i].at < now + 1
  BY <1>a DEF RowsPast
<1>1. ASSUME evidence' = evidence, now' = now + 1 PROVE RowsPast'
  BY <1>b, <1>1 DEF RowsPast
<1>2. ASSUME NEW c \in Card, NEW rows, evidence' = [evidence EXCEPT ![c] = rows], now' = now + 1,
             \A i \in DOMAIN rows : rows[i].at < now + 1
      PROVE  RowsPast'
  BY <1>a, <1>b, <1>2 DEF RowsPast
<1>3. ASSUME NEW coins \in Balance, SetCoinBalance(coins) PROVE RowsPast'
  BY <1>1, <1>3 DEF SetCoinBalance, Tick
<1>4. ASSUME NEW c \in Card, NEW p \in Price \cup {None}, SetDesiredListingPrice(c, p) PROVE RowsPast'
  BY <1>1, <1>4 DEF SetDesiredListingPrice, Tick
<1>5. ASSUME NEW c \in Card, NEW q \in Quantity, NEW p \in Price,
             NEW at \in TradeTimes, RecordPurchase(c, q, p, at)
      PROVE  RowsPast'
  <2> DEFINE rows == AfterPurchase(evidence[c], p, q, at)
  <2>1. at = now
    BY DEF TradeTimes
  <2>2. evidence' = [evidence EXCEPT ![c] = rows] /\ now' = now + 1
    BY <1>5 DEF RecordPurchase, Tick
  <2>3. evidence[c] \in Seq(Observation) /\ q \in Nat
    BY <1>a, TradeAmounts
  <2>4. \/ rows = evidence[c]
        \/ \E row \in Observation : row.at = now /\ rows = Append(evidence[c], row)
    BY <1>a, <2>1, <2>3, AfterPurchaseCases
  <2> HIDE DEF rows
  <2>5. \A i \in DOMAIN rows : rows[i].at < now + 1
    <3>1. CASE rows = evidence[c]
      BY <1>b, <3>1
    <3>2. ASSUME NEW row \in Observation, row.at = now, rows = Append(evidence[c], row)
          PROVE  \A i \in DOMAIN rows : rows[i].at < now + 1
      <4>1. row.at < now + 1
        BY <1>a, <3>2
      <4> QED BY <1>a, <1>b, <2>3, <3>2, <4>1, AppendPast
    <3> QED BY <2>4, <3>1, <3>2
  <2> QED BY <1>2, <2>2, <2>5
<1>6. ASSUME NEW c \in Card, NEW q \in Quantity, NEW p \in Price, RecordSale(c, q, p) PROVE RowsPast'
  BY <1>1, <1>6 DEF RecordSale, Tick
<1>7. ASSUME NEW c \in Card, NEW listings \in Books, NEW typed \in Price \cup {None},
             NEW at \in 1..now, ObserveListings(c, listings, typed, at)
      PROVE  RowsPast'
  <2> DEFINE row == [type |-> "check", at |-> at, checked |-> at, listings |-> listings,
                     lowest |-> IF typed # None THEN typed ELSE LowestOf(listings)]
  <2>1. listings \in [Price -> Nat] /\ at \in Nat /\ at < now + 1
    BY <1>a, LedgerAssumption
  <2>2. row \in Observation /\ row.at = at
    BY <2>1, LowestOfListings DEF Observation
  <2>3. evidence' = [evidence EXCEPT ![c] = Append(@, row)] /\ now' = now + 1
    BY <1>7 DEF ObserveListings, Tick
  <2> HIDE DEF row
  <2>4. \A i \in DOMAIN Append(evidence[c], row) : Append(evidence[c], row)[i].at < now + 1
    BY <1>a, <1>b, <2>1, <2>2, AppendPast
  <2> QED BY <1>2, <2>3, <2>4
<1>8. CASE UNCHANGED vars
  BY <1>8 DEF vars, RowsPast
<1> QED
  BY <1>3, <1>4, <1>5, <1>6, <1>7, <1>8 DEF Next

(* What a step may do to one card's mark: the part of the property.        *)
LeavesMark(c) ==
  LET copies   == trades'[c].bought - trades[c].bought
      price    == (book'.paid - book.paid) \div copies
      listings == evidence[c][Latest(evidence[c])].listings
  IN listings[price] \in 1..copies =>
       Marks(evidence'[c]) = {LowestOf([listings EXCEPT ![price] = 0])}

(* A row that is later than all before it is the mark.                     *)
LEMMA LastIsMark ==
  ASSUME NEW rows \in Seq(Observation), NEW row \in Observation,
         \A i \in DOMAIN rows : rows[i].at < row.at
  PROVE  Marks(Append(rows, row)) = {row.lowest}
<1> DEFINE more == Append(rows, row)
           n == Len(rows) + 1
           newest == {k \in DOMAIN more : \A j \in DOMAIN more : more[j].at <= more[k].at}
<1>1. /\ Len(rows) \in Nat /\ DOMAIN rows = 1..Len(rows)
      /\ DOMAIN more = 1..n
      /\ \A i \in 1..Len(rows) : more[i] = rows[i]
      /\ more[n] = row /\ row.at \in Nat
  BY AppendProperties, LenProperties DEF Observation
<1>2. \A i \in 1..Len(rows) : rows[i].at \in Nat
  <2> TAKE i \in 1..Len(rows)
  <2>1. rows[i] \in Observation
    BY ElementOfSeq
  <2> QED BY <2>1 DEF Observation
<1>3. n \in 1..n /\ \A i \in 1..n : i \in 1..Len(rows) \/ i = n
  BY <1>1
<1> HIDE DEF more, n
<1>a. \A s, r \in Nat : s < r => s <= r /\ ~(r <= s)
  OBVIOUS
<1>b. \A i \in 1..Len(rows) : rows[i].at <= row.at /\ ~(row.at <= rows[i].at)
  BY <1>1, <1>2, <1>a, Zenon
<1>4. \A j \in 1..n : more[j].at <= row.at
  <2>1. row.at <= row.at
    BY <1>1
  <2> QED BY <1>1, <1>3, <1>b, <2>1, Zenon
<1>5. \A k \in 1..Len(rows) : ~(more[n].at <= more[k].at)
  BY <1>1, <1>b, Zenon
<1>6. n \in newest
  BY <1>1, <1>3, <1>4
<1>7. \A k \in newest : k = n
  BY <1>1, <1>3, <1>5
<1>8. newest = {n}
  BY <1>6, <1>7
<1>9. Marks(more) = {more[k].lowest : k \in newest}
  BY DEF Marks
<1> HIDE DEF newest
<1> QED
  BY <1>1, <1>8, <1>9 DEF more

LEMMA BoughtOutStep ==
  ASSUME ~Backdated, TypeOK, RowsPast, [Next]_vars, NEW d \in Card,
         trades'[d].bought # trades[d].bought, evidence[d] # <<>>
  PROVE  LeavesMark(d)
<1>a. /\ evidence[d] \in Seq(Observation) /\ evidence \in [Card -> Seq(Observation)]
      /\ trades \in [Card -> Traded] /\ trades[d].bought \in Nat
      /\ book \in Totals /\ book.paid \in Nat /\ now \in Nat
  BY DEF TypeOK, Traded, Totals
<1>1. PICK c \in Card, q \in Quantity, p \in Price, at \in TradeTimes : RecordPurchase(c, q, p, at)
  <2>1. ASSUME NEW c \in Card, NEW q \in Quantity, NEW p \in Price, RecordSale(c, q, p) PROVE FALSE
    BY <1>a, <2>1 DEF RecordSale, Traded
  <2> QED
    BY <2>1 DEF Next, vars, SetCoinBalance, SetDesiredListingPrice, ObserveListings
<1>2. d = c
  BY <1>1, <1>a DEF RecordPurchase
<1>3. q \in Nat \ {0} /\ p \in Nat \ {0} /\ q * p \in Nat /\ at = now
  BY TradeAmounts DEF TradeTimes
<1>4. /\ trades'[d].bought - trades[d].bought = q
      /\ book'.paid - book.paid = q * p
  <2>1. trades'[d].bought = trades[d].bought + q /\ book'.paid = book.paid + q * p
    BY <1>1, <1>2, <1>a DEF RecordPurchase, Traded, Totals
  <2> DEFINE total == q * p
             paid == book.paid
  <2>2. book'.paid = paid + total /\ paid \in Nat /\ total \in Nat
    BY <1>3, <1>a, <2>1
  <2> HIDE DEF total, paid
  <2>3. book'.paid - paid = total
    BY <2>2
  <2>4. book'.paid - book.paid = q * p
    BY <2>3 DEF total, paid
  <2>5. trades'[d].bought - trades[d].bought = q
    <3> DEFINE had == trades[d].bought
    <3>1. trades'[d].bought = had + q /\ had \in Nat /\ q \in Nat
      BY <1>3, <1>a, <2>1
    <3> HIDE DEF had
    <3>2. trades'[d].bought - had = q
      BY <3>1
    <3> QED BY <3>2 DEF had
  <2> QED BY <2>4, <2>5
<1>5. (book'.paid - book.paid) \div (trades'[d].bought - trades[d].bought) = p
  <2>1. q \in Nat \ {0} /\ p \in Nat
    BY <1>3
  <2>2. (q * p) \div q = p
    BY <2>1, PriceOfCopy, Zenon
  <2> QED
    BY <1>4, <2>2, Zenon
<1> DEFINE last == evidence[d][Latest(evidence[d])]
           left == Remaining(last.listings, p, q)
           row == [type |-> "derived", at |-> now, checked |-> last.checked,
                   listings |-> left, lowest |-> LowestOf(left)]
<1> SUFFICES ASSUME last.listings[p] \in 1..q
             PROVE  Marks(evidence'[d]) = {LowestOf([last.listings EXCEPT ![p] = 0])}
  BY <1>4, <1>5 DEF LeavesMark
<1>6. last \in Observation
  BY <1>a, LatestExists, ElementOfSeq, LenProperties
<1>7. last.listings \in [Price -> Nat] /\ last.checked \in Nat
  BY <1>6 DEF Observation
<1>8. left \in [Price -> Nat] /\ LowestOf(left) \in Price \cup {None}
  BY <1>3, <1>7, RemainingListings, LowestOfListings
<1>9. row \in Observation /\ row.at = now /\ row.lowest = LowestOf(left)
  BY <1>a, <1>7, <1>8 DEF Observation
<1>10. last.listings[p] # 0 /\ ~(last.listings[p] > q)
  BY <1>3, <1>7
<1>11. left = [last.listings EXCEPT ![p] = 0]
  BY <1>10 DEF Remaining
<1>12. evidence'[d] = Append(evidence[d], row)
  <2>1. evidence'[d] = AfterPurchase(evidence[d], p, q, now)
    BY <1>1, <1>2, <1>3, <1>a DEF RecordPurchase
  <2> QED BY <1>10, <2>1 DEF AfterPurchase
<1>13. \A i \in DOMAIN evidence[d] : evidence[d][i].at < now
  BY DEF RowsPast
<1> HIDE DEF row, left, last
<1>14. Marks(evidence'[d]) = {row.lowest}
  BY <1>a, <1>9, <1>12, <1>13, LastIsMark
<1> QED
  BY <1>9, <1>11, <1>14

(* When trades are recorded as they happen, buying every copy listed at a  *)
(* price takes it off the page: the derived row is the latest, and what is *)
(* left of the order book gives the mark.                                  *)
THEOREM BoughtOutCorrect ==
  ASSUME ~Backdated
  PROVE  Spec => BoughtOutListingLeavesMark
<1>1. Init => RowsPast
  BY DEF Init, RowsPast
<1>2. TypeOK /\ RowsPast /\ [Next]_vars => RowsPast'
  BY PastPreserved
<1>3. TypeOK /\ RowsPast /\ [Next]_vars
        => [\A c \in Card : trades'[c].bought # trades[c].bought /\ evidence[c] # <<>>
                              => LeavesMark(c)]_vars
  BY BoughtOutStep
<1>4. BoughtOutListingLeavesMark
        <=> [][\A c \in Card : trades'[c].bought # trades[c].bought /\ evidence[c] # <<>>
                                 => LeavesMark(c)]_vars
  BY PTL DEF BoughtOutListingLeavesMark, LeavesMark
<1> QED
  BY <1>1, <1>2, <1>3, <1>4, TypeCorrect, PTL DEF Spec
=============================================================================
