--------------------- MODULE PortfolioConcurrentProofs ---------------------
(***************************************************************************)
(* Proofs about the portfolio API, for any number of request threads.      *)
(*                                                                         *)
(* CInv is inductive: every request in flight has passed the guards of its *)
(* step, and the balance it read is one that some of the committed         *)
(* requests, run one after the other, leave; so is the balance it writes,  *)
(* and while nothing was overwritten it is the one of all of them.         *)
(*                                                                         *)
(* With one thread what a request has read is what is stored (FreshInv),   *)
(* so that its last write is the step of the sequential ledger, and every  *)
(* other step stutters.                                                    *)
(*                                                                         *)
(* LockInv says who may hold which row: the account is taken last, unless  *)
(* it was just inserted, when nobody else can have a position. Hence one   *)
(* of the requests in flight is never blocked.                             *)
(***************************************************************************)
EXTENDS PortfolioConcurrent, PortfolioLedgerProofs, FiniteSetTheorems

(* What a request in flight carries.                                       *)
Steps == {"account", "insert account", "position", "insert position", "evidence",
          "write"}

Serving == [step : Steps, request : Request, at : Nat, account : Account,
            position : Position, evidence : Seq(Observation)]

(* What the guards a request has passed say of what it read: only          *)
(* purchases insert positions and read evidence, a purchase that has its   *)
(* position was affordable, a sale that is written had the copies, and a   *)
(* desired price had a row.                                                *)
Passed(x) ==
  /\ x.step \in {"insert position", "evidence"} => x.request.kind = "buy"
  /\ x.step \in {"account", "insert account"} => x.request.kind # "desired"
  /\ x.step = "position" => x.request.kind # "balance"
  /\ x.request.kind = "buy" /\ x.step \in {"insert position", "evidence", "write"}
       => Affords(x.request, x.account)
  /\ x.request.kind = "sell" /\ x.step = "write"
       => x.position.quantity >= x.request.quantity
  /\ x.request.kind = "desired" /\ x.step = "write" => x.position.status # "none"

(* A worker is idle, or serves a request whose reads were guarded and      *)
(* whose balance is one that some of the committed requests leave.         *)
WorkerOK(x) ==
  x = Idle \/ (x \in Serving /\ Passed(x) /\ x.account.coins \in serial)

CTypeOK ==
  /\ TypeOK
  /\ created \in BOOLEAN
  /\ raced \in BOOLEAN
  /\ work \in [Worker -> {Idle} \cup Serving]
  /\ serial \subseteq Int

CInv ==
  /\ CTypeOK
  /\ \A w \in Worker : WorkerOK(work[w])
  /\ LostNotInvented
  /\ NoRaceNoLoss

-----------------------------------------------------------------------------
(* What requests compute.                                                  *)

LEMMA RequestFields ==
  ASSUME NEW r \in Request
  PROVE  \/ /\ r.kind \in {"buy", "sell"}
            /\ r.card \in Card /\ r.quantity \in Quantity /\ r.price \in Price
         \/ r.kind = "desired" /\ r.card \in Card /\ r.price \in Price \cup {None}
         \/ r.kind = "balance" /\ r.coins \in Balance
BY DEF Request

(* The coins a trade moves.                                                *)
LEMMA TradeCoins ==
  ASSUME NEW r \in Request, r.kind \in {"buy", "sell"}
  PROVE  /\ r.card \in Card /\ r.quantity \in Nat \ {0} /\ r.price \in Price
         /\ Gross(r) \in Nat /\ Tax(Gross(r)) \in Nat /\ Net(r) \in Nat
<1>1. r.card \in Card /\ r.quantity \in Quantity /\ r.price \in Price
  BY RequestFields
<1>2. r.quantity \in Nat \ {0} /\ Gross(r) \in Nat
  BY <1>1, TradeAmounts DEF Gross
<1>3. Tax(Gross(r)) \in Nat /\ Tax(Gross(r)) <= Gross(r)
  BY <1>2, TaxWithinGross
<1> QED
  BY <1>1, <1>2, <1>3 DEF Net

LEMMA BasisType ==
  ASSUME NEW r \in Request, r.kind \in {"buy", "sell"}, NEW pos \in Position
  PROVE  Basis(r, pos) \in Nat
<1>1. pos.average \in Nat /\ r.quantity \in Nat
  BY TradeCoins DEF Position
<1> QED
  BY <1>1, Products DEF Basis

(* An UPDATE of the changed columns keeps the columns' types, and writes   *)
(* the whole computed row over a row that is still the one read.           *)
LEMMA MergeAccount ==
  ASSUME NEW current \in Account, NEW read \in Account, NEW written \in Account
  PROVE  /\ Merge(current, read, written) \in Account
         /\ Merge(current, current, written) = written
         /\ Merge(current, read, read) = current
         /\ Merge(current, read, written).coins
              \in {current.coins, written.coins}
BY DEF Merge, Account

LEMMA MergePosition ==
  ASSUME NEW current \in Position, NEW read \in Position, NEW written \in Position
  PROVE  /\ Merge(current, read, written) \in Position
         /\ Merge(current, current, written) = written
BY DEF Merge, Position

LEMMA NewAccountType ==
  ASSUME NEW r \in Request, NEW acc \in Account, NEW pos \in Position,
         r.kind = "buy" => Affords(r, acc)
  PROVE  NewAccount(r, acc, pos) \in Account
<1>a. acc.coins \in Nat /\ acc.realized \in Int /\ acc.tax \in Nat
  BY DEF Account
<1>1. CASE r.kind = "buy"
  <2>1. Gross(r) \in Nat /\ acc.coins - Gross(r) \in Nat
    BY <1>1, <1>a, TradeCoins DEF Affords
  <2>2. NewAccount(r, acc, pos) = [acc EXCEPT !.coins = @ - Gross(r)]
    BY <1>1 DEF NewAccount
  <2> QED BY <2>1, <2>2 DEF Account
<1>2. CASE r.kind = "sell"
  <2> DEFINE net == Net(r)
             tax == Tax(Gross(r))
             basis == Basis(r, pos)
  <2>1. net \in Nat /\ tax \in Nat /\ basis \in Nat
    BY <1>2, TradeCoins, BasisType
  <2>2. NewAccount(r, acc, pos) = [coins |-> acc.coins + net,
                                   realized |-> acc.realized + net - basis,
                                   tax |-> acc.tax + tax]
    BY <1>2 DEF NewAccount
  <2> HIDE DEF net, tax, basis
  <2> QED BY <1>a, <2>1, <2>2 DEF Account
<1>3. CASE r.kind = "balance"
  <2>1. r.coins \in Nat
    BY <1>3, RequestFields, LedgerAssumption
  <2>2. NewAccount(r, acc, pos) = [acc EXCEPT !.coins = r.coins]
    BY <1>3 DEF NewAccount
  <2> QED BY <2>1, <2>2 DEF Account
<1>4. CASE r.kind = "desired"
  BY <1>4 DEF NewAccount
<1> QED
  BY <1>1, <1>2, <1>3, <1>4, RequestFields

LEMMA NewPositionType ==
  ASSUME NEW r \in Request, NEW pos \in Position, r.kind # "balance",
         r.kind = "sell" => pos.quantity >= r.quantity
  PROVE  r.card \in Card /\ NewPosition(r, pos) \in Position
<1>1. CASE r.kind = "buy"
  BY <1>1, TradeCoins, BoughtType DEF NewPosition
<1>2. CASE r.kind = "sell"
  BY <1>2, TradeCoins, SoldType DEF NewPosition
<1>3. CASE r.kind = "desired"
  <2>1. r.card \in Card /\ r.price \in Price \cup {None}
    BY <1>3, RequestFields
  <2>2. NewPosition(r, pos) = [pos EXCEPT !.desired = r.price]
    BY <1>3 DEF NewPosition
  <2> QED BY <2>1, <2>2 DEF Position
<1> QED
  BY <1>1, <1>2, <1>3, RequestFields

(* The booked rows keep the column sums' types, and move the flow by an    *)
(* integer.                                                                *)
LEMMA BookedType ==
  ASSUME TypeOK, NEW r \in Request, NEW acc \in Account, NEW pos \in Position
  PROVE  Booked(r, acc, pos) \in Totals
<1>a. /\ book \in Totals
      /\ book.flow \in Int /\ book.adjusted \in Int /\ book.realized \in Int
      /\ book.tax \in Nat /\ book.paid \in Nat /\ book.released \in Nat
      /\ acc.coins \in Nat
  BY DEF TypeOK, Totals, Account
<1>1. CASE r.kind = "buy"
  <2>1. Gross(r) \in Nat
    BY <1>1, TradeCoins
  <2>2. Booked(r, acc, pos)
          = [book EXCEPT !.flow = @ - Gross(r), !.paid = @ + Gross(r)]
    BY <1>1 DEF Booked
  <2>3. book.flow - Gross(r) \in Int /\ book.paid + Gross(r) \in Nat
    BY <1>a, <2>1
  <2> QED BY <1>a, <2>2, <2>3 DEF Totals
<1>2. CASE r.kind = "sell"
  <2> DEFINE net == Net(r)
             tax == Tax(Gross(r))
             basis == Basis(r, pos)
  <2>1. net \in Nat /\ tax \in Nat /\ basis \in Nat
    BY <1>2, TradeCoins, BasisType
  <2>2. Booked(r, acc, pos)
          = [book EXCEPT !.flow = @ + net, !.realized = @ + net - basis,
                         !.tax = @ + tax, !.released = @ + basis]
    BY <1>2 DEF Booked
  <2> HIDE DEF net, tax, basis
  <2>3. /\ book.flow + net \in Int /\ book.realized + net - basis \in Int
        /\ book.tax + tax \in Nat /\ book.released + basis \in Nat
    BY <1>a, <2>1
  <2> QED BY <1>a, <2>2, <2>3 DEF Totals
<1>3. CASE r.kind = "balance"
  <2> DEFINE delta == r.coins - acc.coins
  <2>a. r.coins \in Nat
    BY <1>3, RequestFields, LedgerAssumption
  <2>1. delta \in Int
    BY <1>a, <2>a
  <2>2. Booked(r, acc, pos)
          = [book EXCEPT !.flow = @ + delta, !.adjusted = @ + delta]
    BY <1>3 DEF Booked
  <2> HIDE DEF delta
  <2>3. book.flow + delta \in Int /\ book.adjusted + delta \in Int
    BY <1>a, <2>1
  <2> QED BY <1>a, <2>2, <2>3 DEF Totals
<1>4. CASE r.kind = "desired"
  BY <1>4, <1>a DEF Booked
<1> QED
  BY <1>1, <1>2, <1>3, <1>4, RequestFields

LEMMA TradesAfterType ==
  ASSUME TypeOK, NEW r \in Request
  PROVE  TradesAfter(r) \in [Card -> Traded]
<1>a. trades \in [Card -> Traded]
  BY DEF TypeOK
<1>1. CASE r.kind = "buy"
  <2>1. r.card \in Card /\ r.quantity \in Nat
    BY <1>1, TradeCoins
  <2>2. TradesAfter(r)
          = [trades EXCEPT ![r.card] = [trades[r.card] EXCEPT !.bought = @ + r.quantity]]
    BY <1>1 DEF TradesAfter
  <2>3. [trades[r.card] EXCEPT !.bought = @ + r.quantity] \in Traded
    BY <1>a, <2>1 DEF Traded
  <2> QED BY <1>a, <2>1, <2>2, <2>3
<1>2. CASE r.kind = "sell"
  <2>1. r.card \in Card /\ r.quantity \in Nat
    BY <1>2, TradeCoins
  <2>2. TradesAfter(r)
          = [trades EXCEPT ![r.card] = [trades[r.card] EXCEPT !.sold = @ + r.quantity]]
    BY <1>2 DEF TradesAfter
  <2>3. [trades[r.card] EXCEPT !.sold = @ + r.quantity] \in Traded
    BY <1>a, <2>1 DEF Traded
  <2> QED BY <1>a, <2>1, <2>2, <2>3
<1>3. CASE r.kind \notin {"buy", "sell"}
  BY <1>3, <1>a DEF TradesAfter
<1> QED
  BY <1>1, <1>2, <1>3

(* A purchase leaves the rows it read or appends one observation to them.  *)
LEMMA AfterPurchaseAppends ==
  ASSUME NEW rows \in Seq(Observation), NEW p \in Price, NEW q \in Nat, NEW at \in Nat
  PROVE  \/ AfterPurchase(rows, p, q, at) = rows
         \/ \E row \in Observation : AfterPurchase(rows, p, q, at) = Append(rows, row)
<1>1. CASE rows = <<>>
  BY <1>1 DEF AfterPurchase
<1>2. CASE rows # <<>>
  <2> DEFINE last == rows[Latest(rows)]
             left == Remaining(last.listings, p, q)
             row == [type |-> "derived", at |-> at, checked |-> last.checked,
                     listings |-> left, lowest |-> LowestOf(left)]
  <2>1. last \in Observation
    BY <1>2, LatestExists, ElementOfSeq, LenProperties
  <2>2. last.listings \in [Price -> Nat] /\ last.checked \in Nat
    BY <2>1 DEF Observation
  <2>3. left \in [Price -> Nat] /\ LowestOf(left) \in Price \cup {None}
    BY <2>2, RemainingListings, LowestOfListings
  <2>4. row \in Observation
    BY <2>2, <2>3 DEF Observation
  <2>5. AfterPurchase(rows, p, q, at) \in {rows, Append(rows, row)}
    BY <1>2 DEF AfterPurchase
  <2> QED
    BY <2>4, <2>5
<1> QED
  BY <1>1, <1>2

LEMMA DerivedType ==
  ASSUME TypeOK, NEW r \in Request, r.kind = "buy", NEW read \in Seq(Observation),
         NEW at \in Nat
  PROVE  /\ Derived(r, read, at) \in Seq(Observation)
         /\ read = evidence[r.card]
              => Derived(r, read, at) = AfterPurchase(read, r.price, r.quantity, at)
<1> DEFINE after == AfterPurchase(read, r.price, r.quantity, at)
<1>1. /\ r.card \in Card /\ r.quantity \in Nat /\ r.price \in Price
      /\ evidence[r.card] \in Seq(Observation)
  BY TradeCoins DEF TypeOK
<1>2. Derived(r, read, at) = IF after = read THEN evidence[r.card]
                             ELSE Append(evidence[r.card], after[Len(after)])
  BY DEF Derived
<1>3. after = read \/ \E row \in Observation : after = Append(read, row)
  BY <1>1, AfterPurchaseAppends
<1> HIDE DEF after
<1>4. CASE after = read
  BY <1>1, <1>2, <1>4 DEF after
<1>5. CASE after # read
  <2>1. PICK row \in Observation : after = Append(read, row)
    BY <1>3, <1>5
  <2>2. after[Len(after)] = row
    BY <2>1, AppendProperties
  <2>3. Derived(r, read, at) = Append(evidence[r.card], row)
    BY <1>2, <1>5, <2>2
  <2> QED BY <1>1, <2>1, <2>3, AppendProperties DEF after
<1> QED
  BY <1>4, <1>5

-----------------------------------------------------------------------------
(* The steps before the commit change no committed row.                    *)

(* A worker whose record changes alone, to an admissible one, keeps the    *)
(* invariant.                                                              *)
LEMMA WorkerStep ==
  ASSUME CInv, NEW w \in Worker, NEW x,
         work' = [work EXCEPT ![w] = x], WorkerOK(x),
         UNCHANGED <<tables, created, raced, serial>>
  PROVE  CInv'
<1>1. TypeOK'
  BY DEF tables, CInv, CTypeOK, TypeOK
<1>2. x \in {Idle} \cup Serving
  BY DEF WorkerOK
<1>3. CTypeOK'
  BY <1>1, <1>2 DEF CInv, CTypeOK
<1>4. \A v \in Worker : WorkerOK(work'[v])
  BY DEF CInv, CTypeOK
<1>5. (\A v \in Worker : WorkerOK(work[v]))'
  BY <1>4 DEF WorkerOK
<1>6. LostNotInvented' /\ NoRaceNoLoss'
  BY DEF CInv, LostNotInvented, NoRaceNoLoss, CashIdentity, PositionsFollowTrades, tables
<1> QED
  BY <1>3, <1>5, <1>6 DEF CInv

LEMMA RejectInv ==
  ASSUME CInv, NEW w \in Worker, Reject(w)
  PROVE  CInv'
<1>1. WorkerOK(Idle)
  BY DEF WorkerOK
<1> QED
  BY <1>1, WorkerStep DEF Reject

(* The record of a worker that is past a request's arrival.                *)
LEMMA ServingWorker ==
  ASSUME CInv, NEW w \in Worker, work[w].step # "idle"
  PROVE  /\ work[w] \in Serving /\ Passed(work[w]) /\ work[w].account.coins \in serial
         /\ work[w].request \in Request /\ work[w].account \in Account
         /\ work[w].position \in Position /\ work[w].at \in Nat
         /\ work[w].evidence \in Seq(Observation)
<1>1. work[w] # Idle
  BY DEF Idle
<1>2. work[w] \in Serving /\ Passed(work[w]) /\ work[w].account.coins \in serial
  BY <1>1 DEF CInv, WorkerOK
<1> QED
  BY <1>2 DEF Serving

LEMMA BeginInv ==
  ASSUME CInv, NEW w \in Worker, NEW r \in Request, NEW at \in TradeTimes,
         Begin(w, r, at)
  PROVE  CInv'
<1> DEFINE x == [step |-> IF r.kind = "desired" THEN "position" ELSE "account",
                 request |-> r, at |-> at, account |-> account,
                 position |-> NoPosition, evidence |-> <<>>]
<1>1. work' = [work EXCEPT ![w] = x] /\ UNCHANGED <<tables, created, raced, serial>>
  BY DEF Begin
<1>2. at \in Nat /\ account \in Account
  BY TradeTimesType DEF CInv, CTypeOK, TypeOK
<1>3. NoPosition \in Position /\ <<>> \in Seq(Observation)
  BY EmptySeq DEF NoPosition, Position, None
<1>4. x \in Serving /\ x.account = account /\ x.request = r
      /\ x.step = IF r.kind = "desired" THEN "position" ELSE "account"
  BY <1>2, <1>3 DEF Serving, Steps
<1> HIDE DEF x
<1>5. Passed(x)
  BY <1>4 DEF Passed
<1>6. WorkerOK(x)
  BY <1>4, <1>5 DEF WorkerOK, CInv, LostNotInvented
<1> QED
  BY <1>1, <1>6, WorkerStep

LEMMA ReadAccountInv ==
  ASSUME CInv, NEW w \in Worker, ReadAccount(w)
  PROVE  CInv'
<1> DEFINE s == IF created THEN AfterAccount(work[w].request) ELSE "insert account"
           x == [work[w] EXCEPT !.account = account, !.step = s]
<1>1. work[w].step = "account"
  BY DEF ReadAccount
<1>2. work[w] \in Serving /\ Passed(work[w]) /\ work[w].request \in Request
  BY <1>1, ServingWorker
<1>3. work' = [work EXCEPT ![w] = x] /\ UNCHANGED <<tables, created, raced, serial>>
  BY <1>2 DEF ReadAccount, CInv, CTypeOK
<1>4. s \in {"insert account", "position", "write"}
      /\ (s = "position" => work[w].request.kind # "balance")
      /\ (s = "write" => work[w].request.kind = "balance")
  BY DEF AfterAccount
<1> HIDE DEF s
<1>5. account \in Account
  BY DEF CInv, CTypeOK, TypeOK
<1>6. x \in Serving /\ x.account = account /\ x.request = work[w].request /\ x.step = s
  BY <1>2, <1>4, <1>5 DEF Serving, Steps
<1> HIDE DEF x
<1>7. Passed(x)
  BY <1>1, <1>2, <1>4, <1>6 DEF Passed
<1>8. WorkerOK(x)
  BY <1>6, <1>7 DEF WorkerOK, CInv, LostNotInvented
<1> QED
  BY <1>3, <1>8, WorkerStep

LEMMA InsertAccountInv ==
  ASSUME CInv, NEW w \in Worker, InsertAccount(w)
  PROVE  CInv'
<1>1. CASE Reject(w)
  BY <1>1, RejectInv
<1>2. CASE ~ Reject(w)
  <2> DEFINE s == AfterAccount(work[w].request)
             x == [work[w] EXCEPT !.step = s]
  <2>1. /\ work[w].step = "insert account"
        /\ work' = [work EXCEPT ![w] = x]
        /\ UNCHANGED <<tables, created, raced, serial>>
    BY <1>2 DEF InsertAccount, Goto
  <2>2. /\ work[w] \in Serving /\ Passed(work[w])
        /\ work[w].account.coins \in serial
    BY <2>1, ServingWorker
  <2>3. s \in {"position", "write"}
        /\ (s = "position" => work[w].request.kind # "balance")
        /\ (s = "write" => work[w].request.kind = "balance")
    BY DEF AfterAccount
  <2> HIDE DEF s
  <2>4. /\ x \in Serving /\ x.account = work[w].account
        /\ x.request = work[w].request /\ x.step = s
    BY <2>2, <2>3 DEF Serving, Steps
  <2> HIDE DEF x
  <2>5. Passed(x)
    BY <2>3, <2>4 DEF Passed
  <2>6. WorkerOK(x)
    BY <2>2, <2>4, <2>5 DEF WorkerOK
  <2> QED
    BY <2>1, <2>6, WorkerStep
<1> QED
  BY <1>1, <1>2

LEMMA ReadPositionInv ==
  ASSUME CInv, NEW w \in Worker, ReadPosition(w)
  PROVE  CInv'
<1> DEFINE r == work[w].request
           pos == position[r.card]
           s == IF r.kind = "buy"
                THEN IF pos.status = "none" THEN "insert position" ELSE "evidence"
                ELSE "write"
           x == [work[w] EXCEPT !.position = pos, !.step = s]
<1>1. CASE Reject(w)
  BY <1>1, RejectInv
<1>2. CASE ~ Reject(w)
  <2>1. work[w].step = "position"
    BY DEF ReadPosition
  <2>2. /\ work[w] \in Serving /\ Passed(work[w]) /\ r \in Request
        /\ work[w].account.coins \in serial
    BY <2>1, ServingWorker
  <2>3. r.kind # "balance" /\ r.card \in Card
    BY <2>1, <2>2, RequestFields DEF Passed
  <2>4. pos \in Position
    BY <2>3 DEF CInv, CTypeOK, TypeOK
  <2>5. /\ work' = [work EXCEPT ![w] = x]
        /\ UNCHANGED <<tables, created, raced, serial>>
        /\ \/ r.kind = "buy" /\ Affords(r, work[w].account)
           \/ r.kind = "sell" /\ pos.quantity >= r.quantity
           \/ r.kind = "desired" /\ pos.status # "none"
    BY <1>2, <2>2 DEF ReadPosition, CInv, CTypeOK
  <2>6. /\ s \in {"insert position", "evidence", "write"}
        /\ s \in {"insert position", "evidence"} <=> r.kind = "buy"
    OBVIOUS
  <2> HIDE DEF s, pos
  <2>7. /\ x \in Serving /\ x.account = work[w].account /\ x.request = r
        /\ x.step = s /\ x.position = pos
    BY <2>2, <2>4, <2>6 DEF Serving, Steps
  <2> HIDE DEF x, r
  <2>8. Passed(x)
    BY <2>5, <2>6, <2>7 DEF Passed
  <2>9. WorkerOK(x)
    BY <2>2, <2>7, <2>8 DEF WorkerOK
  <2> QED
    BY <2>5, <2>9, WorkerStep
<1> QED
  BY <1>1, <1>2

LEMMA InsertPositionInv ==
  ASSUME CInv, NEW w \in Worker, InsertPosition(w)
  PROVE  CInv'
<1>1. CASE Reject(w)
  BY <1>1, RejectInv
<1>2. CASE ~ Reject(w)
  <2> DEFINE x == [work[w] EXCEPT !.step = "evidence"]
  <2>1. /\ work[w].step = "insert position"
        /\ work' = [work EXCEPT ![w] = x]
        /\ UNCHANGED <<tables, created, raced, serial>>
    BY <1>2 DEF InsertPosition, Goto
  <2>2. /\ work[w] \in Serving /\ Passed(work[w])
        /\ work[w].account.coins \in serial
    BY <2>1, ServingWorker
  <2>3. /\ x \in Serving /\ x.account = work[w].account
        /\ x.request = work[w].request /\ x.step = "evidence"
    BY <2>2 DEF Serving, Steps
  <2> HIDE DEF x
  <2>4. Passed(x)
    BY <2>1, <2>2, <2>3 DEF Passed
  <2>5. WorkerOK(x)
    BY <2>2, <2>3, <2>4 DEF WorkerOK
  <2> QED
    BY <2>1, <2>5, WorkerStep
<1> QED
  BY <1>1, <1>2

LEMMA ReadEvidenceInv ==
  ASSUME CInv, NEW w \in Worker, ReadEvidence(w)
  PROVE  CInv'
<1> DEFINE rows == evidence[work[w].request.card]
           x == [work[w] EXCEPT !.evidence = rows, !.step = "write"]
<1>1. work[w].step = "evidence" /\ UNCHANGED <<tables, created, raced, serial>>
  BY DEF ReadEvidence
<1>2. /\ work[w] \in Serving /\ Passed(work[w]) /\ work[w].request \in Request
      /\ work[w].account.coins \in serial
  BY <1>1, ServingWorker
<1>3. work[w].request.kind = "buy" /\ work[w].request.card \in Card
  BY <1>1, <1>2, RequestFields DEF Passed
<1>4. rows \in Seq(Observation)
  BY <1>3 DEF CInv, CTypeOK, TypeOK
<1>5. work' = [work EXCEPT ![w] = x]
  BY <1>2 DEF ReadEvidence, CInv, CTypeOK
<1> HIDE DEF rows
<1>6. /\ x \in Serving /\ x.account = work[w].account
      /\ x.request = work[w].request /\ x.step = "write"
  BY <1>2, <1>4 DEF Serving, Steps
<1> HIDE DEF x
<1>7. Passed(x)
  BY <1>1, <1>2, <1>3, <1>6 DEF Passed
<1>8. WorkerOK(x)
  BY <1>2, <1>6, <1>7 DEF WorkerOK
<1> QED
  BY <1>1, <1>5, <1>8, WorkerStep

(* A step that leaves every table, worker and history alone: the locks are *)
(* not part of the invariant.                                              *)
LEMMA LocksFree ==
  ASSUME CInv, UNCHANGED <<tables, created, work, raced, serial>>
  PROVE  CInv'
<1>1. TypeOK'
  BY DEF tables, CInv, CTypeOK, TypeOK
<1>2. CTypeOK'
  BY <1>1 DEF CInv, CTypeOK
<1>3. (\A v \in Worker : WorkerOK(work[v]))'
  BY DEF CInv, WorkerOK
<1>4. LostNotInvented' /\ NoRaceNoLoss'
  BY DEF CInv, LostNotInvented, NoRaceNoLoss, CashIdentity, PositionsFollowTrades, tables
<1> QED
  BY <1>2, <1>3, <1>4 DEF CInv

(* A market check inserts a row of its own.                                *)
LEMMA CheckInv ==
  ASSUME CInv, NEW w \in Worker, NEW c \in Card, NEW listings \in Books,
         NEW typed \in Price \cup {None}, NEW at \in 1..now,
         Check(w, c, listings, typed, at)
  PROVE  CInv'
<1>1. ObserveListings(c, listings, typed, at)
      /\ UNCHANGED <<created, work, lock, raced, serial>>
  BY DEF Check
<1>2. Next
  BY <1>1 DEF Next
<1>3. TypeOK'
  BY <1>2, TypePreserved DEF CInv, CTypeOK
<1>4. CTypeOK'
  BY <1>1, <1>3 DEF CInv, CTypeOK
<1>5. (\A v \in Worker : WorkerOK(work[v]))'
  BY <1>1 DEF CInv, WorkerOK
<1>6. UNCHANGED <<account, position, book, trades>>
  BY <1>1 DEF ObserveListings
<1>7. LostNotInvented' /\ NoRaceNoLoss'
  BY <1>1, <1>6 DEF CInv, LostNotInvented, NoRaceNoLoss, CashIdentity, PositionsFollowTrades
<1> QED
  BY <1>4, <1>5, <1>7 DEF CInv

-----------------------------------------------------------------------------
(* The commit.                                                             *)

(* The tables keep their types whatever was committed since the reads: in  *)
(* particular the balance written is never negative.                       *)
LEMMA CommitType ==
  ASSUME CInv, NEW w \in Worker, Commit(w)
  PROVE  TypeOK'
<1> DEFINE r == work[w].request
           acc == work[w].account
           pos == work[w].position
<1>1. work[w].step = "write"
  BY DEF Commit
<1>2. /\ r \in Request /\ acc \in Account /\ pos \in Position /\ work[w].at \in Nat
      /\ work[w].evidence \in Seq(Observation) /\ Passed(work[w])
  BY <1>1, ServingWorker
<1>3. /\ r.kind = "buy" => Affords(r, acc)
      /\ r.kind = "sell" => pos.quantity >= r.quantity
  BY <1>1, <1>2 DEF Passed
<1>4. /\ now' = now + 1
      /\ account' = Merge(account, acc, NewAccount(r, acc, pos))
      /\ position' = IF r.kind = "balance" THEN position
                     ELSE [position EXCEPT ![r.card] = Merge(@, pos, NewPosition(r, pos))]
      /\ book' = Booked(r, acc, pos)
      /\ trades' = TradesAfter(r)
      /\ evidence' = IF r.kind # "buy" THEN evidence
                     ELSE [evidence EXCEPT ![r.card] =
                             Derived(r, work[w].evidence, work[w].at)]
  BY DEF Commit
<1> HIDE DEF r, acc, pos
<1>5. TypeOK
  BY DEF CInv, CTypeOK
<1>6. account' \in Account
  BY <1>2, <1>3, <1>4, <1>5, NewAccountType, MergeAccount DEF TypeOK
<1>7. position' \in [Card -> Position]
  <2>1. CASE r.kind = "balance"
    BY <2>1, <1>4, <1>5 DEF TypeOK
  <2>2. CASE r.kind # "balance"
    <3>1. r.card \in Card /\ NewPosition(r, pos) \in Position
      BY <2>2, <1>2, <1>3, NewPositionType
    <3>2. Merge(position[r.card], pos, NewPosition(r, pos)) \in Position
      BY <3>1, <1>2, <1>5, MergePosition DEF TypeOK
    <3> QED BY <2>2, <1>4, <1>5, <3>1, <3>2 DEF TypeOK
  <2> QED BY <2>1, <2>2
<1>8. book' \in Totals /\ trades' \in [Card -> Traded]
  BY <1>2, <1>4, <1>5, BookedType, TradesAfterType
<1>9. evidence' \in [Card -> Seq(Observation)]
  <2>1. CASE r.kind # "buy"
    BY <2>1, <1>4, <1>5 DEF TypeOK
  <2>2. CASE r.kind = "buy"
    <3>1. Derived(r, work[w].evidence, work[w].at) \in Seq(Observation)
      BY <2>2, <1>2, <1>5, DerivedType
    <3> QED BY <2>2, <1>4, <1>5, <3>1 DEF TypeOK
  <2> QED BY <2>1, <2>2
<1>10. now' \in Nat
  BY <1>4, <1>5 DEF TypeOK
<1> QED
  BY <1>6, <1>7, <1>8, <1>9, <1>10 DEF TypeOK

(* What a request makes of a balance: the balance it computes is the one   *)
(* it leaves of the balance it read.                                       *)
LEMMA LeavesComputed ==
  ASSUME TypeOK, NEW r \in Request, NEW acc \in Account, NEW pos \in Position
  PROVE  /\ NewAccount(r, acc, pos).coins = Leaves(r, acc, pos, acc.coins)
         /\ \A v \in Int : Leaves(r, acc, pos, v) \in Int
<1>a. book \in Totals /\ book.flow \in Int /\ acc.coins \in Nat
  BY DEF TypeOK, Totals, Account
<1>1. CASE r.kind = "buy"
  <2> DEFINE gross == Gross(r)
  <2>1. gross \in Nat
    BY <1>1, TradeCoins
  <2>2. /\ NewAccount(r, acc, pos) = [acc EXCEPT !.coins = @ - gross]
        /\ Booked(r, acc, pos) = [book EXCEPT !.flow = @ - gross, !.paid = @ + gross]
    BY <1>1 DEF NewAccount, Booked
  <2> HIDE DEF gross
  <2>3. /\ NewAccount(r, acc, pos).coins = acc.coins - gross
        /\ Booked(r, acc, pos).flow = book.flow - gross
    BY <1>a, <2>2 DEF Account, Totals
  <2>4. \A v \in Int : Leaves(r, acc, pos, v) = v + (book.flow - gross) - book.flow
    BY <1>1, <2>3 DEF Leaves
  <2>5. acc.coins - gross = acc.coins + (book.flow - gross) - book.flow
    BY <1>a, <2>1
  <2> QED BY <1>a, <2>1, <2>3, <2>4, <2>5
<1>2. CASE r.kind = "sell"
  <2> DEFINE net == Net(r)
             basis == Basis(r, pos)
             tax == Tax(Gross(r))
  <2>1. net \in Nat
    BY <1>2, TradeCoins
  <2>2. /\ NewAccount(r, acc, pos) = [coins |-> acc.coins + net,
                                      realized |-> acc.realized + net - basis,
                                      tax |-> acc.tax + tax]
        /\ Booked(r, acc, pos)
             = [book EXCEPT !.flow = @ + net, !.realized = @ + net - basis,
                            !.tax = @ + tax, !.released = @ + basis]
    BY <1>2 DEF NewAccount, Booked
  <2> HIDE DEF net, basis, tax
  <2>3. /\ NewAccount(r, acc, pos).coins = acc.coins + net
        /\ Booked(r, acc, pos).flow = book.flow + net
    BY <1>a, <2>2 DEF Totals
  <2>4. \A v \in Int : Leaves(r, acc, pos, v) = v + (book.flow + net) - book.flow
    BY <1>2, <2>3 DEF Leaves
  <2>5. acc.coins + net = acc.coins + (book.flow + net) - book.flow
    BY <1>a, <2>1
  <2> QED BY <1>a, <2>1, <2>3, <2>4, <2>5
<1>3. CASE r.kind = "balance"
  <2>1. r.coins \in Nat
    BY <1>3, RequestFields, LedgerAssumption
  <2>2. NewAccount(r, acc, pos).coins = r.coins
    BY <1>3 DEF NewAccount, Account
  <2>3. \A v : Leaves(r, acc, pos, v) = r.coins
    BY <1>3 DEF Leaves
  <2> QED BY <2>1, <2>2, <2>3
<1>4. CASE r.kind = "desired"
  <2>1. NewAccount(r, acc, pos) = acc /\ Booked(r, acc, pos) = book
    BY <1>4 DEF NewAccount, Booked
  <2>2. \A v : Leaves(r, acc, pos, v) = v + book.flow - book.flow
    BY <1>4, <2>1 DEF Leaves
  <2> QED BY <1>a, <2>1, <2>2
<1> QED
  BY <1>1, <1>2, <1>3, <1>4, RequestFields

LEMMA CommitBalances ==
  ASSUME CInv, NEW w \in Worker, Commit(w)
  PROVE  /\ serial' \subseteq Int
         /\ serial \subseteq serial'
         /\ LostNotInvented'
<1> DEFINE r == work[w].request
           acc == work[w].account
           pos == work[w].position
<1>1. work[w].step = "write"
  BY DEF Commit
<1>2. /\ r \in Request /\ acc \in Account /\ pos \in Position /\ Passed(work[w])
      /\ acc.coins \in serial
  BY <1>1, ServingWorker
<1>3. r.kind = "buy" => Affords(r, acc)
  BY <1>1, <1>2 DEF Passed
<1>4. /\ account' = Merge(account, acc, NewAccount(r, acc, pos))
      /\ serial' = serial \cup {Leaves(r, acc, pos, v) : v \in serial}
  BY DEF Commit
<1> HIDE DEF r, acc, pos
<1>5. TypeOK /\ serial \subseteq Int /\ account \in Account /\ account.coins \in serial
  BY DEF CInv, CTypeOK, TypeOK, LostNotInvented
<1>6. NewAccount(r, acc, pos) \in Account
  BY <1>2, <1>3, NewAccountType
<1>7. account'.coins \in {account.coins, NewAccount(r, acc, pos).coins}
  BY <1>2, <1>4, <1>5, <1>6, MergeAccount
<1>8. /\ NewAccount(r, acc, pos).coins = Leaves(r, acc, pos, acc.coins)
      /\ \A v \in Int : Leaves(r, acc, pos, v) \in Int
  BY <1>2, <1>5, LeavesComputed
<1>9. serial' \subseteq Int
  BY <1>4, <1>5, <1>8
<1>10. account'.coins \in serial'
  BY <1>2, <1>4, <1>5, <1>7, <1>8
<1> QED
  BY <1>4, <1>9, <1>10 DEF LostNotInvented

(* Without a race the account is written as the request computed it from   *)
(* the account there is, so it keeps agreeing with the transactions.       *)
LEMMA CommitCash ==
  ASSUME CInv, NEW w \in Worker, Commit(w), ~ Stale(w), CashIdentity
  PROVE  CashIdentity'
<1> DEFINE r == work[w].request
           acc == work[w].account
           pos == work[w].position
<1>1. work[w].step = "write"
  BY DEF Commit
<1>2. /\ r \in Request /\ acc \in Account /\ pos \in Position /\ Passed(work[w])
  BY <1>1, ServingWorker
<1>3. r.kind = "buy" => Affords(r, acc)
  BY <1>1, <1>2 DEF Passed
<1>4. /\ account' = Merge(account, acc, NewAccount(r, acc, pos))
      /\ book' = Booked(r, acc, pos)
      /\ r.kind \in {"buy", "sell", "balance"} => acc = account
  BY DEF Commit, Stale, Writes
<1> HIDE DEF r, acc, pos
<1>5. TypeOK /\ account \in Account /\ book \in Totals
  BY DEF CInv, CTypeOK, TypeOK
<1>6. /\ account.coins \in Int /\ account.realized \in Int /\ account.tax \in Int
      /\ book.adjusted \in Int /\ book.paid \in Int /\ book.released \in Int
      /\ account.coins = book.flow /\ account.realized = book.realized
      /\ account.tax = book.tax
      /\ account.coins + book.paid - book.released = book.adjusted + book.realized
  BY <1>5 DEF CashIdentity, Account, Totals
<1>7. account' = IF r.kind = "desired" THEN account ELSE NewAccount(r, account, pos)
  <2>1. NewAccount(r, acc, pos) \in Account
    BY <1>2, <1>3, NewAccountType
  <2>2. CASE r.kind = "desired"
    BY <2>2, <1>2, <1>4, <1>5, MergeAccount DEF NewAccount
  <2>3. CASE r.kind # "desired"
    <3>1. acc = account
      BY <2>3, <1>2, <1>4, RequestFields
    <3> QED BY <2>1, <2>3, <3>1, <1>4, <1>5, MergeAccount
  <2> QED BY <2>2, <2>3
<1>8. CASE r.kind = "buy"
  <2> DEFINE gross == Gross(r)
  <2>1. gross \in Int
    BY <1>2, <1>8, TradeCoins
  <2>2. /\ account' = [account EXCEPT !.coins = @ - gross]
        /\ book' = [book EXCEPT !.flow = @ - gross, !.paid = @ + gross]
    BY <1>4, <1>7, <1>8 DEF NewAccount, Booked
  <2> HIDE DEF gross
  <2> QED BY <1>5, <1>6, <2>1, <2>2 DEF CashIdentity, Account, Totals
<1>9. CASE r.kind = "sell"
  <2> DEFINE net == Net(r)
             basis == Basis(r, pos)
             tax == Tax(Gross(r))
  <2>1. net \in Int /\ basis \in Int /\ tax \in Int
    BY <1>2, <1>9, TradeCoins, BasisType
  <2>2. /\ account' = [coins |-> account.coins + net,
                       realized |-> account.realized + net - basis,
                       tax |-> account.tax + tax]
        /\ book' = [book EXCEPT !.flow = @ + net, !.realized = @ + net - basis,
                                !.tax = @ + tax, !.released = @ + basis]
    BY <1>4, <1>7, <1>9 DEF NewAccount, Booked
  <2> HIDE DEF net, basis, tax
  <2> QED BY <1>5, <1>6, <2>1, <2>2 DEF CashIdentity, Account, Totals
<1>10. CASE r.kind = "balance"
  <2> DEFINE delta == r.coins - account.coins
  <2>1. r.coins \in Nat
    BY <1>2, <1>10, RequestFields, LedgerAssumption
  <2>2. delta \in Int /\ account.coins + delta = r.coins
    BY <1>6, <2>1
  <2>3. acc = account
    BY <1>4, <1>10
  <2>4. /\ account' = [account EXCEPT !.coins = r.coins]
        /\ book' = [book EXCEPT !.flow = @ + delta, !.adjusted = @ + delta]
    BY <1>4, <1>7, <1>10, <2>3 DEF NewAccount, Booked
  <2> HIDE DEF delta
  <2> QED BY <1>5, <1>6, <2>1, <2>2, <2>4 DEF CashIdentity, Account, Totals
<1>11. CASE r.kind = "desired"
  BY <1>4, <1>6, <1>7, <1>11 DEF CashIdentity, Booked
<1> QED
  BY <1>2, <1>8, <1>9, <1>10, <1>11, RequestFields

(* Without a race the position is written as computed from the one there   *)
(* is, so it keeps following the transactions.                             *)
LEMMA CommitPositions ==
  ASSUME CInv, NEW w \in Worker, Commit(w), ~ Stale(w), PositionsFollowTrades
  PROVE  \A c \in Card : RowFollows(position'[c], trades'[c])
<1> DEFINE r == work[w].request
           acc == work[w].account
           pos == work[w].position
<1>1. work[w].step = "write"
  BY DEF Commit
<1>2. /\ r \in Request /\ acc \in Account /\ pos \in Position /\ Passed(work[w])
  BY <1>1, ServingWorker
<1>3. r.kind = "sell" => pos.quantity >= r.quantity
  BY <1>1, <1>2 DEF Passed
<1>4. /\ position' = IF r.kind = "balance" THEN position
                     ELSE [position EXCEPT ![r.card] = Merge(@, pos, NewPosition(r, pos))]
      /\ trades' = TradesAfter(r)
      /\ r.kind # "balance" => pos = position[r.card]
  BY DEF Commit, Stale
<1> HIDE DEF r, acc, pos
<1>5. /\ position \in [Card -> Position] /\ trades \in [Card -> Traded]
      /\ \A c \in Card : RowFollows(position[c], trades[c])
  BY PositionsFollowTradesRows DEF CInv, CTypeOK, TypeOK
<1>6. CASE r.kind = "balance"
  BY <1>4, <1>5, <1>6 DEF TradesAfter
<1>7. CASE r.kind # "balance"
  <2> DEFINE c == r.card
             new == NewPosition(r, pos)
  <2>1. c \in Card /\ new \in Position
    BY <1>2, <1>3, <1>7, NewPositionType
  <2>2. position' = [position EXCEPT ![c] = new]
    <3>1. Merge(position[c], pos, new) = new
      BY <1>2, <1>4, <1>7, <2>1, MergePosition
    <3> QED BY <1>4, <1>7, <3>1
  <2>3. RowFollows(pos, trades[c]) /\ trades[c] \in Traded
    BY <1>4, <1>5, <1>7, <2>1
  <2>4. RowFollows(new, trades'[c])
    <3>1. CASE r.kind = "buy"
      <4>1. r.quantity \in Nat \ {0} /\ Gross(r) \in Nat
        BY <1>2, <3>1, TradeCoins
      <4>2. /\ new = Bought(pos, r.quantity, Gross(r))
            /\ trades'[c] = [trades[c] EXCEPT !.bought = @ + r.quantity]
        BY <1>4, <1>5, <2>1, <3>1 DEF NewPosition, TradesAfter
      <4> HIDE DEF new, c
      <4> QED BY <1>2, <2>3, <4>1, <4>2, BoughtFollows
    <3>2. CASE r.kind = "sell"
      <4>1. r.quantity \in Nat \ {0}
        BY <1>2, <3>2, TradeCoins
      <4>2. /\ new = Sold(pos, r.quantity)
            /\ trades'[c] = [trades[c] EXCEPT !.sold = @ + r.quantity]
        BY <1>4, <1>5, <2>1, <3>2 DEF NewPosition, TradesAfter
      <4> HIDE DEF new, c
      <4> QED BY <1>2, <1>3, <2>3, <3>2, <4>1, <4>2, SoldFollows
    <3>3. CASE r.kind = "desired"
      <4>1. /\ new = [pos EXCEPT !.desired = r.price]
            /\ trades'[c] = trades[c]
        BY <1>4, <3>3 DEF NewPosition, TradesAfter
      <4>2. /\ new.quantity = pos.quantity /\ new.cost = pos.cost
            /\ new.average = pos.average /\ new.status = pos.status
        BY <1>2, <4>1 DEF Position
      <4> HIDE DEF new, c
      <4> QED BY <2>3, <4>1, <4>2 DEF RowFollows
    <3> QED BY <1>2, <1>7, <3>1, <3>2, <3>3, RequestFields
  <2>5. \A d \in Card \ {c} : position'[d] = position[d] /\ trades'[d] = trades[d]
    BY <1>4, <1>5, <2>2 DEF TradesAfter
  <2>6. position'[c] = new
    BY <1>5, <2>1, <2>2
  <2> HIDE DEF c, new
  <2> QED BY <1>5, <2>4, <2>5, <2>6
<1> QED
  BY <1>6, <1>7

LEMMA CommitInv ==
  ASSUME CInv, NEW w \in Worker, Commit(w)
  PROVE  CInv'
<1>1. /\ created' = (created \/ "account" \in Held(w))
      /\ work' = [work EXCEPT ![w] = Idle]
      /\ raced' = (raced \/ Stale(w))
  BY DEF Commit
<1>2. TypeOK' /\ serial' \subseteq Int /\ serial \subseteq serial' /\ LostNotInvented'
  BY CommitType, CommitBalances
<1>3. CTypeOK'
  BY <1>1, <1>2 DEF CInv, CTypeOK
<1>4. (\A v \in Worker : WorkerOK(work[v]))'
  <2>1. \A v \in Worker : work'[v] = Idle \/ work'[v] = work[v]
    BY <1>1 DEF CInv, CTypeOK
  <2> QED BY <1>2, <2>1 DEF CInv, WorkerOK
<1>5. ASSUME ~ raced' PROVE CashIdentity' /\ PositionsFollowTrades'
  <2>1. ~ Stale(w) /\ CashIdentity /\ PositionsFollowTrades
    BY <1>1, <1>5 DEF CInv, NoRaceNoLoss
  <2>2. CashIdentity'
    BY <2>1, CommitCash
  <2>3. \A c \in Card : RowFollows(position'[c], trades'[c])
    BY <2>1, CommitPositions
  <2> QED BY <2>2, <2>3 DEF PositionsFollowTrades, RowFollows
<1> QED
  BY <1>2, <1>3, <1>4, <1>5 DEF CInv, NoRaceNoLoss

-----------------------------------------------------------------------------
LEMMA CInitInv == CInit => CInv
<1> SUFFICES ASSUME CInit PROVE CInv
  OBVIOUS
<1>1. Init /\ created = FALSE /\ raced = FALSE /\ serial = {0}
      /\ work = [w \in Worker |-> Idle]
  BY DEF CInit
<1>2. TypeOK
  BY <1>1, TypeInitially
<1>b. work \in [Worker -> {Idle} \cup Serving]
  BY <1>1
<1>c. created \in BOOLEAN /\ raced \in BOOLEAN
  BY <1>1
<1>d. serial \subseteq Int
  BY <1>1
<1>3. CTypeOK
  BY <1>2, <1>b, <1>c, <1>d DEF CTypeOK
<1>a. \A w \in Worker : WorkerOK(work[w])
  BY <1>1 DEF WorkerOK
<1>4. LostNotInvented
  BY <1>1 DEF LostNotInvented, Init
<1>5. CashIdentity
  BY <1>1 DEF CashIdentity, Init
<1>6. PositionsFollowTrades
  BY <1>1, PositionsInitially
<1> QED
  BY <1>3, <1>a, <1>4, <1>5, <1>6 DEF CInv, NoRaceNoLoss

LEMMA CStepInv == CInv /\ [CNext]_cvars => CInv'
<1> SUFFICES ASSUME CInv, [CNext]_cvars PROVE CInv'
  OBVIOUS
<1>1. ASSUME NEW w \in Worker, NEW r \in Request, NEW at \in TradeTimes, Begin(w, r, at)
      PROVE  CInv'
  BY <1>1, BeginInv
<1>2. ASSUME NEW w \in Worker, NEW c \in Card, NEW listings \in Books,
             NEW typed \in Price \cup {None}, NEW at \in 1..now,
             Check(w, c, listings, typed, at)
      PROVE  CInv'
  BY <1>2, CheckInv
<1>3. ASSUME NEW w \in Worker, WriteRow(w)
      PROVE  CInv'
  BY <1>3, LocksFree DEF WriteRow
<1>4. ASSUME NEW w \in Worker, Step(w)
      PROVE  CInv'
  BY <1>3, <1>4, ReadAccountInv, InsertAccountInv, ReadPositionInv, InsertPositionInv,
     ReadEvidenceInv, CommitInv DEF Step
<1>5. CASE UNCHANGED cvars
  BY <1>5, LocksFree DEF cvars
<1> QED
  BY <1>1, <1>2, <1>4, <1>5 DEF CNext

LEMMA CInvCorrect == CSpec => []CInv
BY CInitInv, CStepInv, PTL DEF CSpec

(* However requests overlap, the tables keep their columns' types: no      *)
(* interleaving of reads and writes takes the coin balance below zero.     *)
THEOREM ConcurrentTypeCorrect == CSpec => []TypeOK
<1>1. CInv => TypeOK
  BY DEF CInv, CTypeOK
<1> QED BY <1>1, CInvCorrect, PTL

(* For any number of request threads and any requests: the balance is      *)
(* always one that some of the committed requests, run one after the other *)
(* in the order of their commits, would have left.                         *)
THEOREM LostNotInventedCorrect == CSpec => []LostNotInvented
<1>1. CInv => LostNotInvented
  BY DEF CInv
<1> QED BY <1>1, CInvCorrect, PTL

(* The books only ever disagree once a request has overwritten a row that  *)
(* changed since it read it.                                               *)
THEOREM NoRaceNoLossCorrect == CSpec => []NoRaceNoLoss
<1>1. CInv => NoRaceNoLoss
  BY DEF CInv
<1> QED BY <1>1, CInvCorrect, PTL

-----------------------------------------------------------------------------
(* One request at a time: the concurrent server implements the ledger.     *)

(* Without company, what a request has read is still what the tables hold, *)
(* and its turn on the clock is not taken.                                 *)
FreshReads(x) ==
  /\ now <= MaxRequests
  /\ x.at \in TradeTimes
  /\ x.account = account
  /\ x.step \in {"insert position", "evidence", "write"} /\ x.request.kind # "balance"
       => x.position = position[x.request.card]
  /\ x.step = "write" /\ x.request.kind = "buy"
       => x.evidence = evidence[x.request.card]

FreshInv == \A w \in Worker : work[w].step # "idle" => FreshReads(work[w])

(* A step that leaves the tables alone keeps the reads fresh if those of   *)
(* the record it writes are.                                               *)
LEMMA FreshStep ==
  ASSUME CInv, FreshInv, NEW u \in Worker, NEW x, work' = [work EXCEPT ![u] = x],
         UNCHANGED tables, x.step # "idle" => FreshReads(x)
  PROVE  FreshInv'
<1>1. \A w \in Worker : work'[w].step # "idle" => FreshReads(work'[w])
  BY DEF CInv, CTypeOK, FreshInv
<1>2. \A w \in Worker : FreshReads(work'[w]) => FreshReads(work[w])'
  BY DEF FreshReads, TradeTimes, tables
<1> QED
  BY <1>1, <1>2 DEF FreshInv

LEMMA FreshReject ==
  ASSUME CInv, FreshInv, NEW u \in Worker, Reject(u)
  PROVE  FreshInv'
<1>1. Idle.step = "idle"
  BY DEF Idle
<1> QED
  BY <1>1, FreshStep DEF Reject

LEMMA FreshPreserved ==
  ASSUME CInv, FreshInv, NEW u \in Worker, Worker = {u}, [CNext]_cvars
  PROVE  FreshInv'
<1>1. ASSUME NEW r \in Request, NEW at \in TradeTimes, Begin(u, r, at)
      PROVE  FreshInv'
  <2> DEFINE x == [step |-> IF r.kind = "desired" THEN "position" ELSE "account",
                   request |-> r, at |-> at, account |-> account,
                   position |-> NoPosition, evidence |-> <<>>]
  <2>1. work' = [work EXCEPT ![u] = x] /\ UNCHANGED tables /\ work[u] = Idle
        /\ now + Cardinality(InFlight) <= MaxRequests
    BY <1>1 DEF Begin
  <2>2. InFlight = {}
    BY <2>1 DEF InFlight, Idle
  <2>3. now <= MaxRequests
    <3>1. Cardinality({}) = 0
      BY FS_EmptySet
    <3>2. now \in Nat /\ MaxRequests \in Nat
      BY LedgerAssumption DEF CInv, CTypeOK, TypeOK
    <3> QED BY <2>1, <2>2, <3>1, <3>2
  <2>4. FreshReads(x)
    BY <2>3 DEF FreshReads
  <2> HIDE DEF x
  <2> QED BY <2>1, <2>4, FreshStep
<1>2. ASSUME NEW c \in Card, NEW listings \in Books, NEW typed \in Price \cup {None},
             NEW at \in 1..now, Check(u, c, listings, typed, at)
      PROVE  FreshInv'
  <2>1. work' = work /\ \A w \in Worker : work[w].step = "idle"
    BY <1>2 DEF Check, Idle
  <2> QED BY <2>1 DEF FreshInv
<1>3. CASE ReadAccount(u)
  <2> DEFINE s == IF created THEN AfterAccount(work[u].request) ELSE "insert account"
             x == [work[u] EXCEPT !.account = account, !.step = s]
  <2>1. work[u].step = "account" /\ UNCHANGED tables
    BY <1>3 DEF ReadAccount
  <2>2. work[u] \in Serving /\ Passed(work[u]) /\ FreshReads(work[u])
    BY <2>1, ServingWorker DEF FreshInv
  <2>3. work' = [work EXCEPT ![u] = x]
    BY <1>3, <2>2 DEF ReadAccount, CInv, CTypeOK
  <2>4. /\ s \in {"insert account", "position", "write"}
        /\ s = "write" => work[u].request.kind = "balance"
    BY DEF AfterAccount
  <2> HIDE DEF s
  <2>5. /\ x.account = account /\ x.request = work[u].request /\ x.step = s
        /\ x.at = work[u].at
    BY <2>2 DEF Serving
  <2> HIDE DEF x
  <2>6. FreshReads(x)
    BY <2>2, <2>4, <2>5 DEF FreshReads
  <2> QED BY <2>1, <2>3, <2>6, FreshStep
<1>4. CASE InsertAccount(u)
  <2>1. CASE Reject(u)
    BY <2>1, FreshReject
  <2>2. CASE ~ Reject(u)
    <3> DEFINE s == AfterAccount(work[u].request)
               x == [work[u] EXCEPT !.step = s]
    <3>1. /\ work[u].step = "insert account"
          /\ work' = [work EXCEPT ![u] = x]
          /\ UNCHANGED tables
      BY <1>4, <2>2 DEF InsertAccount, Goto
    <3>2. work[u] \in Serving /\ FreshReads(work[u])
      BY <3>1, ServingWorker DEF FreshInv
    <3>3. /\ s \in {"position", "write"}
          /\ s = "write" => work[u].request.kind = "balance"
      BY DEF AfterAccount
    <3> HIDE DEF s
    <3>4. /\ x.account = work[u].account /\ x.request = work[u].request /\ x.step = s
          /\ x.at = work[u].at
      BY <3>2 DEF Serving
    <3> HIDE DEF x
    <3>5. FreshReads(x)
      BY <3>2, <3>3, <3>4 DEF FreshReads
    <3> QED BY <3>1, <3>5, FreshStep
  <2> QED BY <2>1, <2>2
<1>5. CASE ReadPosition(u)
  <2>1. CASE Reject(u)
    BY <2>1, FreshReject
  <2>2. CASE ~ Reject(u)
    <3> DEFINE r == work[u].request
               pos == position[r.card]
               s == IF r.kind = "buy"
                    THEN IF pos.status = "none" THEN "insert position" ELSE "evidence"
                    ELSE "write"
               x == [work[u] EXCEPT !.position = pos, !.step = s]
    <3>1. work[u].step = "position"
      BY <1>5 DEF ReadPosition
    <3>2. work[u] \in Serving /\ FreshReads(work[u])
      BY <3>1, ServingWorker DEF FreshInv
    <3>3. work' = [work EXCEPT ![u] = x] /\ UNCHANGED tables
      BY <1>5, <2>2, <3>2 DEF ReadPosition, CInv, CTypeOK
    <3>4. /\ s \in {"insert position", "evidence", "write"}
          /\ s = "write" => r.kind # "buy"
      OBVIOUS
    <3> HIDE DEF s
    <3>5. /\ x.account = work[u].account /\ x.request = r /\ x.step = s
          /\ x.at = work[u].at /\ x.position = position[r.card]
      BY <3>2 DEF Serving
    <3> HIDE DEF x
    <3>6. FreshReads(x)
      BY <3>2, <3>4, <3>5 DEF FreshReads
    <3> QED BY <3>3, <3>6, FreshStep
  <2> QED BY <2>1, <2>2
<1>6. CASE InsertPosition(u)
  <2>1. CASE Reject(u)
    BY <2>1, FreshReject
  <2>2. CASE ~ Reject(u)
    <3> DEFINE x == [work[u] EXCEPT !.step = "evidence"]
    <3>1. /\ work[u].step = "insert position"
          /\ work' = [work EXCEPT ![u] = x]
          /\ UNCHANGED tables
      BY <1>6, <2>2 DEF InsertPosition, Goto
    <3>2. work[u] \in Serving /\ FreshReads(work[u])
      BY <3>1, ServingWorker DEF FreshInv
    <3>3. /\ x.account = work[u].account /\ x.request = work[u].request
          /\ x.step = "evidence" /\ x.at = work[u].at
          /\ x.position = work[u].position
      BY <3>2 DEF Serving
    <3> HIDE DEF x
    <3>4. FreshReads(x)
      BY <3>1, <3>2, <3>3 DEF FreshReads
    <3> QED BY <3>1, <3>4, FreshStep
  <2> QED BY <2>1, <2>2
<1>7. CASE ReadEvidence(u)
  <2> DEFINE rows == evidence[work[u].request.card]
             x == [work[u] EXCEPT !.evidence = rows, !.step = "write"]
  <2>1. work[u].step = "evidence" /\ UNCHANGED tables
    BY <1>7 DEF ReadEvidence
  <2>2. work[u] \in Serving /\ FreshReads(work[u])
    BY <2>1, ServingWorker DEF FreshInv
  <2>3. work' = [work EXCEPT ![u] = x]
    BY <1>7, <2>2 DEF ReadEvidence, CInv, CTypeOK
  <2>4. /\ x.account = work[u].account /\ x.request = work[u].request
        /\ x.step = "write" /\ x.at = work[u].at
        /\ x.position = work[u].position
        /\ x.evidence = evidence[work[u].request.card]
    BY <2>2 DEF Serving
  <2> HIDE DEF x, rows
  <2>5. FreshReads(x)
    BY <2>1, <2>2, <2>4 DEF FreshReads
  <2> QED BY <2>1, <2>3, <2>5, FreshStep
<1>8. CASE WriteRow(u)
  <2>1. UNCHANGED <<tables, work>>
    BY <1>8 DEF WriteRow
  <2> QED BY <2>1 DEF FreshInv, FreshReads, TradeTimes, tables
<1>9. CASE Commit(u)
  <2>1. \A w \in Worker : work'[w] = Idle
    BY <1>9 DEF Commit, CInv, CTypeOK
  <2> QED BY <2>1 DEF FreshInv, Idle
<1>10. CASE UNCHANGED cvars
  BY <1>10 DEF cvars, FreshInv, FreshReads, TradeTimes, tables
<1> QED
  BY <1>1, <1>2, <1>3, <1>4, <1>5, <1>6, <1>7, <1>8, <1>9, <1>10 DEF CNext, Step

(* The commit of a request whose reads are fresh is the ledger's action.   *)
LEMMA CommitImplements ==
  ASSUME CInv, FreshInv, NEW u \in Worker, Commit(u)
  PROVE  Next
<1> DEFINE r == work[u].request
           acc == work[u].account
           pos == work[u].position
           rows == work[u].evidence
           at == work[u].at
<1>1. work[u].step = "write"
  BY DEF Commit
<1>2. /\ r \in Request /\ acc \in Account /\ pos \in Position /\ Passed(work[u])
      /\ rows \in Seq(Observation) /\ at \in Nat
  BY <1>1, ServingWorker
<1>3. /\ r.kind = "buy" => Affords(r, acc) /\ rows = evidence[r.card]
      /\ r.kind = "sell" => pos.quantity >= r.quantity
      /\ r.kind = "desired" => pos.status # "none"
      /\ r.kind # "balance" => pos = position[r.card]
      /\ acc = account /\ now <= MaxRequests /\ at \in TradeTimes
  BY <1>1, <1>2 DEF Passed, FreshInv, FreshReads
<1>4. /\ now' = now + 1
      /\ account' = Merge(account, acc, NewAccount(r, acc, pos))
      /\ position' = IF r.kind = "balance" THEN position
                     ELSE [position EXCEPT ![r.card] = Merge(@, pos, NewPosition(r, pos))]
      /\ book' = Booked(r, acc, pos)
      /\ trades' = TradesAfter(r)
      /\ evidence' = IF r.kind # "buy" THEN evidence
                     ELSE [evidence EXCEPT ![r.card] = Derived(r, rows, at)]
  BY DEF Commit
<1> HIDE DEF r, acc, pos, rows, at
<1>5. TypeOK /\ account \in Account /\ position \in [Card -> Position]
      /\ evidence \in [Card -> Seq(Observation)]
  BY DEF CInv, CTypeOK, TypeOK
<1>6. account' = NewAccount(r, account, pos)
  BY <1>2, <1>3, <1>4, <1>5, NewAccountType, MergeAccount
<1>7. r.kind # "balance" =>
        r.card \in Card /\ position' = [position EXCEPT ![r.card] = NewPosition(r, @)]
  <2> SUFFICES ASSUME r.kind # "balance"
               PROVE  /\ r.card \in Card
                      /\ position' = [position EXCEPT ![r.card] = NewPosition(r, @)]
    OBVIOUS
  <2>1. r.card \in Card /\ NewPosition(r, pos) \in Position
    BY <1>2, <1>3, NewPositionType
  <2>2. Merge(position[r.card], pos, NewPosition(r, pos)) = NewPosition(r, pos)
    BY <1>2, <1>3, <2>1, MergePosition
  <2> QED BY <1>3, <1>4, <2>1, <2>2
<1>8. Tick
  BY <1>3, <1>4 DEF Tick
<1>9. CASE r.kind = "buy"
  <2>1. r.card \in Card /\ r.quantity \in Quantity /\ r.price \in Price
    BY <1>2, <1>9, RequestFields
  <2>2. r.quantity \in Nat
    BY <1>2, <1>9, TradeCoins
  <2>3. account.coins >= r.quantity * r.price
    BY <1>3, <1>9 DEF Affords, Gross
  <2>4. position' = [position EXCEPT ![r.card]
                       = Bought(@, r.quantity, r.quantity * r.price)]
    BY <1>7, <1>9 DEF NewPosition, Gross
  <2>5. account' = [account EXCEPT !.coins = @ - r.quantity * r.price]
    BY <1>6, <1>9 DEF NewAccount, Gross
  <2>6. book' = [book EXCEPT !.flow = @ - r.quantity * r.price,
                             !.paid = @ + r.quantity * r.price]
    BY <1>4, <1>9 DEF Booked, Gross
  <2>7. trades' = [trades EXCEPT ![r.card].bought = @ + r.quantity]
    BY <1>4, <1>9 DEF TradesAfter
  <2>8. evidence' = [evidence EXCEPT ![r.card]
                       = AfterPurchase(@, r.price, r.quantity, at)]
    <3>1. Derived(r, rows, at) = AfterPurchase(rows, r.price, r.quantity, at)
      BY <1>2, <1>3, <1>5, <1>9, DerivedType
    <3> QED BY <1>3, <1>4, <1>9, <3>1
  <2>9. RecordPurchase(r.card, r.quantity, r.price, at)
    BY <1>8, <2>3, <2>4, <2>5, <2>6, <2>7, <2>8 DEF RecordPurchase
  <2> QED BY <1>3, <2>1, <2>9 DEF Next
<1>10. CASE r.kind = "sell"
  <2> DEFINE net == Net(r)
             basis == Basis(r, pos)
             tax == Tax(Gross(r))
  <2>1. r.card \in Card /\ r.quantity \in Quantity /\ r.price \in Price
    BY <1>2, <1>10, RequestFields
  <2>2. net \in Int /\ basis \in Int /\ tax \in Int
    BY <1>2, <1>10, TradeCoins, BasisType
  <2>3. /\ account.realized \in Int /\ book.realized \in Int
    BY <1>5 DEF TypeOK, Account, Totals
  <2>4. position' = [position EXCEPT ![r.card] = Sold(@, r.quantity)]
    BY <1>7, <1>10 DEF NewPosition
  <2>5. /\ account' = [coins |-> account.coins + net,
                       realized |-> account.realized + net - basis,
                       tax |-> account.tax + tax]
        /\ book' = [book EXCEPT !.flow = @ + net, !.realized = @ + net - basis,
                                !.tax = @ + tax, !.released = @ + basis]
    BY <1>4, <1>6, <1>10 DEF NewAccount, Booked
  <2>6. trades' = [trades EXCEPT ![r.card].sold = @ + r.quantity]
    BY <1>4, <1>10 DEF TradesAfter
  <2>7. UNCHANGED evidence
    BY <1>4, <1>10
  <2>8. position[r.card].quantity >= r.quantity
    BY <1>3, <1>10
  <2>9. /\ net = r.quantity * r.price - Tax(r.quantity * r.price)
        /\ basis = position[r.card].average * r.quantity
        /\ tax = Tax(r.quantity * r.price)
    BY <1>3, <1>10 DEF Net, Gross, Basis
  <2> HIDE DEF net, basis, tax
  <2>10. /\ account.realized + net - basis = account.realized + (net - basis)
         /\ book.realized + net - basis = book.realized + (net - basis)
    BY <2>2, <2>3
  <2>11. /\ account' = [coins |-> account.coins + net,
                        realized |-> account.realized + (net - basis),
                        tax |-> account.tax + tax]
         /\ book' = [book EXCEPT !.flow = @ + net, !.realized = @ + (net - basis),
                                 !.tax = @ + tax, !.released = @ + basis]
    BY <2>5, <2>10
  <2>12. RecordSale(r.card, r.quantity, r.price)
    BY <1>8, <2>4, <2>6, <2>7, <2>8, <2>9, <2>11 DEF RecordSale
  <2> QED BY <2>1, <2>12 DEF Next
<1>11. CASE r.kind = "balance"
  <2>1. r.coins \in Balance
    BY <1>2, <1>11, RequestFields
  <2>2. account' = [account EXCEPT !.coins = r.coins]
    BY <1>6, <1>11 DEF NewAccount
  <2>3. book' = [book EXCEPT !.flow = @ + (r.coins - account.coins),
                             !.adjusted = @ + (r.coins - account.coins)]
    BY <1>3, <1>4, <1>11 DEF Booked
  <2>4. UNCHANGED <<position, trades, evidence>>
    BY <1>4, <1>11 DEF TradesAfter
  <2>5. SetCoinBalance(r.coins)
    BY <1>8, <2>2, <2>3, <2>4 DEF SetCoinBalance
  <2> QED BY <2>1, <2>5 DEF Next
<1>12. CASE r.kind = "desired"
  <2>1. r.card \in Card /\ r.price \in Price \cup {None}
    BY <1>2, <1>12, RequestFields
  <2>2. position' = [position EXCEPT ![r.card].desired = r.price]
    BY <1>7, <1>12 DEF NewPosition
  <2>3. UNCHANGED <<account, book, trades, evidence>>
    BY <1>4, <1>6, <1>12 DEF NewAccount, Booked, TradesAfter
  <2>4. SetDesiredListingPrice(r.card, r.price)
    BY <1>3, <1>8, <1>12, <2>2, <2>3 DEF SetDesiredListingPrice
  <2> QED BY <2>1, <2>4 DEF Next
<1> QED
  BY <1>2, <1>9, <1>10, <1>11, <1>12, RequestFields

(* Every other step is a market check or leaves the ledger's tables alone. *)
LEMMA StepImplements ==
  ASSUME CInv, FreshInv, [CNext]_cvars
  PROVE  [Next]_vars
<1>1. ASSUME NEW w \in Worker, NEW r \in Request, NEW at \in TradeTimes, Begin(w, r, at)
      PROVE  UNCHANGED vars
  BY <1>1 DEF Begin, tables, vars
<1>2. ASSUME NEW w \in Worker, NEW c \in Card, NEW listings \in Books,
             NEW typed \in Price \cup {None}, NEW at \in 1..now,
             Check(w, c, listings, typed, at)
      PROVE  Next
  BY <1>2 DEF Check, Next
<1>3. ASSUME NEW w \in Worker, Step(w), ~ Commit(w)
      PROVE  UNCHANGED vars
  BY <1>3 DEF Step, ReadAccount, InsertAccount, ReadPosition, InsertPosition,
     ReadEvidence, WriteRow, Reject, tables, vars
<1>4. ASSUME NEW w \in Worker, Commit(w)
      PROVE  Next
  BY <1>4, CommitImplements
<1>5. CASE UNCHANGED cvars
  BY <1>5 DEF cvars, tables, vars
<1> QED
  BY <1>1, <1>2, <1>3, <1>4, <1>5 DEF CNext

(* A server with a single request thread is the sequential ledger: what    *)
(* was proved of PortfolioLedger holds of it.                              *)
THEOREM SerialServerIsLedger ==
  ASSUME NEW u \in Worker, Worker = {u}
  PROVE  CSpec => ImplementsLedger
<1>1. CInit => Init /\ FreshInv
  BY DEF CInit, FreshInv, Idle
<1>2. CInv /\ FreshInv /\ [CNext]_cvars => FreshInv'
  BY FreshPreserved
<1>3. CInv /\ FreshInv /\ [CNext]_cvars => [Next]_vars
  BY StepImplements
<1> QED
  BY <1>1, <1>2, <1>3, CInvCorrect, PTL DEF CSpec, ImplementsLedger, Spec

-----------------------------------------------------------------------------
(* Requests never all wait for each other.                                 *)

(* The request's next step waits for a row another request has locked.     *)
Blocked(w) ==
  \/ work[w].step = "insert account" /\ lock["account"] # {}
  \/ work[w].step = "insert position" /\ lock[work[w].request.card] # {}
  \/ /\ work[w].step = "write"
     /\ ~(Writes(work[w].request) \subseteq Held(w))
     /\ lock[NextRow(w)] # {}

NoDeadlock == InFlight # {} => \E w \in InFlight : ~ Blocked(w)

(* A row has one holder.  Who holds the account has inserted it and no one *)
(* else can get past it, or has everything else it writes; who holds a     *)
(* position holds the one of its request.  Before there is an account, no  *)
(* request gets to a position row without holding it.                      *)
Exclusive == /\ lock \in [Row -> SUBSET Worker]
             /\ \A row \in Row : \A v, w \in lock[row] : v = w

AccountHolder(w) ==
  w \in lock["account"] =>
    /\ work[w].step \in {"position", "insert position", "evidence", "write"}
    /\ created => work[w].step = "write" /\ Writes(work[w].request) \subseteq Held(w)

CardHolder(w) ==
  \A c \in Card : w \in lock[c] =>
    /\ work[w].step \in {"evidence", "write"}
    /\ work[w].request.kind # "balance" /\ work[w].request.card = c

BeforeAccount(w) ==
  ~ created => \/ work[w].step \in {"idle", "account", "insert account"}
               \/ work[w].step = "position" /\ work[w].request.kind = "desired"
               \/ w \in lock["account"]

LockInv ==
  /\ Exclusive
  /\ \A w \in Worker : AccountHolder(w) /\ CardHolder(w) /\ BeforeAccount(w)
  /\ ~ created => \A c \in Card : position[c].status = "none"

LEMMA RowKinds == "account" \in Row /\ Card \subseteq Row /\ "account" \notin Card
BY RowAssumption DEF Row

(* A worker that takes a row leaves the locks of the others alone.         *)
LEMMA TakeRow ==
  ASSUME lock \in [Row -> SUBSET Worker], NEW w \in Worker, NEW d \in Row,
         lock' = [lock EXCEPT ![d] = {w}]
  PROVE  /\ lock' \in [Row -> SUBSET Worker] /\ lock'[d] = {w}
         /\ \A row \in Row : row = d \/ lock'[row] = lock[row]
OBVIOUS

(* The next row to write is one not yet held, the account last.            *)
LEMMA NextRowLeft ==
  ASSUME NEW w \in Worker, work[w].request \in Request,
         ~(Writes(work[w].request) \subseteq Held(w))
  PROVE  /\ NextRow(w) \in Row /\ w \notin lock[NextRow(w)]
         /\ NextRow(w) \in Writes(work[w].request)
         /\ NextRow(w) = "account" =>
              \A row \in Writes(work[w].request) : row = "account" \/ row \in Held(w)
<1> DEFINE r == work[w].request
           left == Writes(r) \ Held(w)
<1>1. /\ left # {}
      /\ left \subseteq Writes(r)
      /\ \A row \in left : row \in Row => w \notin lock[row]
  BY DEF Held
<1>2. \A row \in Writes(r) : row = "account" \/ row \in Card
  BY RequestFields DEF Writes
<1>3. CASE left = {"account"}
  <2>1. NextRow(w) = "account"
    BY <1>3 DEF NextRow
  <2>2. \A row \in Writes(r) : row = "account" \/ row \in Held(w)
    BY <1>3
  <2> QED BY <1>1, <1>3, <2>1, <2>2, RowKinds
<1>4. CASE left # {"account"}
  <2>1. \E c \in Card : c \in left
    BY <1>1, <1>2, <1>4
  <2>2. NextRow(w) = CHOOSE c \in Card : c \in left
    BY <1>4 DEF NextRow
  <2> HIDE DEF left
  <2>3. NextRow(w) \in Card /\ NextRow(w) \in left
    BY <2>1, <2>2
  <2> QED BY <1>1, <2>3, RowKinds
<1> QED
  BY <1>3, <1>4

LEMMA LocksNeverDeadlock == CInv /\ LockInv => NoDeadlock
<1> SUFFICES ASSUME CInv, LockInv, NEW u \in Worker, work[u].step # "idle"
             PROVE  \E w \in InFlight : ~ Blocked(w)
  BY DEF NoDeadlock, InFlight
<1>a. /\ \A row \in Row : lock[row] \subseteq Worker
      /\ \A row \in Row : \A v, w \in lock[row] : v = w
      /\ "account" \in Row /\ Card \subseteq Row
  BY RowKinds DEF LockInv, Exclusive
<1>b. \A w \in Worker : AccountHolder(w) /\ CardHolder(w) /\ BeforeAccount(w)
  BY DEF LockInv
<1>c. ASSUME NEW w \in Worker, work[w].step # "idle"
      PROVE  /\ work[w].request \in Request /\ Passed(work[w])
             /\ work[w].step = "insert position" => work[w].request.card \in Card
  <2>1. work[w].request \in Request /\ Passed(work[w])
    BY <1>c, ServingWorker
  <2> QED BY <2>1, RequestFields DEF Passed
<1>1. ASSUME NEW w \in lock["account"]
      PROVE  w \in InFlight /\ ~ Blocked(w)
  <2>1. w \in Worker
    BY <1>a
  <2>2. work[w].step \in {"position", "insert position", "evidence", "write"}
    BY <1>b, <2>1 DEF AccountHolder
  <2>3. CASE created
    <3>1. work[w].step = "write" /\ Writes(work[w].request) \subseteq Held(w)
      BY <1>b, <2>1, <2>3 DEF AccountHolder
    <3> QED BY <2>1, <3>1 DEF Blocked, InFlight
  <2>4. CASE ~ created
    <3>1. ASSUME NEW c \in Card, NEW v \in lock[c]
          PROVE  v = w /\ work[w].step \in {"evidence", "write"}
      <4>1. v \in Worker
        BY <1>a
      <4>2. work[v].step \in {"evidence", "write"}
        BY <1>b, <3>1, <4>1 DEF CardHolder
      <4>3. v \in lock["account"]
        BY <1>b, <2>4, <4>1, <4>2 DEF BeforeAccount
      <4> QED BY <1>a, <4>2, <4>3
    <3>2. CASE work[w].step = "insert position"
      <4>1. work[w].request.card \in Card
        BY <1>c, <2>1, <3>2
      <4>2. lock[work[w].request.card] = {}
        BY <3>1, <3>2, <4>1
      <4> QED BY <2>1, <3>2, <4>2 DEF Blocked, InFlight
    <3>3. CASE work[w].step = "write"
      <4> SUFFICES ASSUME ~(Writes(work[w].request) \subseteq Held(w)),
                          lock[NextRow(w)] # {}
                   PROVE  FALSE
        BY <2>1, <3>3 DEF Blocked, InFlight
      <4>1. work[w].request \in Request
        BY <1>c, <2>1, <3>3
      <4>2. NextRow(w) \in Row /\ w \notin lock[NextRow(w)]
        BY <2>1, <4>1, NextRowLeft
      <4>3. NextRow(w) \in Card
        BY <4>2 DEF Row
      <4> QED BY <3>1, <4>2, <4>3
    <3> QED BY <2>1, <2>2, <3>2, <3>3 DEF Blocked, InFlight
  <2> QED BY <2>3, <2>4
<1>2. ASSUME lock["account"] = {}, NEW c \in Card, NEW w \in lock[c]
      PROVE  w \in InFlight /\ ~ Blocked(w)
  <2>1. w \in Worker
    BY <1>a
  <2>2. /\ work[w].step \in {"evidence", "write"} /\ work[w].request.card = c
        /\ work[w].request.kind # "balance"
    BY <1>b, <2>1 DEF CardHolder
  <2>3. CASE work[w].step = "evidence"
    BY <2>1, <2>3 DEF Blocked, InFlight
  <2>4. CASE work[w].step = "write"
    <3> SUFFICES ASSUME ~(Writes(work[w].request) \subseteq Held(w)),
                        lock[NextRow(w)] # {}
                 PROVE  FALSE
      BY <2>1, <2>4 DEF Blocked, InFlight
    <3>1. work[w].request \in Request
      BY <1>c, <2>1, <2>4
    <3>2. /\ NextRow(w) \in Row /\ w \notin lock[NextRow(w)]
          /\ NextRow(w) \in Writes(work[w].request)
      BY <2>1, <3>1, NextRowLeft
    <3>3. \A row \in Writes(work[w].request) : row = "account" \/ row = c
      BY <2>2, <3>1, RequestFields DEF Writes
    <3>4. NextRow(w) = "account"
      BY <3>2, <3>3
    <3> QED BY <1>2, <3>4
  <2> QED BY <2>2, <2>3, <2>4
<1>3. ASSUME \A row \in Row : lock[row] = {}
      PROVE  u \in InFlight /\ ~ Blocked(u)
  <2>1. /\ work[u].request \in Request
        /\ work[u].step = "insert position" => work[u].request.card \in Row
    BY <1>a, <1>c
  <2>2. ~(Writes(work[u].request) \subseteq Held(u)) => lock[NextRow(u)] = {}
    BY <1>3, <2>1, NextRowLeft
  <2> QED BY <1>a, <1>3, <2>1, <2>2 DEF Blocked, InFlight
<1> QED
  BY <1>1, <1>2, <1>3 DEF Row

(* A step that takes no lock and changes no position: only the worker that *)
(* takes it can invalidate what is said of its locks.                      *)
LEMMA SameLocks ==
  ASSUME CInv, LockInv, NEW w \in Worker, NEW x, work' = [work EXCEPT ![w] = x],
         UNCHANGED <<tables, created, lock>>,
         w \in lock["account"] =>
           /\ x.step \in {"position", "insert position", "evidence", "write"}
           /\ ~ created,
         \A c \in Card : w \notin lock[c],
         ~ created => \/ x.step \in {"idle", "account", "insert account"}
                      \/ x.step = "position" /\ x.request.kind = "desired"
                      \/ w \in lock["account"]
  PROVE  LockInv'
<1>1. /\ work'[w] = x /\ \A v \in Worker \ {w} : work'[v] = work[v]
      /\ lock' = lock /\ position' = position
  BY DEF CInv, CTypeOK, tables
<1>2. created' <=> created
  OBVIOUS
<1>3. Exclusive'
  BY <1>1 DEF LockInv, Exclusive
<1>4. ASSUME NEW v \in Worker
      PROVE  AccountHolder(v)' /\ CardHolder(v)' /\ BeforeAccount(v)'
  <2>1. CASE v = w
    <3>1. AccountHolder(w)'
      BY <1>1, <1>2 DEF AccountHolder
    <3>2. CardHolder(w)'
      BY <1>1 DEF CardHolder
    <3>3. BeforeAccount(w)'
      BY <1>1, <1>2 DEF BeforeAccount
    <3> QED BY <2>1, <3>1, <3>2, <3>3
  <2>2. CASE v # w
    <3>1. work'[v] = work[v] /\ AccountHolder(v) /\ CardHolder(v) /\ BeforeAccount(v)
      BY <1>1, <2>2 DEF LockInv
    <3>2. AccountHolder(v)'
      BY <1>1, <1>2, <3>1 DEF AccountHolder, Held
    <3>3. CardHolder(v)'
      BY <1>1, <3>1 DEF CardHolder
    <3>4. BeforeAccount(v)'
      BY <1>1, <1>2, <3>1 DEF BeforeAccount
    <3> QED BY <3>2, <3>3, <3>4
  <2> QED BY <2>1, <2>2
<1>5. ~ created' => \A c \in Card : position'[c].status = "none"
  BY <1>1, <1>2 DEF LockInv
<1> QED
  BY <1>3, <1>4, <1>5 DEF LockInv

(* A step that ends a request releases its locks.                          *)
LEMMA Release ==
  ASSUME CInv, LockInv, NEW w \in Worker, work' = [work EXCEPT ![w] = Idle],
         lock' = [row \in Row |-> lock[row] \ {w}],
         created' = created \/ (created' /\ w \in lock["account"]),
         ~ created' => position' = position
  PROVE  LockInv'
<1>1. /\ work'[w] = Idle /\ \A v \in Worker \ {w} : work'[v] = work[v]
      /\ \A row \in Row : lock'[row] = lock[row] \ {w}
  BY DEF CInv, CTypeOK
<1>2. /\ \A row \in Row : lock[row] \subseteq Worker
      /\ \A row \in Row : \A u, v \in lock[row] : u = v
      /\ "account" \in Row /\ Card \subseteq Row
  BY RowKinds DEF LockInv, Exclusive
<1>3. Exclusive'
  BY <1>1, <1>2 DEF Exclusive
<1>4. ASSUME NEW v \in Worker
      PROVE  AccountHolder(v)' /\ CardHolder(v)' /\ BeforeAccount(v)'
  <2>1. CASE v = w
    <3>1. \A row \in Row : w \notin lock'[row]
      BY <1>1
    <3>2. AccountHolder(w)' /\ CardHolder(w)'
      BY <1>2, <3>1 DEF AccountHolder, CardHolder
    <3>3. work'[w].step = "idle"
      BY <1>1 DEF Idle
    <3>4. BeforeAccount(w)'
      BY <3>3, Zenon DEF BeforeAccount
    <3> QED BY <2>1, <3>2, <3>4
  <2>2. CASE v # w
    <3>1. work'[v] = work[v] /\ AccountHolder(v) /\ CardHolder(v) /\ BeforeAccount(v)
      BY <1>1, <2>2 DEF LockInv
    <3>2. Held(v)' = Held(v)
      BY <1>1, <2>2 DEF Held
    <3>3. v \in lock'["account"] => v \in lock["account"] /\ created' = created
      BY <1>1, <1>2, <2>2
    <3>4. AccountHolder(v)'
      BY <3>1, <3>2, <3>3 DEF AccountHolder
    <3>5. CardHolder(v)'
      BY <1>1, <1>2, <3>1 DEF CardHolder
    <3>6. BeforeAccount(v)'
      <4>1. ~ created' => ~ created
        OBVIOUS
      <4>2. v \in lock["account"] => v \in lock'["account"]
        BY <1>1, <1>2, <2>2
      <4> QED BY <3>1, <4>1, <4>2 DEF BeforeAccount
    <3> QED BY <3>4, <3>5, <3>6
  <2> QED BY <2>1, <2>2
<1>5. ~ created' => \A c \in Card : position'[c].status = "none"
  BY DEF LockInv
<1> QED
  BY <1>3, <1>4, <1>5 DEF LockInv

LEMMA LockPreserved ==
  ASSUME CInv, LockInv, [CNext]_cvars
  PROVE  LockInv'
<1>a. /\ \A row \in Row : lock[row] \subseteq Worker
      /\ \A row \in Row : \A u, v \in lock[row] : u = v
      /\ lock \in [Row -> SUBSET Worker]
      /\ "account" \in Row /\ Card \subseteq Row /\ "account" \notin Card
  BY RowKinds DEF LockInv, Exclusive
<1>b. \A w \in Worker : AccountHolder(w) /\ CardHolder(w) /\ BeforeAccount(w)
  BY DEF LockInv
<1>r. ASSUME NEW w \in Worker, Reject(w) PROVE LockInv'
  BY <1>r, Release DEF Reject, tables
<1>1. ASSUME NEW w \in Worker, NEW r \in Request, NEW at \in TradeTimes, Begin(w, r, at)
      PROVE  LockInv'
  <2> DEFINE x == [step |-> IF r.kind = "desired" THEN "position" ELSE "account",
                   request |-> r, at |-> at, account |-> account,
                   position |-> NoPosition, evidence |-> <<>>]
  <2>1. /\ work' = [work EXCEPT ![w] = x] /\ UNCHANGED <<tables, created, lock>>
        /\ work[w].step = "idle"
    BY <1>1 DEF Begin, Idle
  <2>2. w \notin lock["account"] /\ \A c \in Card : w \notin lock[c]
    BY <1>b, <2>1 DEF AccountHolder, CardHolder
  <2>3. \/ x.step = "account"
        \/ x.step = "position" /\ x.request.kind = "desired"
    OBVIOUS
  <2> HIDE DEF x
  <2> QED BY <2>1, <2>2, <2>3, SameLocks
<1>2. ASSUME NEW w \in Worker, NEW c \in Card, NEW listings \in Books,
             NEW typed \in Price \cup {None}, NEW at \in 1..now,
             Check(w, c, listings, typed, at)
      PROVE  LockInv'
  BY <1>2 DEF Check, ObserveListings, LockInv, Exclusive, AccountHolder, CardHolder,
     BeforeAccount, Held
<1>3. ASSUME NEW w \in Worker, ReadAccount(w) PROVE LockInv'
  <2> DEFINE s == IF created THEN AfterAccount(work[w].request) ELSE "insert account"
             x == [work[w] EXCEPT !.account = account, !.step = s]
  <2>1. work[w].step = "account" /\ UNCHANGED <<tables, created, lock>>
    BY <1>3 DEF ReadAccount
  <2>2. work[w] \in Serving
    BY <2>1, ServingWorker
  <2>3. work' = [work EXCEPT ![w] = x]
    BY <1>3, <2>2 DEF ReadAccount, CInv, CTypeOK
  <2>4. w \notin lock["account"] /\ \A c \in Card : w \notin lock[c]
    BY <1>b, <2>1 DEF AccountHolder, CardHolder
  <2>5. ~ created => x.step = "insert account"
    BY <2>2 DEF Serving
  <2> HIDE DEF x
  <2> QED BY <2>1, <2>3, <2>4, <2>5, SameLocks
<1>4. ASSUME NEW w \in Worker, InsertAccount(w), ~ Reject(w) PROVE LockInv'
  <2> DEFINE s == AfterAccount(work[w].request)
             x == [work[w] EXCEPT !.step = s]
  <2>1. /\ work[w].step = "insert account" /\ lock["account"] = {} /\ ~ created
        /\ lock' = [lock EXCEPT !["account"] = {w}]
        /\ work' = [work EXCEPT ![w] = x]
        /\ UNCHANGED <<tables, created>>
    BY <1>4 DEF InsertAccount, Goto
  <2>2. /\ lock' \in [Row -> SUBSET Worker] /\ lock'["account"] = {w}
        /\ \A c \in Card : lock'[c] = lock[c]
        /\ \A row \in Row : row = "account" \/ lock'[row] = lock[row]
    BY <1>a, <2>1
  <2>3. /\ work'[w] = x /\ \A v \in Worker \ {w} : work'[v] = work[v]
        /\ position' = position
    BY <2>1 DEF CInv, CTypeOK, tables
  <2>4. work[w] \in Serving
    BY <2>1, ServingWorker
  <2>5. x.step \in {"position", "write"}
    BY <2>4 DEF AfterAccount, Serving
  <2> HIDE DEF x
  <2>6. Exclusive'
    BY <1>a, <2>2 DEF Exclusive
  <2>7. ASSUME NEW v \in Worker
        PROVE  AccountHolder(v)' /\ CardHolder(v)' /\ BeforeAccount(v)'
    <3>1. CASE v = w
      <4>1. \A c \in Card : w \notin lock[c]
        BY <1>b, <2>1 DEF CardHolder
      <4> QED BY <2>1, <2>2, <2>3, <2>5, <3>1, <4>1
              DEF AccountHolder, CardHolder, BeforeAccount
    <3>2. CASE v # w
      BY <1>b, <2>1, <2>2, <2>3, <3>2 DEF AccountHolder, CardHolder, BeforeAccount
    <3> QED BY <3>1, <3>2
  <2> QED BY <2>1, <2>3, <2>6, <2>7 DEF LockInv
<1>5. ASSUME NEW w \in Worker, ReadPosition(w), ~ Reject(w) PROVE LockInv'
  <2> DEFINE r == work[w].request
             pos == position[r.card]
             s == IF r.kind = "buy"
                  THEN IF pos.status = "none" THEN "insert position" ELSE "evidence"
                  ELSE "write"
             x == [work[w] EXCEPT !.position = pos, !.step = s]
  <2>1. work[w].step = "position"
    BY <1>5 DEF ReadPosition
  <2>2. work[w] \in Serving /\ r \in Request
    BY <2>1, ServingWorker
  <2>3. /\ work' = [work EXCEPT ![w] = x] /\ UNCHANGED <<tables, created, lock>>
        /\ r.kind = "desired" => pos.status # "none"
    BY <1>5, <2>2 DEF ReadPosition, CInv, CTypeOK
  <2>4. \A c \in Card : w \notin lock[c]
    BY <1>b, <2>1 DEF CardHolder
  <2>5. w \in lock["account"] => ~ created
    BY <1>b, <2>1 DEF AccountHolder
  <2>6. ~ created => w \in lock["account"]
    <3> SUFFICES ASSUME ~ created, r.kind = "desired" PROVE FALSE
      BY <1>b, <2>1 DEF BeforeAccount
    <3>1. r.card \in Card
      BY <2>2, RequestFields
    <3>2. pos.status = "none"
      BY <3>1 DEF LockInv
    <3> QED BY <2>3, <3>2
  <2>7. x.step \in {"insert position", "evidence", "write"}
    BY <2>2 DEF Serving
  <2> HIDE DEF x
  <2> QED BY <2>3, <2>4, <2>5, <2>6, <2>7, SameLocks
<1>6. ASSUME NEW w \in Worker, InsertPosition(w), ~ Reject(w) PROVE LockInv'
  <2> DEFINE c == work[w].request.card
             x == [work[w] EXCEPT !.step = "evidence"]
  <2>1. /\ work[w].step = "insert position" /\ lock[c] = {}
        /\ lock' = [lock EXCEPT ![c] = {w}]
        /\ work' = [work EXCEPT ![w] = x]
        /\ UNCHANGED <<tables, created>>
    BY <1>6 DEF InsertPosition, Goto
  <2>2. work[w] \in Serving /\ work[w].request \in Request /\ Passed(work[w])
    BY <2>1, ServingWorker
  <2>3. work[w].request.kind = "buy" /\ c \in Card
    BY <2>1, <2>2, RequestFields DEF Passed
  <2>4. x.step = "evidence" /\ x.request = work[w].request
    BY <2>2 DEF Serving
  <2>5. /\ work'[w] = x /\ \A v \in Worker \ {w} : work'[v] = work[v]
        /\ position' = position
    BY <2>1 DEF CInv, CTypeOK, tables
  <2> HIDE DEF x
  <2>6. /\ lock' \in [Row -> SUBSET Worker] /\ lock'[c] = {w}
        /\ \A row \in Row : row = c \/ lock'[row] = lock[row]
        /\ lock'["account"] = lock["account"]
    <3>1. PICK d \in Row : d = c
      BY <2>3, RowKinds
    <3>2. lock' = [lock EXCEPT ![d] = {w}] /\ lock \in [Row -> SUBSET Worker]
      BY <1>a, <2>1, <3>1
    <3>3. "account" \in Row /\ "account" # d
      BY <2>3, <3>1, RowKinds
    <3>4. /\ lock' \in [Row -> SUBSET Worker] /\ lock'[d] = {w}
          /\ \A row \in Row : row = d \/ lock'[row] = lock[row]
      BY <3>2, TakeRow
    <3> HIDE DEF c
    <3> QED
      BY <3>1, <3>3, <3>4
  <2>7. Exclusive'
    BY <1>a, <2>6 DEF Exclusive
  <2>8. ASSUME NEW v \in Worker
        PROVE  AccountHolder(v)' /\ CardHolder(v)' /\ BeforeAccount(v)'
    <3>1. CASE v = w
      <4>1. \A d \in Card : w \notin lock[d]
        BY <1>b, <2>1 DEF CardHolder
      <4>2. /\ w \in lock["account"] => ~ created
            /\ ~ created => w \in lock["account"]
        BY <1>b, <2>1 DEF AccountHolder, BeforeAccount
      <4>3. \A d \in Card : w \in lock'[d] => d = c
        BY <1>a, <2>6, <4>1
      <4>4. CardHolder(w)'
        BY <2>3, <2>4, <2>5, <4>3 DEF CardHolder
      <4> QED BY <2>1, <2>4, <2>5, <2>6, <3>1, <4>2, <4>4
              DEF AccountHolder, BeforeAccount
    <3>2. CASE v # w
      <4>1. work'[v] = work[v] /\ created' = created
        BY <2>1, <2>5, <3>2
      <4>2. \A row \in Row : v \in lock'[row] <=> v \in lock[row]
        BY <2>1, <2>6, <3>2
      <4>3. Held(v)' = Held(v)
        BY <4>2 DEF Held
      <4>4. created' <=> created
        BY <2>1
      <4>5. v \in lock'["account"] <=> v \in lock["account"]
        BY <2>6
      <4>6. AccountHolder(v)'
        BY <1>b, <4>1, <4>3, <4>4, <4>5 DEF AccountHolder
      <4>7. CardHolder(v)'
        BY <1>a, <1>b, <4>1, <4>2 DEF CardHolder
      <4>8. BeforeAccount(v)'
        BY <1>b, <4>1, <4>4, <4>5 DEF BeforeAccount
      <4> QED BY <4>6, <4>7, <4>8
    <3> QED BY <3>1, <3>2
  <2> QED BY <2>1, <2>5, <2>7, <2>8 DEF LockInv
<1>7. ASSUME NEW w \in Worker, ReadEvidence(w) PROVE LockInv'
  <2> DEFINE x == [work[w] EXCEPT !.evidence = evidence[work[w].request.card],
                                  !.step = "write"]
  <2>1. work[w].step = "evidence" /\ UNCHANGED <<tables, created, lock>>
    BY <1>7 DEF ReadEvidence
  <2>2. work[w] \in Serving
    BY <2>1, ServingWorker
  <2>3. work' = [work EXCEPT ![w] = x]
    BY <1>7, <2>2 DEF ReadEvidence, CInv, CTypeOK
  <2>4. x.step = "write" /\ x.request = work[w].request
    BY <2>2 DEF Serving
  <2> HIDE DEF x
  <2>5. /\ work'[w] = x /\ \A v \in Worker \ {w} : work'[v] = work[v]
        /\ position' = position /\ created' = created /\ lock' = lock
    BY <2>1, <2>3 DEF CInv, CTypeOK, tables
  <2>6. Exclusive'
    BY <2>5 DEF LockInv, Exclusive
  <2>7. ASSUME NEW v \in Worker
        PROVE  AccountHolder(v)' /\ CardHolder(v)' /\ BeforeAccount(v)'
    <3>1. created' <=> created
      BY <2>1
    <3>2. CASE v = w
      <4>1. w \in lock["account"] <=> ~ created
        BY <1>b, <2>1 DEF AccountHolder, BeforeAccount
      <4>2. AccountHolder(w)'
        BY <2>4, <2>5, <3>1, <4>1 DEF AccountHolder
      <4>3. CardHolder(w)'
        BY <1>b, <2>4, <2>5 DEF CardHolder
      <4>4. BeforeAccount(w)'
        BY <2>5, <3>1, <4>1 DEF BeforeAccount
      <4> QED BY <3>2, <4>2, <4>3, <4>4
    <3>3. CASE v # w
      <4>1. work'[v] = work[v] /\ Held(v)' = Held(v)
        BY <2>5, <3>3 DEF Held
      <4>2. AccountHolder(v)'
        BY <1>b, <2>5, <3>1, <4>1 DEF AccountHolder
      <4>3. CardHolder(v)'
        BY <1>b, <2>5, <4>1 DEF CardHolder
      <4>4. BeforeAccount(v)'
        BY <1>b, <2>5, <3>1, <4>1 DEF BeforeAccount
      <4> QED BY <4>2, <4>3, <4>4
    <3> QED BY <3>2, <3>3
  <2> QED BY <2>5, <2>6, <2>7 DEF LockInv
<1>8. ASSUME NEW w \in Worker, WriteRow(w) PROVE LockInv'
  <2> DEFINE n == NextRow(w)
             r == work[w].request
  <2>1. /\ work[w].step = "write" /\ ~(Writes(r) \subseteq Held(w)) /\ lock[n] = {}
        /\ lock' = [lock EXCEPT ![n] = {w}]
        /\ UNCHANGED <<tables, created, work>>
    BY <1>8 DEF WriteRow
  <2>2. r \in Request
    BY <2>1, ServingWorker
  <2>3. /\ n \in Row /\ w \notin lock[n] /\ n \in Writes(r)
        /\ n = "account" => \A row \in Writes(r) : row = "account" \/ row \in Held(w)
    BY <2>1, <2>2, NextRowLeft
  <2>4. position' = position
    BY <2>1 DEF tables
  <2> HIDE DEF n
  <2>5. /\ lock' \in [Row -> SUBSET Worker] /\ lock'[n] = {w}
        /\ \A row \in Row : row = n \/ lock'[row] = lock[row]
    BY <1>a, <2>1, <2>3
  <2>6. Exclusive'
    BY <1>a, <2>5 DEF Exclusive
  <2>7. ASSUME NEW v \in Worker
        PROVE  AccountHolder(v)' /\ CardHolder(v)' /\ BeforeAccount(v)'
    <3>1. \A row \in Row : v \in lock[row] => v \in lock'[row]
      BY <2>1, <2>5
    <3>2. Held(v) \subseteq Held(v)'
      BY <3>1 DEF Held
    <3>3. BeforeAccount(v)'
      BY <1>a, <1>b, <2>1, <3>1 DEF BeforeAccount
    <3>4. CASE v # w
      <4>1. \A row \in Row : v \in lock'[row] => v \in lock[row]
        BY <2>5, <3>4
      <4> QED BY <1>a, <1>b, <2>1, <3>2, <3>3, <4>1 DEF AccountHolder, CardHolder
    <3>5. CASE v = w
      <4>1. \A row \in Row : w \in lock'[row] => w \in lock[row] \/ row = n
        BY <2>5
      <4>2. \A c \in Card : c = n => r.kind # "balance" /\ r.card = c
        BY <1>a, <2>2, <2>3, RequestFields DEF Writes
      <4>3. CardHolder(w)'
        BY <1>a, <1>b, <2>1, <4>1, <4>2 DEF CardHolder
      <4>4. ASSUME created, w \in lock'["account"]
            PROVE  Writes(r) \subseteq Held(w)'
        <5>1. n = "account"
          BY <1>a, <1>b, <2>1, <4>1, <4>4 DEF AccountHolder
        <5>2. \A row \in Writes(r) : row = "account" \/ row \in Held(w)
          BY <2>3, <5>1
        <5>3. "account" \in Held(w)'
          BY <1>a, <4>4 DEF Held
        <5> QED BY <3>2, <3>5, <5>2, <5>3
      <4>5. AccountHolder(w)'
        BY <2>1, <4>4 DEF AccountHolder
      <4> QED BY <3>3, <3>5, <4>3, <4>5
    <3> QED BY <3>4, <3>5
  <2> QED BY <2>1, <2>4, <2>6, <2>7 DEF LockInv
<1>9. ASSUME NEW w \in Worker, Commit(w) PROVE LockInv'
  <2>1. /\ work[w].step = "write"
        /\ created' = (created \/ "account" \in Held(w))
        /\ work' = [work EXCEPT ![w] = Idle]
        /\ lock' = [row \in Row |-> lock[row] \ {w}]
    BY <1>9 DEF Commit
  <2>2. created'
    BY <1>a, <1>b, <2>1 DEF BeforeAccount, Held
  <2>3. created \/ w \in lock["account"]
    BY <1>b, <2>1 DEF BeforeAccount
  <2>4. created' = created \/ (created' /\ w \in lock["account"])
    <3>1. created \in BOOLEAN /\ created' \in BOOLEAN
      BY <2>1 DEF CInv, CTypeOK
    <3> QED BY <2>2, <2>3, <3>1
  <2> QED BY <2>1, <2>2, <2>4, Release
<1>10. CASE UNCHANGED cvars
  BY <1>10 DEF cvars, tables, LockInv, Exclusive, AccountHolder, CardHolder,
     BeforeAccount, Held
<1> QED
  BY <1>r, <1>1, <1>2, <1>3, <1>4, <1>5, <1>6, <1>7, <1>8, <1>9, <1>10 DEF CNext, Step

(* Whatever rows the requests in flight hold, one of them does not wait:   *)
(* there is no cycle of requests waiting for each other's rows.            *)
THEOREM NoDeadlockCorrect == CSpec => []NoDeadlock
<1>1. CInit => LockInv
  <2> SUFFICES ASSUME CInit PROVE LockInv
    OBVIOUS
  <2>1. /\ lock = [row \in Row |-> {}] /\ work = [w \in Worker |-> Idle]
        /\ position = [c \in Card |-> NoPosition]
    BY DEF CInit, Init
  <2>2. Exclusive
    BY <2>1 DEF Exclusive
  <2>3. \A w \in Worker : AccountHolder(w) /\ CardHolder(w) /\ BeforeAccount(w)
    BY <2>1, RowKinds DEF AccountHolder, CardHolder, BeforeAccount, Idle
  <2>4. \A c \in Card : position[c].status = "none"
    BY <2>1 DEF NoPosition
  <2> QED BY <2>2, <2>3, <2>4 DEF LockInv
<1>2. CInv /\ LockInv /\ [CNext]_cvars => LockInv'
  BY LockPreserved
<1>3. CInv /\ LockInv => NoDeadlock
  BY LocksNeverDeadlock
<1> QED
  BY <1>1, <1>2, <1>3, CInvCorrect, PTL DEF CSpec
=============================================================================
