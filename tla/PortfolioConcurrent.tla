------------------------ MODULE PortfolioConcurrent ------------------------
(***************************************************************************)
(* The trading ledger when API requests overlap.  Every endpoint runs in a *)
(* thread of the server with a database session of its own, at READ        *)
(* COMMITTED and without SELECT ... FOR UPDATE: it reads the account, the  *)
(* position and the latest evidence in separate statements, computes new   *)
(* absolute column values in memory, and writes the columns it changed.    *)
(* Rows are locked from the statement that writes them to the commit; an   *)
(* insert waits for another one of the same unique key.                    *)
(*                                                                         *)
(* The tables are PortfolioLedger's variables and hold what is committed;  *)
(* a request's reads and pending writes are in its work record.            *)
(***************************************************************************)
EXTENDS PortfolioLedger, FiniteSets

CONSTANT Worker   \* the server's request threads

ASSUME WorkerAssumption == IsFiniteSet(Worker)

(* The rows of the two tables are told apart.                              *)
ASSUME RowAssumption == "account" \notin Card

VARIABLES
  created,   \* whether the trading_accounts row exists
  work,      \* worker -> the request it serves
  lock,      \* row -> the set of workers (at most one) that hold it
  raced,     \* history: a request overwrote a row changed since it was read
  serial     \* history: the balances some of the requests leave one by one

tables == <<account, position, book, trades, evidence, now>>
cvars == <<tables, created, work, lock, raced, serial>>

Row == Card \cup {"account"}

Request ==
  [kind : {"buy", "sell"}, card : Card, quantity : Quantity, price : Price]
    \cup [kind : {"desired"}, card : Card, price : Price \cup {None}]
    \cup [kind : {"balance"}, coins : Balance]

Idle == [step |-> "idle"]

InFlight == {w \in Worker : work[w].step # "idle"}

-----------------------------------------------------------------------------
(* What a request computes from the rows it read.                          *)

Gross(r) == r.quantity * r.price
Net(r)   == Gross(r) - Tax(Gross(r))
Basis(r, pos) == pos.average * r.quantity

(* Faulty variant: the guard compares the balance with the unit price.     *)
AffordsOne(r, acc) == acc.coins >= r.price

Affords(r, acc) == acc.coins >= Gross(r)

NewAccount(r, acc, pos) ==
  CASE r.kind = "buy"     -> [acc EXCEPT !.coins = @ - Gross(r)]
    [] r.kind = "sell"    -> [coins |-> acc.coins + Net(r),
                              realized |-> acc.realized + Net(r) - Basis(r, pos),
                              tax |-> acc.tax + Tax(Gross(r))]
    [] r.kind = "balance" -> [acc EXCEPT !.coins = r.coins]
    [] r.kind = "desired" -> acc

NewPosition(r, pos) ==
  CASE r.kind = "buy"     -> Bought(pos, r.quantity, Gross(r))
    [] r.kind = "sell"    -> Sold(pos, r.quantity)
    [] r.kind = "desired" -> [pos EXCEPT !.desired = r.price]

(* The sums over the transaction rows with the request's row added.        *)
Booked(r, acc, pos) ==
  CASE r.kind = "buy"     -> [book EXCEPT !.flow = @ - Gross(r), !.paid = @ + Gross(r)]
    [] r.kind = "sell"    -> [book EXCEPT !.flow = @ + Net(r),
                                          !.realized = @ + Net(r) - Basis(r, pos),
                                          !.tax = @ + Tax(Gross(r)),
                                          !.released = @ + Basis(r, pos)]
    [] r.kind = "balance" -> LET delta == r.coins - acc.coins
                             IN [book EXCEPT !.flow = @ + delta, !.adjusted = @ + delta]
    [] r.kind = "desired" -> book

TradesAfter(r) ==
  CASE r.kind = "buy"  -> [trades EXCEPT ![r.card].bought = @ + r.quantity]
    [] r.kind = "sell" -> [trades EXCEPT ![r.card].sold = @ + r.quantity]
    [] OTHER           -> trades

(* Faulty variant: the account is updated relative to its current values,  *)
(* as SET coins = coins - total would.                                     *)
MergeRelative(current, read, written) ==
  [f \in DOMAIN current |->
     IF written[f] = read[f] THEN current[f]
     ELSE IF f \in {"coins", "realized", "tax"} THEN current[f] + written[f] - read[f]
     ELSE written[f]]

(* An UPDATE writes the columns whose value differs from the one read.     *)
Merge(current, read, written) ==
  [f \in DOMAIN current |-> IF written[f] # read[f] THEN written[f] ELSE current[f]]

(* The derived row is computed from the evidence read, and inserted after  *)
(* whatever has been committed since.                                      *)
Derived(r, read, at) ==
  LET after == AfterPurchase(read, r.price, r.quantity, at)
  IN IF after = read THEN evidence[r.card]
     ELSE Append(evidence[r.card], after[Len(after)])

-----------------------------------------------------------------------------
(* The steps of a request.                                                 *)

CInit ==
  /\ Init
  /\ created = FALSE
  /\ work = [w \in Worker |-> Idle]
  /\ lock = [row \in Row |-> {}]
  /\ raced = FALSE
  /\ serial = {0}

Goto(w, step) == work' = [work EXCEPT ![w].step = step]

Held(w) == {row \in Row : w \in lock[row]}

(* An error response: the session closes without a commit.                 *)
Reject(w) ==
  /\ work' = [work EXCEPT ![w] = Idle]
  /\ lock' = [row \in Row |-> lock[row] \ {w}]
  /\ UNCHANGED <<tables, created, raced, serial>>

(* A request arrives; requests in flight count against MaxRequests.        *)
Begin(w, r, at) ==
  /\ work[w] = Idle
  /\ now + Cardinality(InFlight) <= MaxRequests
  /\ work' = [work EXCEPT ![w] =
                [step |-> IF r.kind = "desired" THEN "position" ELSE "account",
                 request |-> r, at |-> at, account |-> account,
                 position |-> NoPosition, evidence |-> <<>>]]
  /\ UNCHANGED <<tables, created, lock, raced, serial>>

AfterAccount(r) == IF r.kind = "balance" THEN "write" ELSE "position"

(* get_or_create_account: the row is there, or will have to be inserted.   *)
ReadAccount(w) ==
  /\ work[w].step = "account"
  /\ work' = [work EXCEPT ![w].account = account,
                          ![w].step = IF created THEN AfterAccount(work[w].request)
                                      ELSE "insert account"]
  /\ UNCHANGED <<tables, created, lock, raced, serial>>

(* The unique name: the insert waits for another one, and fails if that    *)
(* one has committed.                                                      *)
InsertAccount(w) ==
  /\ work[w].step = "insert account"
  /\ lock["account"] = {}
  /\ \/ created /\ Reject(w)
     \/ /\ ~created
        /\ lock' = [lock EXCEPT !["account"] = {w}]
        /\ Goto(w, AfterAccount(work[w].request))
        /\ UNCHANGED <<tables, created, raced, serial>>

(* The balance guard, then the SELECT of the position; a sale or a desired *)
(* price needs a row, a purchase inserts the one it does not find.         *)
ReadPosition(w) ==
  LET r   == work[w].request
      pos == position[r.card]
  IN /\ work[w].step = "position"
     /\ \/ /\ r.kind = "buy" /\ Affords(r, work[w].account)
           /\ work' = [work EXCEPT ![w].position = pos,
                                   ![w].step = IF pos.status = "none"
                                               THEN "insert position" ELSE "evidence"]
           /\ UNCHANGED <<tables, created, lock, raced, serial>>
        \/ /\ \/ r.kind = "sell" /\ pos.quantity >= r.quantity
              \/ r.kind = "desired" /\ pos.status # "none"
           /\ work' = [work EXCEPT ![w].position = pos, ![w].step = "write"]
           /\ UNCHANGED <<tables, created, lock, raced, serial>>
        \/ /\ \/ r.kind = "buy" /\ ~Affords(r, work[w].account)
              \/ r.kind = "sell" /\ pos.quantity < r.quantity
              \/ r.kind = "desired" /\ pos.status = "none"
           /\ Reject(w)

(* uq_portfolio_account_card_segment                                       *)
InsertPosition(w) ==
  LET c == work[w].request.card
  IN /\ work[w].step = "insert position"
     /\ lock[c] = {}
     /\ \/ position[c].status # "none" /\ Reject(w)
        \/ /\ position[c].status = "none"
           /\ lock' = [lock EXCEPT ![c] = {w}]
           /\ Goto(w, "evidence")
           /\ UNCHANGED <<tables, created, raced, serial>>

(* The SELECT of _consume_observed_listings_after_purchase.                *)
ReadEvidence(w) ==
  /\ work[w].step = "evidence"
  /\ work' = [work EXCEPT ![w].evidence = evidence[work[w].request.card],
                          ![w].step = "write"]
  /\ UNCHANGED <<tables, created, lock, raced, serial>>

(* The rows a request updates.                                             *)
Writes(r) ==
  CASE r.kind \in {"buy", "sell"} -> {r.card, "account"}
    [] r.kind = "balance"         -> {"account"}
    [] r.kind = "desired"         -> {r.card}

(* Faulty variant: a sale credits the account before it updates the        *)
(* position.                                                               *)
NextRowByKind(w) ==
  LET left == Writes(work[w].request) \ Held(w)
  IN IF (work[w].request.kind = "sell" /\ "account" \in left) \/ left = {"account"}
     THEN "account" ELSE CHOOSE c \in Card : c \in left

(* The flush writes mapper by mapper: positions before the account.        *)
NextRow(w) ==
  LET left == Writes(work[w].request) \ Held(w)
  IN IF left = {"account"} THEN "account" ELSE CHOOSE c \in Card : c \in left

WriteRow(w) ==
  /\ work[w].step = "write"
  /\ ~(Writes(work[w].request) \subseteq Held(w))
  /\ lock[NextRow(w)] = {}
  /\ lock' = [lock EXCEPT ![NextRow(w)] = {w}]
  /\ UNCHANGED <<tables, created, work, raced, serial>>

(* A balance that a request makes of the balance v.                        *)
Leaves(r, acc, pos, v) ==
  IF r.kind = "balance" THEN r.coins
  ELSE v + Booked(r, acc, pos).flow - book.flow

Stale(w) ==
  LET r == work[w].request
  IN \/ "account" \in Writes(r) /\ work[w].account # account
     \/ r.kind # "balance" /\ work[w].position # position[r.card]

Commit(w) ==
  LET r   == work[w].request
      acc == work[w].account
      pos == work[w].position
  IN /\ work[w].step = "write"
     /\ Writes(r) \subseteq Held(w)
     /\ now' = now + 1
     /\ account' = Merge(account, acc, NewAccount(r, acc, pos))
     /\ position' = IF r.kind = "balance" THEN position
                    ELSE [position EXCEPT ![r.card] = Merge(@, pos, NewPosition(r, pos))]
     /\ book' = Booked(r, acc, pos)
     /\ trades' = TradesAfter(r)
     /\ evidence' = IF r.kind # "buy" THEN evidence
                    ELSE [evidence EXCEPT ![r.card] =
                            Derived(r, work[w].evidence, work[w].at)]
     /\ created' = (created \/ "account" \in Held(w))
     /\ lock' = [row \in Row |-> lock[row] \ {w}]
     /\ work' = [work EXCEPT ![w] = Idle]
     /\ raced' = (raced \/ Stale(w))
     /\ serial' = serial \cup {Leaves(r, acc, pos, v) : v \in serial}

(* A market check is one insert.                                           *)
Check(w, c, listings, typed, at) ==
  /\ work[w] = Idle
  /\ now + Cardinality(InFlight) <= MaxRequests
  /\ ObserveListings(c, listings, typed, at)
  /\ UNCHANGED <<created, work, lock, raced, serial>>

Step(w) ==
  \/ ReadAccount(w)
  \/ InsertAccount(w)
  \/ ReadPosition(w)
  \/ InsertPosition(w)
  \/ ReadEvidence(w)
  \/ WriteRow(w)
  \/ Commit(w)

CNext ==
  \E w \in Worker :
    \/ \E r \in Request, at \in TradeTimes : Begin(w, r, at)
    \/ \E c \in Card, listings \in Books, typed \in Price \cup {None}, at \in 1..now :
         Check(w, c, listings, typed, at)
    \/ Step(w)

(* The server's threads are scheduled, and PostgreSQL wakes the waiters of *)
(* a row or of an inserted key in turn: a wait that can end again and      *)
(* again does end.                                                         *)
CSpec == CInit /\ [][CNext]_cvars /\ \A w \in Worker : SF_cvars(Step(w))

-----------------------------------------------------------------------------
(* Properties.                                                             *)

(* Every request is answered: the locks are taken in one order, so no two  *)
(* requests wait for each other.                                           *)
EveryRequestCompletes == \A w \in Worker : w \in InFlight ~> w \notin InFlight

(* Overlapping requests may lose the effect of one another on the balance, *)
(* a debit as well as a credit, but only as a whole: the balance is always *)
(* one that some of the committed requests, run one after the other, would *)
(* have left.                                                              *)
LostNotInvented == account.coins \in serial

(* Only a request that overwrites a row changed since it read it harms the *)
(* books: as long as none has, every sum and every position agrees.        *)
NoRaceNoLoss == ~raced => CashIdentity /\ PositionsFollowTrades

(* With one request at a time the server is the sequential ledger.         *)
ImplementsLedger == Spec
=============================================================================
