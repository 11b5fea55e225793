------------------------ MODULE ReferencePricesProofs ------------------------
(***************************************************************************)
(* Proofs about reference prices, for any providers, prices and number of  *)
(* workers, whatever overlaps: type correctness, that a quote is only      *)
(* disbelieved on the word of a committed valid one, that what was known   *)
(* at a cutoff settles, that the readers agree and that levels move by     *)
(* degrees.                                                                *)
(*                                                                         *)
(* Rows that are judged but not committed need the same anchor, among the  *)
(* committed rows (Founded), and the anchor must have been inserted before *)
(* the row is stamped: no committed row is younger than the clock.         *)
(*                                                                         *)
(* The last two are about series whose retrievals did not overlap. There   *)
(* the rows are in the same order by both of their stamps, and what is     *)
(* being retrieved is younger than what is stored, and is judged by the    *)
(* level that is still the level when it commits (CalmInv).                *)
(***************************************************************************)
EXTENDS ReferencePrices, TLAPS

(* A positive row that is not believed has its anchor.                     *)
Founded(o) ==
  o.quality # "VALID" /\ o.price > 0 =>
    \E p \in ValidOf(Series(o.source, o.platform)) :
      /\ p.inserted <= o.inserted
      /\ Apart(IF o.quality = "SUSPECT" THEN 10 ELSE 100, o.price, p.price)

PendingFounded ==
  \A w \in Worker : poll[w].step = "judged" => \A o \in poll[w].rows : Founded(o)

StampedByNow ==
  /\ \A o \in observation : o.inserted <= clock
  /\ \A w \in Worker : poll[w].step = "judged" => \A o \in poll[w].rows : o.inserted <= clock

Inv == TypeOK /\ DoubtHasAnchor /\ PendingFounded /\ StampedByNow

-----------------------------------------------------------------------------

(* What a retrieval holds at each step.                                    *)
LEMMA PollFields ==
  ASSUME TypeOK, NEW w \in Worker
  PROVE  /\ poll[w].step \in {"idle", "fetched", "judged"}
         /\ poll[w].step = "fetched" =>
              /\ poll[w].source \in Source
              /\ poll[w].observed \in Nat
              /\ poll[w].quote \in Quotes
         /\ poll[w].step = "judged" =>
              /\ poll[w].source \in Source
              /\ poll[w].observed \in Nat
              /\ poll[w].rows \subseteq Observation
<1>1. poll[w] \in Poll
  BY DEF TypeOK
<1> QED
  BY <1>1 DEF Poll, Idle

(* A judgment is one of the three qualities.                               *)
LEMMA QualityType ==
  ASSUME NEW source, NEW platform, NEW price
  PROVE  QualityOf(source, platform, price) \in Quality
BY DEF QualityOf, Judgment, Quality

(* A positive quote that is not believed is far from the last valid one.   *)
LEMMA DisbeliefIsFounded ==
  ASSUME NEW source, NEW platform, NEW price \in Nat, price > 0,
         QualityOf(source, platform, price) # "VALID"
  PROVE  \E p \in ValidOf(Series(source, platform)) :
           Apart(IF QualityOf(source, platform, price) = "SUSPECT" THEN 10 ELSE 100,
                 price, p.price)
<1> DEFINE previous == Previous(source, platform)
<1>1. previous \subseteq ValidOf(Series(source, platform))
  BY DEF Previous, Newest
<1>2. QualityOf(source, platform, price) = Judgment(price, previous)
  BY DEF QualityOf
<1>3. ~(price <= 0)
  OBVIOUS
<1>4. CASE \E p \in previous : p.price > 0 /\ Apart(100, price, p.price)
  <2>1. QualityOf(source, platform, price) = "QUARANTINED"
    BY <1>2, <1>4 DEF Judgment
  <2> QED
    BY <1>1, <1>4, <2>1
<1>5. CASE ~\E p \in previous : p.price > 0 /\ Apart(100, price, p.price)
  <2>1. /\ QualityOf(source, platform, price) = "SUSPECT"
        /\ \E p \in previous : p.price > 0 /\ Apart(10, price, p.price)
    BY <1>2, <1>3, <1>5 DEF Judgment
  <2> QED
    BY <1>1, <2>1
<1> QED
  BY <1>4, <1>5

(* What the rows of a retrieval are: typed, stamped now and founded.       *)
LEMMA RowsAreSound ==
  ASSUME Inv, NEW w \in Worker, poll[w].step = "fetched", clock' = clock + 1
  PROVE  \A o \in RowsOf(w) : o \in Observation /\ o.inserted = clock' /\ Founded(o)
<1> SUFFICES ASSUME NEW platform \in Platform, poll[w].quote[platform] # NoQuote,
                    NEW o, o = [source |-> poll[w].source, platform |-> platform,
                                price |-> poll[w].quote[platform],
                                quality |-> QualityOf(poll[w].source, platform,
                                                      poll[w].quote[platform]),
                                observed |-> poll[w].observed, inserted |-> clock']
             PROVE  o \in Observation /\ o.inserted = clock' /\ Founded(o)
  BY DEF RowsOf
<1>1. /\ poll[w].source \in Source
      /\ poll[w].observed \in Nat
      /\ poll[w].quote[platform] \in Price
  BY PollFields DEF Inv, Quotes
<1>2. clock \in Nat /\ clock' \in Nat
  BY DEF Inv, TypeOK
<1>3. o \in Observation
  BY <1>1, <1>2, QualityType DEF Observation
<1>4. Founded(o)
  <2> SUFFICES ASSUME o.quality # "VALID", o.price > 0
               PROVE  \E p \in ValidOf(Series(o.source, o.platform)) :
                        /\ p.inserted <= o.inserted
                        /\ Apart(IF o.quality = "SUSPECT" THEN 10 ELSE 100, o.price, p.price)
    BY DEF Founded
  <2>1. o.price \in Nat
    BY <1>1, ReferenceAssumption
  <2>2. PICK p \in ValidOf(Series(o.source, o.platform)) :
               Apart(IF o.quality = "SUSPECT" THEN 10 ELSE 100, o.price, p.price)
    BY <2>1, DisbeliefIsFounded
  <2>3. p \in observation
    BY DEF ValidOf, Series
  <2>4. p.inserted <= clock /\ p.inserted \in Nat
    BY <2>3 DEF Inv, StampedByNow, TypeOK, Observation
  <2>5. p.inserted <= o.inserted
    BY <1>2, <2>4
  <2> QED
    BY <2>2, <2>5
<1> QED
  BY <1>3, <1>4

(* Anchors stay: rows are only added.                                      *)
LEMMA FoundedStays ==
  ASSUME observation \subseteq observation', NEW o, Founded(o)
  PROVE  Founded(o)'
<1>1. ValidOf(Series(o.source, o.platform)) \subseteq ValidOf(Series(o.source, o.platform))'
  BY DEF ValidOf, Series
<1> QED
  BY <1>1 DEF Founded

-----------------------------------------------------------------------------

LEMMA InitInv == Init => Inv
<1> SUFFICES ASSUME Init PROVE Inv
  OBVIOUS
<1>1. TypeOK
  BY ReferenceAssumption DEF Init, TypeOK, Poll
<1>2. DoubtHasAnchor
  BY DEF Init, DoubtHasAnchor
<1>3. PendingFounded /\ StampedByNow
  BY DEF Init, Idle, PendingFounded, StampedByNow
<1> QED
  BY <1>1, <1>2, <1>3 DEF Inv

(* The history grows by both series of a source.                           *)
LEMMA RacedType ==
  ASSUME TypeOK, NEW source \in Source, NEW late \in {{}, {source} \X Platform}
  PROVE  raced \cup late \subseteq Source \X Platform
BY DEF TypeOK

LEMMA FetchInv ==
  ASSUME Inv, NEW w \in Worker, NEW source \in Source, NEW quote \in Quotes,
         Fetch(w, source, quote)
  PROVE  Inv'
<1> DEFINE fetched == [step |-> "fetched", source |-> source, observed |-> clock',
                       quote |-> quote]
<1>1. /\ poll' = [poll EXCEPT ![w] = fetched]
      /\ clock' = clock + 1
      /\ polls < MaxPolls /\ polls' = polls + 1
      /\ observation' = observation
  BY DEF Fetch
<1>2. clock \in Nat /\ clock' \in Nat
  BY <1>1 DEF Inv, TypeOK
<1>3. TypeOK'
  <2>1. fetched \in Poll
    BY <1>2 DEF Poll
  <2>2. poll' \in [Worker -> Poll]
    BY <1>1, <2>1 DEF Inv, TypeOK
  <2>3. polls' \in 0..MaxPolls
    BY <1>1, ReferenceAssumption DEF Inv, TypeOK
  <2>4. raced' \subseteq Source \X Platform
    BY RacedType DEF Inv, Fetch
  <2> QED
    BY <1>1, <1>2, <2>2, <2>3, <2>4 DEF Inv, TypeOK
<1>4. ASSUME NEW v \in Worker, poll'[v].step = "judged"
      PROVE  v # w /\ poll'[v] = poll[v]
  BY <1>1, <1>4 DEF Inv, TypeOK
<1>5. DoubtHasAnchor'
  BY <1>1 DEF Inv, DoubtHasAnchor, ValidOf, Series
<1>6. PendingFounded'
  BY <1>1, <1>4, FoundedStays DEF Inv, PendingFounded
<1>7. StampedByNow'
  <2>1. ASSUME NEW o \in Observation, o.inserted <= clock
        PROVE  o.inserted <= clock'
    BY <1>1, <1>2, <2>1 DEF Observation
  <2>2. \A o \in observation' : o.inserted <= clock'
    BY <1>1, <2>1 DEF Inv, TypeOK, StampedByNow
  <2>3. ASSUME NEW v \in Worker, poll'[v].step = "judged", NEW o \in poll'[v].rows
        PROVE  o.inserted <= clock'
    <3>1. o \in Observation /\ o.inserted <= clock
      BY <1>4, <2>3, PollFields DEF Inv, StampedByNow
    <3> QED
      BY <2>1, <3>1
  <2> QED
    BY <2>2, <2>3 DEF StampedByNow
<1> QED
  BY <1>3, <1>5, <1>6, <1>7 DEF Inv

LEMMA JudgeInv ==
  ASSUME Inv, NEW w \in Worker, Judge(w)
  PROVE  Inv'
<1> DEFINE judged == [step |-> "judged", source |-> poll[w].source,
                      observed |-> poll[w].observed, rows |-> RowsOf(w)]
<1>1. /\ poll[w].step = "fetched"
      /\ clock' = clock + 1
      /\ poll' = [poll EXCEPT ![w] = judged]
      /\ UNCHANGED <<observation, polls, raced>>
  BY DEF Judge
<1>2. clock \in Nat /\ clock' \in Nat
  BY <1>1 DEF Inv, TypeOK
<1>3. \A o \in RowsOf(w) : o \in Observation /\ o.inserted = clock' /\ Founded(o)
  BY <1>1, RowsAreSound
<1>4. TypeOK'
  <2>1. judged \in Poll
    BY <1>1, <1>3, PollFields DEF Inv, Poll
  <2>2. poll' \in [Worker -> Poll]
    BY <1>1, <2>1 DEF Inv, TypeOK
  <2> QED
    BY <1>1, <1>2, <2>2 DEF Inv, TypeOK
<1>5. ASSUME NEW v \in Worker, poll'[v].step = "judged", NEW o \in poll'[v].rows
      PROVE  o.inserted <= clock' /\ Founded(o)
  <2>1. CASE v = w
    <3>1. poll'[w] = judged
      BY <1>1 DEF Inv, TypeOK
    <3> QED
      BY <1>2, <1>3, <1>5, <2>1, <3>1
  <2>2. CASE v # w
    <3>1. poll'[v] = poll[v]
      BY <1>1, <2>2 DEF Inv, TypeOK
    <3>2. o \in Observation /\ o.inserted <= clock /\ Founded(o)
      BY <1>5, <3>1, PollFields DEF Inv, StampedByNow, PendingFounded
    <3> QED
      BY <1>1, <1>2, <3>2 DEF Observation
  <2> QED
    BY <2>1, <2>2
<1>6. DoubtHasAnchor'
  BY <1>1 DEF Inv, DoubtHasAnchor, ValidOf, Series
<1>7. PendingFounded'
  BY <1>1, <1>5, FoundedStays DEF PendingFounded
<1>8. StampedByNow'
  <2>1. \A o \in observation' : o.inserted <= clock'
    BY <1>1, <1>2 DEF Inv, TypeOK, StampedByNow, Observation
  <2> QED
    BY <1>5, <2>1 DEF StampedByNow
<1> QED
  BY <1>4, <1>6, <1>7, <1>8 DEF Inv

LEMMA CommitInv ==
  ASSUME Inv, NEW w \in Worker, Commit(w)
  PROVE  Inv'
<1>1. /\ poll[w].step = "judged"
      /\ observation' = observation \cup poll[w].rows
      /\ poll' = [poll EXCEPT ![w] = Idle]
      /\ UNCHANGED <<clock, polls, raced>>
  BY DEF Commit
<1>2. TypeOK'
  <2>1. observation' \subseteq Observation
    BY <1>1, PollFields DEF Inv, TypeOK
  <2>2. poll' \in [Worker -> Poll]
    BY <1>1 DEF Inv, TypeOK, Poll
  <2> QED
    BY <1>1, <2>1, <2>2 DEF Inv, TypeOK
<1>3. ASSUME NEW v \in Worker, poll'[v].step = "judged"
      PROVE  poll'[v] = poll[v]
  BY <1>1, <1>3 DEF Inv, TypeOK, Idle
<1>4. DoubtHasAnchor'
  <2>1. \A o \in observation' : Founded(o)
    BY <1>1 DEF Inv, DoubtHasAnchor, PendingFounded, Founded
  <2>2. \A o \in observation' : Founded(o)'
    BY <1>1, <2>1, FoundedStays
  <2> QED
    BY <2>2 DEF DoubtHasAnchor, Founded
<1>5. PendingFounded'
  BY <1>1, <1>3, FoundedStays DEF Inv, PendingFounded
<1>6. StampedByNow'
  BY <1>1, <1>3 DEF Inv, StampedByNow
<1> QED
  BY <1>2, <1>4, <1>5, <1>6 DEF Inv

LEMMA AbandonInv ==
  ASSUME Inv, NEW w \in Worker, Abandon(w)
  PROVE  Inv'
<1>1. /\ poll' = [poll EXCEPT ![w] = Idle]
      /\ UNCHANGED <<observation, clock, polls, raced>>
  BY DEF Abandon
<1>2. TypeOK'
  BY <1>1 DEF Inv, TypeOK, Poll
<1>3. ASSUME NEW v \in Worker, poll'[v].step = "judged"
      PROVE  poll'[v] = poll[v]
  BY <1>1, <1>3 DEF Inv, TypeOK, Idle
<1>4. DoubtHasAnchor'
  BY <1>1 DEF Inv, DoubtHasAnchor, ValidOf, Series
<1>5. PendingFounded' /\ StampedByNow'
  BY <1>1, <1>3, FoundedStays DEF Inv, PendingFounded, StampedByNow
<1> QED
  BY <1>2, <1>4, <1>5 DEF Inv

(* Every step keeps the invariant.                                         *)
LEMMA NextInv == Inv /\ [Next]_vars => Inv'
<1> SUFFICES ASSUME Inv, [Next]_vars PROVE Inv'
  OBVIOUS
<1>1. ASSUME NEW w \in Worker, NEW source \in Source, NEW quote \in Quotes,
             Fetch(w, source, quote)
      PROVE  Inv'
  BY <1>1, FetchInv
<1>2. ASSUME NEW w \in Worker, Judge(w) PROVE Inv'
  BY <1>2, JudgeInv
<1>3. ASSUME NEW w \in Worker, Commit(w) PROVE Inv'
  BY <1>3, CommitInv
<1>4. ASSUME NEW w \in Worker, Abandon(w) PROVE Inv'
  BY <1>4, AbandonInv
<1>5. CASE UNCHANGED vars
  <2>1. /\ TypeOK' = TypeOK
        /\ DoubtHasAnchor' = DoubtHasAnchor
        /\ PendingFounded' = PendingFounded
        /\ StampedByNow' = StampedByNow
    BY <1>5 DEF vars, TypeOK, DoubtHasAnchor, PendingFounded, StampedByNow, Founded,
                ValidOf, Series
  <2> QED
    BY <2>1 DEF Inv
<1> QED
  BY <1>1, <1>2, <1>3, <1>4, <1>5 DEF Next

-----------------------------------------------------------------------------

(* The invariant holds in every reachable state.                           *)
THEOREM InvCorrect == Spec => []Inv
BY InitInv, NextInv, PTL DEF Spec

(* Observations, clock and retrievals keep their types for any providers,  *)
(* prices and number of workers (services/parse_futbin_ingestion.py).      *)
THEOREM TypeCorrect == Spec => []TypeOK
<1>1. Inv => TypeOK
  BY DEF Inv
<1> QED
  BY InvCorrect, <1>1, PTL

(* However retrievals overlap, fail or are lost, a positive quote is only  *)
(* disbelieved on the word of a valid one of the same series, committed    *)
(* and stamped before it and that far away (_quality_for_price).           *)
THEOREM DoubtCorrect == Spec => []DoubtHasAnchor
<1>1. Inv => DoubtHasAnchor
  BY DEF Inv
<1> QED
  BY InvCorrect, <1>1, PTL

-----------------------------------------------------------------------------
(* Point-in-time reads.                                                    *)

(* A question is answered by the committed valid rows of its platform that *)
(* were stamped by its cutoff.                                             *)
LEMMA KnownRows ==
  ASSUME NEW x
  PROVE  x \in Known <=>
           \E q \in Question, o \in observation :
             /\ x = <<q, o>> /\ o.quality = "VALID"
             /\ o.platform = q[1] /\ o.inserted <= q[2]
<1>1. x \in Known <=> \E q \in Question : \E o \in KnownAt(q[1], q[2]) : x = <<q, o>>
  BY DEF Known
<1> QED
  BY <1>1 DEF KnownAt, ValidOf

(* Cutoffs are numbers.                                                    *)
LEMMA CutoffType == ASSUME NEW q \in Question PROVE q[2] \in Nat
BY ReferenceAssumption DEF Question

(* A retrieval that is only fetched, or none, has no pending row.          *)
LEMMA PendingRows ==
  ASSUME TypeOK, NEW w \in Worker, NEW o \in Pending(w)
  PROVE  poll[w].step = "judged" /\ o \in poll[w].rows /\ o.inserted \in Nat
<1>1. poll[w].step = "judged" /\ o \in poll[w].rows
  BY DEF Pending
<1>2. poll[w].rows \subseteq Observation
  BY <1>1, PollFields
<1> QED
  BY <1>1, <1>2 DEF Observation

(* What is settled stays so: a step adds pending rows only with a stamp    *)
(* later than every time so far.                                           *)
LEMMA SettledStays ==
  ASSUME Inv, Inv', Next
  PROVE  Settled \subseteq Settled'
<1> SUFFICES ASSUME NEW q \in Settled PROVE q \in Settled'
  OBVIOUS
<1>1. q \in Question /\ q[2] \in Nat /\ q[2] <= clock
  BY CutoffType DEF Settled
<1>2. clock \in Nat /\ clock' \in Nat /\ clock <= clock'
  BY DEF Inv, TypeOK, Next, Fetch, Judge, Commit, Abandon
<1>3. ASSUME NEW v \in Worker, NEW o \in Pending(v)' PROVE q[2] < o.inserted
  <2>1. poll'[v].step = "judged" /\ o \in poll'[v].rows /\ o.inserted \in Nat
    <3>1. TypeOK'
      BY DEF Inv
    <3>2. poll'[v].step = "judged" /\ o \in poll'[v].rows
      BY <1>3 DEF Pending
    <3>3. poll'[v] \in Poll
      BY <3>1 DEF TypeOK
    <3>4. poll'[v].rows \subseteq Observation
      BY <3>2, <3>3 DEF Poll, Idle
    <3> QED
      BY <3>2, <3>4 DEF Observation
  <2>2. CASE o \in Pending(v)
    BY <2>2 DEF Settled
  <2>3. CASE o \notin Pending(v)
    <3>1. poll'[v] # poll[v]
      BY <2>1, <2>3 DEF Pending
    <3>2. PICK w \in Worker :
            \/ \E source \in Source, quote \in Quotes : Fetch(w, source, quote)
            \/ Judge(w) \/ Commit(w) \/ Abandon(w)
      BY DEF Next
    <3>3. poll \in [Worker -> Poll]
      BY DEF Inv, TypeOK
    <3>4. v = w
      BY <3>1, <3>2, <3>3 DEF Fetch, Judge, Commit, Abandon
    <3>5. Judge(w)
      BY <2>1, <3>2, <3>3, <3>4 DEF Fetch, Commit, Abandon, Idle
    <3>6. o \in RowsOf(w) /\ clock' = clock + 1
      BY <2>1, <3>3, <3>4, <3>5 DEF Judge
    <3>7. o.inserted = clock'
      BY <3>6 DEF RowsOf
    <3> QED
      BY <1>1, <1>2, <3>6, <3>7
  <2> QED
    BY <2>2, <2>3
<1> QED
  BY <1>1, <1>2, <1>3 DEF Settled

(* A commit gives no settled question a new row: its rows were stamped     *)
(* after the cutoffs that were settled while they were pending.            *)
LEMMA CommitLearns ==
  ASSUME Inv, NEW w \in Worker, Commit(w), NEW q \in Settled, NEW o \in observation',
         o.inserted <= q[2]
  PROVE  o \in observation
<1>1. q \in Question /\ q[2] \in Nat
  BY CutoffType DEF Settled
<1>2. CASE o \in Pending(w)
  <2>1. q[2] < o.inserted /\ o.inserted \in Nat
    BY <1>2, PendingRows DEF Settled, Inv
  <2> QED
    BY <1>1, <2>1
<1>3. CASE o \notin Pending(w)
  BY <1>3 DEF Commit, Pending
<1> QED
  BY <1>2, <1>3

(* Every step is a step of point-in-time reads, or they do not see it.     *)
LEMMA StepLearns == Inv /\ Inv' /\ [Next]_vars => [Reads!Learn]_<<Known, Settled>>
<1> SUFFICES ASSUME Inv, Inv', [Next]_vars PROVE [Reads!Learn]_<<Known, Settled>>
  OBVIOUS
<1>1. CASE UNCHANGED vars
  <2>1. Known' = Known
    BY <1>1 DEF Known, KnownAt, ValidOf, vars
  <2>2. Settled' = Settled
    BY <1>1 DEF Settled, Pending, vars
  <2> QED
    BY <2>1, <2>2
<1>2. CASE Next
  <2>1. Settled \subseteq Settled'
    BY <1>2, SettledStays
  <2>2. observation \subseteq observation'
    BY <1>2 DEF Next, Fetch, Judge, Commit, Abandon
  <2>3. ASSUME NEW x \in Known PROVE x \in Known'
    <3>1. PICK q \in Question, o \in observation :
            /\ x = <<q, o>> /\ o.quality = "VALID"
            /\ o.platform = q[1] /\ o.inserted <= q[2]
      BY <2>3, KnownRows
    <3>2. o \in KnownAt(q[1], q[2])'
      BY <2>2, <3>1 DEF KnownAt, ValidOf
    <3> QED
      BY <3>1, <3>2 DEF Known
  <2>4. ASSUME NEW x \in Known' \ Known PROVE x[1] \notin Settled
    <3> SUFFICES ASSUME x[1] \in Settled PROVE FALSE
      OBVIOUS
    <3>1. PICK q \in Question : \E o \in KnownAt(q[1], q[2])' : x = <<q, o>>
      BY <2>4 DEF Known
    <3>2. PICK o \in KnownAt(q[1], q[2])' : x = <<q, o>>
      BY <3>1
    <3>3. /\ o \in observation' /\ o.quality = "VALID"
          /\ o.platform = q[1] /\ o.inserted <= q[2]
      BY <3>2 DEF KnownAt, ValidOf
    <3>4. o \notin observation
      BY <2>4, <3>2, <3>3, KnownRows
    <3>5. q \in Settled
      BY <3>2
    <3>6. PICK w \in Worker : Commit(w)
      BY <1>2, <3>3, <3>4 DEF Next, Fetch, Judge, Abandon
    <3> QED
      BY <3>3, <3>4, <3>5, <3>6, CommitLearns
  <2> QED
    BY <2>1, <2>3, <2>4 DEF Reads!Learn
<1> QED
  BY <1>1, <1>2

(* The rows implement point-in-time reads (features/point_in_time.py), for *)
(* any providers, prices, workers and cutoffs: an answer is final once     *)
(* every retrieval stamped by its cutoff has ended.                        *)
THEOREM ReadsCorrect == Spec => ReadsSettle
<1>1. Init => Reads!Init
  BY DEF Init, Reads!Init, Known, KnownAt, ValidOf, Settled
<1> QED
  BY <1>1, InvCorrect, StepLearns, PTL DEF Spec, ReadsSettle, Reads!Spec
-----------------------------------------------------------------------------
(* Series whose retrievals did not overlap.                                *)

Calm(source, platform) == <<source, platform>> \notin raced

(* Two retrievals at work on one provider were noticed.                    *)
OverlapIsNoticed ==
  \A v \in Busy, w \in Busy :
    v # w /\ poll[v].source = poll[w].source => {poll[v].source} \X Platform \subseteq raced

(* Rows are made of the retrieval they come from, one for every platform,  *)
(* and stamped after it.                                                   *)
RowsOfPoll ==
  \A w \in Worker : poll[w].step = "judged" =>
    \A r \in poll[w].rows :
      /\ r.source = poll[w].source
      /\ r.observed = poll[w].observed
      /\ poll[w].observed < r.inserted
      /\ \A q \in poll[w].rows : q.inserted = r.inserted /\ (q.platform = r.platform => q = r)

(* No retrieval is from the future, and no row.                            *)
ObservedByNow ==
  /\ \A w \in Busy : poll[w].observed <= clock
  /\ \A o \in observation : o.observed <= clock

(* In a calm series a retrieval at work came after all that is committed.  *)
Later ==
  \A w \in Busy, o \in observation :
    o.source = poll[w].source /\ Calm(o.source, o.platform) =>
      o.observed < poll[w].observed /\ o.inserted < poll[w].observed

(* In a calm series the rows were inserted in the order they were          *)
(* observed in, and no two at a time.                                      *)
InOrder ==
  \A o \in observation, p \in observation :
    o.source = p.source /\ o.platform = p.platform /\ Calm(o.source, o.platform) =>
      /\ o.inserted <= p.inserted <=> o.observed <= p.observed
      /\ o.observed = p.observed => o = p

(* A believed price of a judged provider is positive.                      *)
Sane(o) == o.source \in Judging /\ o.quality = "VALID" => o.price > 0

BeliefIsPositive ==
  /\ \A o \in observation : Sane(o)
  /\ \A w \in Worker : poll[w].step = "judged" => \A r \in poll[w].rows : Sane(r)

(* A believed price waiting to be committed to a calm series is within ten *)
(* times the price that the series shows.                                  *)
NearLevel ==
  \A w \in Worker : poll[w].step = "judged" =>
    \A r \in poll[w].rows :
      r.source \in Judging /\ r.quality = "VALID" /\ Calm(r.source, r.platform) =>
        \A o \in Level(r.source, r.platform) : ~Apart(10, r.price, o.price)

CalmInv ==
  /\ OverlapIsNoticed
  /\ RowsOfPoll
  /\ ObservedByNow
  /\ Later
  /\ InOrder
  /\ BeliefIsPositive
  /\ NearLevel

-----------------------------------------------------------------------------

(* The history of overlaps only grows, so a calm series was calm.          *)
LEMMA CalmWas ==
  ASSUME raced \subseteq raced', NEW source, NEW platform, Calm(source, platform)'
  PROVE  Calm(source, platform)
BY DEF Calm

(* Without new rows the levels stay.                                       *)
LEMMA LevelStays ==
  ASSUME observation' = observation, NEW source, NEW platform
  PROVE  Level(source, platform)' = Level(source, platform)
BY DEF Level, Newest, ValidOf, Series

(* A level is made of committed valid rows of its series.                  *)
LEMMA LevelRows ==
  ASSUME NEW source, NEW platform, NEW o \in Level(source, platform)
  PROVE  /\ o \in observation /\ o.quality = "VALID"
         /\ o.source = source /\ o.platform = platform
BY DEF Level, Newest, ValidOf, Series

(* A judged quote that is believed is positive and near the level.         *)
LEMMA BeliefIsNear ==
  ASSUME Inv, NEW source \in Judging, NEW platform, NEW price \in Nat,
         \A o \in observation : Sane(o),
         QualityOf(source, platform, price) = "VALID"
  PROVE  /\ price > 0
         /\ \A o \in Level(source, platform) : ~Apart(10, price, o.price)
<1>1. Judgment(price, Level(source, platform)) = "VALID"
  BY DEF QualityOf, Previous, Level
<1>2. price > 0
  BY <1>1 DEF Judgment
<1>3. ASSUME NEW o \in Level(source, platform) PROVE ~Apart(10, price, o.price)
  <2>1. o.price > 0
    BY <1>3, LevelRows DEF Sane
  <2> QED
    BY <1>1, <2>1 DEF Judgment
<1> QED
  BY <1>2, <1>3

LEMMA InitCalm == Init => CalmInv
BY DEF Init, CalmInv, OverlapIsNoticed, RowsOfPoll, ObservedByNow, Later, InOrder,
       BeliefIsPositive, NearLevel, Busy, Idle

LEMMA FetchCalm ==
  ASSUME Inv, CalmInv, NEW w \in Worker, NEW source \in Source, NEW quote \in Quotes,
         Fetch(w, source, quote)
  PROVE  CalmInv'
<1> DEFINE fetched == [step |-> "fetched", source |-> source, observed |-> clock',
                       quote |-> quote]
<1>1. /\ poll[w].step = "idle"
      /\ poll' = [poll EXCEPT ![w] = fetched]
      /\ clock' = clock + 1
      /\ raced' = raced \cup (IF \E v \in Busy : poll[v].source = source
                              THEN {source} \X Platform ELSE {})
      /\ observation' = observation
  BY DEF Fetch
<1>2. clock \in Nat /\ clock' \in Nat
  BY <1>1 DEF Inv, TypeOK
<1>3. poll'[w] = fetched /\ \A v \in Worker : v # w => poll'[v] = poll[v]
  BY <1>1 DEF Inv, TypeOK
<1>4. raced \subseteq raced'
  BY <1>1
<1>5. /\ fetched.step = "fetched" /\ fetched.source = source /\ fetched.observed = clock'
  OBVIOUS
<1> HIDE DEF fetched
<1>6. \A v \in Busy' : v \in Worker /\ (v # w => v \in Busy /\ poll'[v] = poll[v])
  BY <1>3 DEF Busy
<1>7. ASSUME NEW v \in Worker, poll'[v].step = "judged"
      PROVE  v # w /\ poll'[v] = poll[v]
  BY <1>3, <1>5, <1>7
<1>8. ASSUME NEW o \in observation
      PROVE  /\ o.inserted \in Nat /\ o.observed \in Nat
             /\ o.inserted < clock' /\ o.observed < clock'
  <2>1. o.inserted \in Nat /\ o.observed \in Nat
    BY DEF Inv, TypeOK, Observation
  <2>2. o.inserted <= clock /\ o.observed <= clock
    BY DEF Inv, StampedByNow, CalmInv, ObservedByNow
  <2> QED
    BY <1>1, <1>2, <2>1, <2>2
<1>9. OverlapIsNoticed'
  <2> SUFFICES ASSUME NEW u \in Busy', NEW v \in Busy', u # v,
                      poll'[u].source = poll'[v].source
               PROVE  {poll'[u].source} \X Platform \subseteq raced'
    BY DEF OverlapIsNoticed
  <2>1. CASE u = w
    <3>1. v \in Busy /\ poll[v].source = source
      BY <1>3, <1>5, <1>6, <2>1
    <3> QED
      BY <1>1, <1>3, <1>5, <2>1, <3>1
  <2>2. CASE v = w
    <3>1. u \in Busy /\ poll[u].source = source /\ poll'[u].source = source
      BY <1>3, <1>5, <1>6, <2>2
    <3> QED
      BY <1>1, <3>1
  <2>3. CASE u # w /\ v # w
    BY <1>4, <1>6, <2>3 DEF CalmInv, OverlapIsNoticed
  <2> QED
    BY <2>1, <2>2, <2>3
<1>10. RowsOfPoll'
  BY <1>7 DEF CalmInv, RowsOfPoll
<1>11. ObservedByNow'
  <2>1. ASSUME NEW v \in Busy' PROVE poll'[v].observed <= clock'
    <3>1. CASE v = w
      BY <1>2, <1>3, <1>5, <3>1
    <3>2. CASE v # w
      <4>1. v \in Busy /\ poll'[v] = poll[v]
        BY <1>6, <3>2
      <4>2. poll[v].observed \in Nat /\ poll[v].observed <= clock
        BY <4>1, PollFields DEF Inv, CalmInv, ObservedByNow, Busy
      <4> QED
        BY <1>1, <1>2, <4>1, <4>2
    <3> QED
      BY <3>1, <3>2
  <2>2. \A o \in observation : o.observed <= clock'
    BY <1>2, <1>8
  <2> QED
    BY <1>1, <2>1, <2>2 DEF ObservedByNow
<1>12. Later'
  <2> SUFFICES ASSUME NEW v \in Busy', NEW o \in observation, o.source = poll'[v].source,
                      Calm(o.source, o.platform)'
               PROVE  o.observed < poll'[v].observed /\ o.inserted < poll'[v].observed
    BY <1>1 DEF Later
  <2>1. CASE v = w
    BY <1>3, <1>5, <1>8, <2>1
  <2>2. CASE v # w
    <3>1. v \in Busy /\ poll'[v] = poll[v]
      BY <1>6, <2>2
    <3>2. Calm(o.source, o.platform)
      BY <1>4, CalmWas
    <3> QED
      BY <3>1, <3>2 DEF CalmInv, Later
  <2> QED
    BY <2>1, <2>2
<1>13. InOrder'
  BY <1>1, <1>4, CalmWas DEF CalmInv, InOrder
<1>14. BeliefIsPositive'
  BY <1>1, <1>7 DEF CalmInv, BeliefIsPositive
<1>15. NearLevel'
  BY <1>1, <1>4, <1>7, CalmWas, LevelStays DEF CalmInv, NearLevel
<1> QED
  BY <1>9, <1>10, <1>11, <1>12, <1>13, <1>14, <1>15 DEF CalmInv

(* The rows a retrieval makes, in order and believed with reason.          *)
LEMMA RowsAreCalm ==
  ASSUME Inv, CalmInv, NEW w \in Worker, Judge(w), NEW r \in RowsOf(w)
  PROVE  /\ r.source = poll[w].source
         /\ r.observed = poll[w].observed
         /\ poll[w].observed < r.inserted
         /\ \A q \in RowsOf(w) : q.inserted = r.inserted /\ (q.platform = r.platform => q = r)
         /\ Sane(r)
         /\ r.source \in Judging /\ r.quality = "VALID" =>
              \A o \in Level(r.source, r.platform) : ~Apart(10, r.price, o.price)
<1>1. /\ poll[w].step = "fetched" /\ poll[w].observed \in Nat /\ poll[w].quote \in Quotes
      /\ clock' = clock + 1 /\ clock \in Nat
  BY PollFields DEF Judge, Inv, TypeOK
<1>2. poll[w].observed <= clock
  BY <1>1 DEF CalmInv, ObservedByNow, Busy
<1>3. PICK platform \in {p \in Platform : poll[w].quote[p] # NoQuote} :
        r = [source |-> poll[w].source, platform |-> platform,
             price |-> poll[w].quote[platform],
             quality |-> QualityOf(poll[w].source, platform, poll[w].quote[platform]),
             observed |-> poll[w].observed, inserted |-> clock']
  BY DEF RowsOf
<1>4. poll[w].observed < clock'
  BY <1>1, <1>2
<1>5. \A q \in RowsOf(w) : q.inserted = r.inserted /\ (q.platform = r.platform => q = r)
  BY <1>3 DEF RowsOf
<1>6. /\ r.source = poll[w].source /\ r.platform = platform
      /\ r.price = poll[w].quote[platform] /\ r.observed = poll[w].observed
      /\ r.inserted = clock'
      /\ r.quality = QualityOf(poll[w].source, platform, poll[w].quote[platform])
  BY <1>3
<1>7. r.price \in Nat
  BY <1>1, <1>3, <1>6, ReferenceAssumption DEF Quotes
<1>8. ASSUME r.source \in Judging, r.quality = "VALID"
      PROVE  /\ r.price > 0
             /\ \A o \in Level(r.source, r.platform) : ~Apart(10, r.price, o.price)
  <2>1. QualityOf(r.source, r.platform, r.price) = "VALID"
    BY <1>6, <1>8
  <2> QED
    BY <1>7, <1>8, <2>1, BeliefIsNear DEF CalmInv, BeliefIsPositive
<1> QED
  BY <1>4, <1>5, <1>6, <1>8 DEF Sane

LEMMA JudgeCalm ==
  ASSUME Inv, CalmInv, NEW w \in Worker, Judge(w)
  PROVE  CalmInv'
<1> DEFINE judged == [step |-> "judged", source |-> poll[w].source,
                      observed |-> poll[w].observed, rows |-> RowsOf(w)]
<1>1. /\ poll[w].step = "fetched"
      /\ clock' = clock + 1
      /\ poll' = [poll EXCEPT ![w] = judged]
      /\ UNCHANGED <<observation, raced>>
  BY DEF Judge
<1>2. clock \in Nat /\ clock' \in Nat
  BY <1>1 DEF Inv, TypeOK
<1>3. poll'[w] = judged /\ \A v \in Worker : v # w => poll'[v] = poll[v]
  BY <1>1 DEF Inv, TypeOK
<1>4. /\ judged.step = "judged" /\ judged.source = poll[w].source
      /\ judged.observed = poll[w].observed /\ judged.rows = RowsOf(w)
  OBVIOUS
<1> HIDE DEF judged
<1>5. ASSUME NEW v \in Busy'
      PROVE  /\ v \in Busy
             /\ poll'[v].source = poll[v].source /\ poll'[v].observed = poll[v].observed
  BY <1>1, <1>3, <1>4 DEF Busy
<1>6. OverlapIsNoticed'
  BY <1>1, <1>5 DEF CalmInv, OverlapIsNoticed
<1>7. RowsOfPoll'
  <2> SUFFICES ASSUME NEW v \in Worker, poll'[v].step = "judged", NEW r \in poll'[v].rows
               PROVE  /\ r.source = poll'[v].source
                      /\ r.observed = poll'[v].observed
                      /\ poll'[v].observed < r.inserted
                      /\ \A q \in poll'[v].rows :
                           q.inserted = r.inserted /\ (q.platform = r.platform => q = r)
    BY DEF RowsOfPoll
  <2>1. CASE v = w
    BY <1>3, <1>4, <2>1, RowsAreCalm
  <2>2. CASE v # w
    BY <1>3, <2>2 DEF CalmInv, RowsOfPoll
  <2> QED
    BY <2>1, <2>2
<1>8. ObservedByNow'
  <2>1. ASSUME NEW v \in Busy' PROVE poll'[v].observed <= clock'
    <3>1. poll[v].observed \in Nat /\ poll[v].observed <= clock
      BY <1>5, PollFields DEF Inv, CalmInv, ObservedByNow, Busy
    <3> QED
      BY <1>1, <1>2, <1>5, <3>1
  <2>2. ASSUME NEW o \in observation PROVE o.observed <= clock'
    <3>1. o.observed \in Nat /\ o.observed <= clock
      BY DEF Inv, TypeOK, Observation, CalmInv, ObservedByNow
    <3> QED
      BY <1>1, <1>2, <3>1
  <2> QED
    BY <1>1, <2>1, <2>2 DEF ObservedByNow
<1>9. Later'
  BY <1>1, <1>5 DEF CalmInv, Later, Calm
<1>10. InOrder'
  BY <1>1 DEF CalmInv, InOrder, Calm
<1>11. ASSUME NEW v \in Worker, poll'[v].step = "judged", NEW r \in poll'[v].rows
       PROVE  /\ Sane(r)
              /\ r.source \in Judging /\ r.quality = "VALID" /\ Calm(r.source, r.platform) =>
                   \A o \in Level(r.source, r.platform) : ~Apart(10, r.price, o.price)
  <2>1. CASE v = w
    BY <1>3, <1>4, <1>11, <2>1, RowsAreCalm
  <2>2. CASE v # w
    BY <1>3, <1>11, <2>2 DEF CalmInv, BeliefIsPositive, NearLevel
  <2> QED
    BY <2>1, <2>2
<1>12. BeliefIsPositive'
  BY <1>1, <1>11 DEF CalmInv, BeliefIsPositive
<1>13. NearLevel'
  BY <1>1, <1>11, LevelStays DEF NearLevel, Calm
<1> QED
  BY <1>6, <1>7, <1>8, <1>9, <1>10, <1>12, <1>13 DEF CalmInv

(* In a calm series a pending row is later, in both orders, than all that  *)
(* is committed.                                                           *)
LEMMA PendingIsLater ==
  ASSUME Inv, CalmInv, NEW w \in Worker, poll[w].step = "judged", NEW r \in poll[w].rows,
         NEW o \in observation, o.source = r.source, o.platform = r.platform,
         Calm(o.source, o.platform)
  PROVE  /\ o.observed \in Nat /\ o.inserted \in Nat /\ r.observed \in Nat /\ r.inserted \in Nat
         /\ o.observed < r.observed /\ o.inserted < r.inserted
<1>1. r \in Observation /\ o \in Observation
  BY PollFields DEF Inv, TypeOK
<1>2. r.source = poll[w].source /\ r.observed = poll[w].observed /\ r.observed < r.inserted
  BY DEF CalmInv, RowsOfPoll
<1>3. o.observed < poll[w].observed /\ o.inserted < poll[w].observed
  BY <1>2 DEF CalmInv, Later, Busy
<1>4. o.observed \in Nat /\ o.inserted \in Nat /\ r.observed \in Nat /\ r.inserted \in Nat
  BY <1>1 DEF Observation
<1> QED
  BY <1>2, <1>3, <1>4

LEMMA CommitCalm ==
  ASSUME Inv, CalmInv, NEW w \in Worker, Commit(w)
  PROVE  CalmInv'
<1> DEFINE rows == poll[w].rows
<1>1. /\ poll[w].step = "judged"
      /\ observation' = observation \cup rows
      /\ poll' = [poll EXCEPT ![w] = Idle]
      /\ UNCHANGED <<clock, raced>>
  BY DEF Commit
<1>2. poll'[w].step = "idle" /\ \A v \in Worker : v # w => poll'[v] = poll[v]
  BY <1>1 DEF Inv, TypeOK, Idle
<1>3. ASSUME NEW v \in Busy'
      PROVE  v \in Busy /\ v # w /\ poll'[v] = poll[v]
  BY <1>2 DEF Busy
<1>4. ASSUME NEW v \in Worker, poll'[v].step = "judged"
      PROVE  v \in Busy /\ v # w /\ poll'[v] = poll[v]
  BY <1>2, <1>4 DEF Busy
<1>5. \A r \in rows : r \in Observation /\ r.source = poll[w].source
  BY <1>1, PollFields DEF Inv, CalmInv, RowsOfPoll
<1>6. ASSUME NEW v \in Busy', NEW platform \in Platform, Calm(poll[v].source, platform)
      PROVE  poll[v].source # poll[w].source
  BY <1>1, <1>3, <1>6 DEF CalmInv, OverlapIsNoticed, Calm, Busy
<1>7. OverlapIsNoticed'
  BY <1>1, <1>3 DEF CalmInv, OverlapIsNoticed
<1>8. RowsOfPoll'
  BY <1>4 DEF CalmInv, RowsOfPoll
<1>9. ObservedByNow'
  <2>1. \A v \in Busy' : poll'[v].observed <= clock'
    BY <1>1, <1>3 DEF CalmInv, ObservedByNow
  <2>2. ASSUME NEW r \in rows PROVE r.observed <= clock
    BY <1>1 DEF CalmInv, ObservedByNow, RowsOfPoll, Busy
  <2> QED
    BY <1>1, <2>1, <2>2 DEF CalmInv, ObservedByNow
<1>10. Later'
  <2> SUFFICES ASSUME NEW v \in Busy', NEW o \in observation', o.source = poll'[v].source,
                      Calm(o.source, o.platform)'
               PROVE  o.observed < poll'[v].observed /\ o.inserted < poll'[v].observed
    BY DEF Later
  <2>1. v \in Busy /\ poll'[v] = poll[v] /\ Calm(o.source, o.platform)
    BY <1>1, <1>3 DEF Calm
  <2>2. o \in Observation
    BY <1>1, <1>5 DEF Inv, TypeOK
  <2>3. o.source # poll[w].source
    BY <1>6, <2>1, <2>2 DEF Observation
  <2>4. o \in observation
    BY <1>1, <1>5, <2>3
  <2> QED
    BY <2>1, <2>4 DEF CalmInv, Later
<1>11. InOrder'
  <2> SUFFICES ASSUME NEW o \in observation', NEW p \in observation', o.source = p.source,
                      o.platform = p.platform, Calm(o.source, o.platform)
               PROVE  /\ o.inserted <= p.inserted <=> o.observed <= p.observed
                      /\ o.observed = p.observed => o = p
    BY <1>1 DEF InOrder, Calm
  <2>1. CASE o \in observation /\ p \in observation
    BY <2>1 DEF CalmInv, InOrder
  <2>2. CASE o \in observation /\ p \in rows
    <3>1. /\ o.observed \in Nat /\ o.inserted \in Nat /\ p.observed \in Nat /\ p.inserted \in Nat
          /\ o.observed < p.observed /\ o.inserted < p.inserted
      BY <1>1, <2>2, PendingIsLater
    <3> QED
      BY <3>1
  <2>3. CASE o \in rows /\ p \in observation
    <3>1. /\ o.observed \in Nat /\ o.inserted \in Nat /\ p.observed \in Nat /\ p.inserted \in Nat
          /\ p.observed < o.observed /\ p.inserted < o.inserted
      BY <1>1, <2>3, PendingIsLater
    <3> QED
      BY <3>1
  <2>4. CASE o \in rows /\ p \in rows
    <3>1. o = p
      BY <1>1, <2>4 DEF CalmInv, RowsOfPoll
    <3>2. o.inserted \in Nat /\ o.observed \in Nat
      BY <1>5, <2>4 DEF Observation
    <3> QED
      BY <3>1, <3>2
  <2> QED
    BY <1>1, <2>1, <2>2, <2>3, <2>4
<1>12. BeliefIsPositive'
  BY <1>1, <1>4 DEF CalmInv, BeliefIsPositive
<1>13. NearLevel'
  <2> SUFFICES ASSUME NEW v \in Worker, poll'[v].step = "judged", NEW r \in poll'[v].rows,
                      r.source \in Judging, r.quality = "VALID", Calm(r.source, r.platform)',
                      NEW o \in Level(r.source, r.platform)'
               PROVE  ~Apart(10, r.price, o.price)
    BY DEF NearLevel
  <2>1. v \in Busy' /\ v \in Busy /\ v # w /\ poll'[v] = poll[v]
    BY <1>4 DEF Busy
  <2>2. Calm(r.source, r.platform)
    BY <1>1 DEF Calm
  <2>3. r \in Observation /\ r.source = poll[v].source
    BY <2>1, PollFields DEF Inv, CalmInv, RowsOfPoll
  <2>4. r.source # poll[w].source
    BY <1>6, <2>1, <2>2, <2>3 DEF Observation
  <2>5. Series(r.source, r.platform)' = Series(r.source, r.platform)
    BY <1>1, <1>5, <2>4 DEF Series
  <2>6. o \in Level(r.source, r.platform)
    BY <2>5 DEF Level, Newest, ValidOf
  <2> QED
    BY <2>1, <2>2, <2>6 DEF CalmInv, NearLevel
<1> QED
  BY <1>7, <1>8, <1>9, <1>10, <1>11, <1>12, <1>13 DEF CalmInv

LEMMA AbandonCalm ==
  ASSUME Inv, CalmInv, NEW w \in Worker, Abandon(w)
  PROVE  CalmInv'
<1>1. /\ poll' = [poll EXCEPT ![w] = Idle]
      /\ UNCHANGED <<observation, clock, raced>>
  BY DEF Abandon
<1>2. poll'[w].step = "idle" /\ \A v \in Worker : v # w => poll'[v] = poll[v]
  BY <1>1 DEF Inv, TypeOK, Idle
<1>3. \A v \in Busy' : v \in Busy /\ poll'[v] = poll[v]
  BY <1>2 DEF Busy
<1>4. \A v \in Worker : poll'[v].step = "judged" => poll'[v] = poll[v]
  BY <1>2
<1>5. OverlapIsNoticed'
  BY <1>1, <1>3 DEF CalmInv, OverlapIsNoticed
<1>6. RowsOfPoll' /\ BeliefIsPositive'
  BY <1>1, <1>4 DEF CalmInv, RowsOfPoll, BeliefIsPositive
<1>7. ObservedByNow' /\ Later' /\ InOrder'
  BY <1>1, <1>3 DEF CalmInv, ObservedByNow, Later, InOrder, Calm
<1>8. NearLevel'
  BY <1>1, <1>4, LevelStays DEF CalmInv, NearLevel, Calm
<1> QED
  BY <1>5, <1>6, <1>7, <1>8 DEF CalmInv

(* Every step keeps what is known of calm series.                          *)
LEMMA NextCalm == Inv /\ CalmInv /\ [Next]_vars => CalmInv'
<1> SUFFICES ASSUME Inv, CalmInv, [Next]_vars PROVE CalmInv'
  OBVIOUS
<1>1. ASSUME NEW w \in Worker, NEW source \in Source, NEW quote \in Quotes,
             Fetch(w, source, quote)
      PROVE  CalmInv'
  BY <1>1, FetchCalm
<1>2. ASSUME NEW w \in Worker, Judge(w) PROVE CalmInv'
  BY <1>2, JudgeCalm
<1>3. ASSUME NEW w \in Worker, Commit(w) PROVE CalmInv'
  BY <1>3, CommitCalm
<1>4. ASSUME NEW w \in Worker, Abandon(w) PROVE CalmInv'
  BY <1>4, AbandonCalm
<1>5. CASE UNCHANGED vars
  <2>1. OverlapIsNoticed' /\ RowsOfPoll' /\ ObservedByNow'
    BY <1>5 DEF vars, CalmInv, OverlapIsNoticed, RowsOfPoll, ObservedByNow, Busy
  <2>2. Later' /\ InOrder' /\ BeliefIsPositive'
    BY <1>5 DEF vars, CalmInv, Later, InOrder, BeliefIsPositive, Busy, Calm
  <2>3. NearLevel'
    BY <1>5, LevelStays DEF vars, CalmInv, NearLevel, Calm
  <2> QED
    BY <2>1, <2>2, <2>3 DEF CalmInv
<1> QED
  BY <1>1, <1>2, <1>3, <1>4, <1>5 DEF Next

(* What is known of calm series holds in every reachable state.            *)
THEOREM CalmCorrect == Spec => []CalmInv
BY InvCorrect, InitCalm, NextCalm, PTL DEF Spec

-----------------------------------------------------------------------------

(* In the order of calm series, the readers agree.                         *)
LEMMA OrderMakesAgree == Inv /\ CalmInv => ReadersAgree
<1> SUFFICES ASSUME Inv, CalmInv PROVE ReadersAgree
  OBVIOUS
<1>1. ASSUME NEW o \in LatestReference, <<o.source, "pc">> \notin raced
      PROVE  o \in ConsensusOf("pc", clock)
  <2>1. o \in observation /\ o.platform = "pc" /\ o.quality = "VALID"
    BY DEF LatestReference, Newest, ValidOf
  <2>2. o \in KnownAt("pc", clock)
    BY <2>1 DEF KnownAt, ValidOf, Inv, StampedByNow
  <2>3. ASSUME NEW p \in KnownAt("pc", clock), p.source = o.source
        PROVE  p.inserted <= o.inserted
    <3>1. p \in observation /\ p.platform = "pc" /\ p.quality = "VALID"
      BY DEF KnownAt, ValidOf
    <3>2. p.observed <= o.observed
      BY <3>1 DEF LatestReference, Newest, ValidOf
    <3>3. p.inserted <= o.inserted <=> p.observed <= o.observed
      BY <1>1, <2>1, <2>3, <3>1 DEF CalmInv, InOrder, Calm
    <3> QED
      BY <3>2, <3>3
  <2> QED
    BY <2>2, <2>3 DEF ConsensusOf
<1>2. ASSUME NEW platform \in Platform, NEW cutoff \in 0..clock,
             NEW o \in ConsensusOf(platform, cutoff), <<o.source, platform>> \notin raced,
             NEW p \in KnownAt(platform, cutoff), p.source = o.source
      PROVE  p.observed <= o.observed
  <2>1. o \in observation /\ o.platform = platform /\ p \in observation /\ p.platform = platform
    BY DEF ConsensusOf, KnownAt, ValidOf
  <2>2. p.inserted <= o.inserted
    BY <1>2 DEF ConsensusOf
  <2> QED
    BY <1>2, <2>1, <2>2 DEF CalmInv, InOrder, Calm
<1> QED
  BY <1>1, <1>2 DEF ReadersAgree

(* The pages (latest retrieved) and the consensus (latest inserted) show   *)
(* the same price of a provider whose retrievals did not overlap, and the  *)
(* consensus is right about the past at every cutoff, for any providers,   *)
(* prices and workers (features/point_in_time.py).                         *)
THEOREM ReadersCorrect == Spec => []ReadersAgree
BY InvCorrect, CalmCorrect, OrderMakesAgree, PTL

(* A step moves the level of a calm judged series by less than ten times.  *)
LEMMA StepIsGentle ==
  ASSUME Inv, CalmInv, Inv', CalmInv', [Next]_vars,
         NEW source \in Judging, NEW platform \in Platform,
         <<source, platform>> \notin raced',
         NEW o \in Level(source, platform), NEW p \in Level(source, platform)'
  PROVE  ~Apart(10, o.price, p.price)
<1>1. raced \subseteq raced' /\ observation \subseteq observation'
  BY DEF Next, vars, Fetch, Judge, Commit, Abandon
<1>2. Calm(source, platform) /\ Calm(source, platform)'
  BY <1>1 DEF Calm
<1>3. /\ o \in observation /\ o.quality = "VALID"
      /\ o.source = source /\ o.platform = platform
  BY LevelRows
<1>4. /\ p \in observation' /\ p.quality = "VALID"
      /\ p.source = source /\ p.platform = platform
  BY DEF Level, Newest, ValidOf, Series
<1>5. o.price \in Nat /\ o.price > 0 /\ o.observed \in Nat
  BY <1>3, ReferenceAssumption DEF Inv, TypeOK, Observation, CalmInv, BeliefIsPositive, Sane
<1>6. p.price \in Nat /\ p.observed \in Nat
  BY <1>4, ReferenceAssumption DEF Inv, TypeOK, Observation
<1>7. CASE p \in observation
  <2>1. p.observed <= o.observed
    BY <1>4, <1>7 DEF Level, Newest, ValidOf, Series
  <2>2. o.observed <= p.observed
    BY <1>1, <1>3 DEF Level, Newest, ValidOf, Series
  <2>3. o = p
    BY <1>2, <1>3, <1>4, <1>5, <1>6, <1>7, <2>1, <2>2 DEF CalmInv, InOrder
  <2> QED
    BY <1>5, <2>3 DEF Apart
<1>8. CASE p \notin observation
  <2>1. PICK w \in Worker : Commit(w)
    BY <1>4, <1>8 DEF Next, vars, Fetch, Judge, Abandon
  <2>2. poll[w].step = "judged" /\ p \in poll[w].rows
    BY <1>4, <1>8, <2>1 DEF Commit
  <2>3. ~Apart(10, p.price, o.price)
    BY <1>2, <1>4, <2>2 DEF CalmInv, NearLevel
  <2> QED
    BY <2>3 DEF Apart
<1> QED
  BY <1>7, <1>8

(* Neither one wild quote nor a run of them moves the level of a series    *)
(* tenfold in a step, for any providers, prices and workers, unless        *)
(* retrievals overlapped (_quality_for_price).                             *)
THEOREM LevelCorrect == Spec => LevelMovesByDegrees
<1>1. Inv /\ CalmInv /\ Inv' /\ CalmInv' /\ [Next]_vars =>
        [\A source \in Judging, platform \in Platform :
           <<source, platform>> \notin raced' =>
             \A o \in Level(source, platform), p \in Level(source, platform)' :
               ~Apart(10, o.price, p.price)]_vars
  BY StepIsGentle
<1> QED
  BY <1>1, InvCorrect, CalmCorrect, PTL DEF Spec, LevelMovesByDegrees
=============================================================================
