--------------------------- MODULE AttentionProofs ---------------------------
(***************************************************************************)
(* Proofs about collection targets, for any cards, candidates, signals and *)
(* number of workers: type correctness, that outside a race the targets    *)
(* are what the last committed reallocation decided, and that the metered  *)
(* requests go to watched cards first.                                     *)
(*                                                                         *)
(* The type of a merged row needs RowsStay: a row that a reallocation read *)
(* is still there when it commits, so that an UPDATE meets a row and never *)
(* fills part of one.                                                      *)
(***************************************************************************)
EXTENDS Attention, FiniteSetTheorems, WellFoundedInduction, TLAPS

(* The rows a reallocation has read are still there.                       *)
RowsStay ==
  \A w \in Worker : work[w].step = "targets" =>
    \A c \in Card : work[w].targets[c] # NoTarget => target[c] # NoTarget

Inv == TypeOK /\ RowsStay

-----------------------------------------------------------------------------
(* What the operators return.                                              *)

(* What an active reallocation holds.                                      *)
LEMMA WorkFields ==
  ASSUME TypeOK, NEW w \in Worker
  PROVE  /\ work[w].step \in {"idle", "candidates", "positions", "targets"}
         /\ work[w].step \in {"candidates", "positions", "targets"} => work[w].rows \in Rows
         /\ work[w].step \in {"positions", "targets"} => work[w].held \subseteq Card
         /\ work[w].step = "targets" => work[w].targets \in [Card -> Target \cup {NoTarget}]
<1>1. work[w] \in Work
  BY DEF TypeOK
<1> QED
  BY <1>1 DEF Work, Idle

(* A score is a natural number of hundredths.                              *)
LEMMA ScoreType ==
  ASSUME NEW rows \in Rows, NEW active, NEW c, NEW s \in ScoresOf(rows, active, c)
  PROVE  s \in Nat
<1>1. PICK p \in PlacesOf(rows, c) : s = AttentionOf(rows[p], c \in active)
  BY DEF ScoresOf
<1>2. rows[p] \in Signal
  BY <1>1 DEF PlacesOf, Rows
<1>3. rows[p].score \in Nat /\ rows[p].gain \in Nat
  <2>1. rows[p] \in [score : Score, gain : Nat]
    BY <1>2, AttentionAssumption
  <2>2. Score \subseteq Nat
    BY DEF Score
  <2> QED
    BY <2>1, <2>2
<1> QED
  BY <1>1, <1>3 DEF AttentionOf, ActiveGain

(* A decision scores the cards that have a candidate, and no other.        *)
LEMMA DecisionType ==
  ASSUME NEW rows \in Rows, NEW active, NEW decision \in DecisionsOf(rows, active)
  PROVE  /\ decision \in [Card -> Nat \cup {Undecided}]
         /\ \A c \in Card : decision[c] # Undecided <=> c \in CardsOf(rows)
<1>1. ASSUME NEW c \in Card, c \in CardsOf(rows)
      PROVE  decision[c] \in Nat
  <2>1. decision[c] \in ScoresOf(rows, active, c)
    BY <1>1 DEF DecisionsOf
  <2> QED
    BY <2>1, ScoreType
<1>2. ASSUME NEW c \in Card, c \notin CardsOf(rows)
      PROVE  decision[c] = Undecided
  BY <1>2 DEF DecisionsOf
<1>3. decision = [c \in Card |-> decision[c]]
  BY DEF DecisionsOf
<1>4. decision \in [Card -> Nat \cup {Undecided}]
  BY <1>1, <1>2, <1>3
<1>5. Undecided \notin Nat
  BY DEF Undecided
<1> QED
  BY <1>1, <1>2, <1>4, <1>5

(* A decided card is enabled with a tier and a priority in range.          *)
LEMMA RowType ==
  ASSUME NEW read, NEW score \in Nat
  PROVE  RowFor(read, score) \in Target /\ RowFor(read, score).enabled
<1>1. score # Undecided
  BY DEF Undecided
<1>2. TierOf(score) \in Tier
  BY DEF TierOf, Tier
<1>3. PriorityOf(score) \in Priority
  BY DEF PriorityOf, Priority
<1> QED
  BY <1>1, <1>2, <1>3 DEF RowFor, Target

(* Any row, one that is not there included.                                *)
AnyPriority == 0..1000
AnyRow == [enabled : BOOLEAN, tier : Tier, priority : AnyPriority]

LEMMA Present ==
  ASSUME NEW row \in Target \cup {NoTarget}
  PROVE  /\ row \in AnyRow
         /\ row # NoTarget => row \in Target
<1>1. CASE row \in Target
  <2>1. Priority \subseteq AnyPriority
    BY DEF Priority, AnyPriority
  <2> QED
    BY <1>1, <2>1 DEF Target, AnyRow
<1>2. CASE row = NoTarget
  BY <1>2 DEF NoTarget, AnyRow, Tier, AnyPriority
<1> QED
  BY <1>1, <1>2

(* A card that is not decided on keeps its row, disabled.                  *)
LEMMA DisabledRow ==
  ASSUME NEW read \in Target
  PROVE  RowFor(read, Undecided) \in Target /\ ~RowFor(read, Undecided).enabled
<1>1. RowFor(read, Undecided) = [read EXCEPT !.enabled = FALSE]
  BY DEF RowFor
<1>2. [read EXCEPT !.enabled = FALSE] \in Target /\ ~[read EXCEPT !.enabled = FALSE].enabled
  BY Zenon DEF Target
<1> QED
  BY <1>1, <1>2

LEMMA TargetIsRow == NoTarget \notin Target
  BY DEF Target, NoTarget, Priority

(* A row without race becomes the row asked for.                           *)
LEMMA FlushedUnraced ==
  ASSUME NEW read \in Target \cup {NoTarget},
         NEW row \in Target \cup {NoTarget}
  PROVE  Flushed(read, read, row) = row
<1>1. row \in AnyRow
  BY Present
<1>2. \A x, y : Column(x, x, y) = y
  BY DEF Column
<1>3. Flushed(read, read, row)
        = [enabled |-> row.enabled, tier |-> row.tier, priority |-> row.priority]
  BY <1>2 DEF Flushed
<1> QED
  BY <1>1, <1>3 DEF AnyRow

-----------------------------------------------------------------------------
(* Type correctness.                                                       *)

LEMMA InitInv == Init => Inv
<1> SUFFICES ASSUME Init PROVE Inv
  OBVIOUS
<1>1. shown \in Rows
  BY DEF Init, Rows
<1>2. work \in [Worker -> Work]
  BY DEF Init, Work
<1>3. target \in [Card -> Target \cup {NoTarget}] /\ decided \in [Card -> Nat \cup {Undecided}]
  BY DEF Init
<1>4. held \subseteq Card /\ raced \subseteq Card /\ changes \in 0..MaxChanges
  BY AttentionAssumption DEF Init
<1>5. RowsStay
  BY DEF Init, RowsStay, Idle
<1> QED
  BY <1>1, <1>2, <1>3, <1>4, <1>5 DEF Inv, TypeOK

(* A commit turns every row into a row, and removes none.                  *)
LEMMA CommitRows ==
  ASSUME Inv, NEW w \in Worker,
         NEW decision \in DecisionsOf(work[w].rows, work[w].held),
         CommitReallocation(w, decision), NEW c \in Card
  PROVE  /\ target'[c] \in Target \cup {NoTarget}
         /\ target[c] # NoTarget => target'[c] # NoTarget
<1> DEFINE read == work[w].targets[c]
           row == RowFor(read, decision[c])
<1>1. /\ work[w].step = "targets"
      /\ work[w].rows \in Rows
      /\ work[w].targets \in [Card -> Target \cup {NoTarget}]
  BY WorkFields DEF Inv, CommitReallocation
<1>2. read \in Target \cup {NoTarget} /\ target[c] \in Target \cup {NoTarget}
  BY <1>1 DEF Inv, TypeOK
<1>3. target'[c] = IF read = NoTarget /\ decision[c] = Undecided THEN target[c]
                   ELSE Flushed(target[c], read, row)
  BY DEF CommitReallocation
<1>4. decision[c] \in Nat \cup {Undecided} /\ (decision[c] # Undecided <=> c \in CardsOf(work[w].rows))
  BY <1>1, DecisionType
<1>5. CASE read = NoTarget /\ decision[c] = Undecided
  BY <1>2, <1>3, <1>5
<1>6. CASE read = NoTarget /\ decision[c] # Undecided
  <2>1. target[c] = NoTarget
    BY <1>4, <1>6 DEF CommitReallocation, Clash
  <2>2. row \in Target
    BY <1>4, <1>6, RowType
  <2>3. Flushed(target[c], read, row) = row
    BY <1>6, <2>1, <2>2, FlushedUnraced
  <2> QED
    BY <1>3, <1>6, <2>1, <2>2, <2>3
<1>7. CASE read # NoTarget
  <2>1. read \in Target
    BY <1>2, <1>7, Present
  <2>2. target[c] \in Target
    BY <1>1, <1>2, <1>7, Present DEF Inv, RowsStay
  <2>3. row \in Target
    <3>1. CASE decision[c] = Undecided
      BY <2>1, <3>1, DisabledRow
    <3>2. CASE decision[c] # Undecided
      BY <1>4, <3>2, RowType
    <3> QED
      BY <3>1, <3>2
  <2>4. Flushed(target[c], read, row) \in Target
    <3> HIDE DEF row, read
    <3> QED
      BY <2>1, <2>2, <2>3 DEF Flushed, Column, Target
  <2> QED
    BY <1>3, <1>7, <2>4, TargetIsRow
<1> QED
  BY <1>5, <1>6, <1>7

LEMMA CommitInv ==
  ASSUME Inv, NEW w \in Worker,
         NEW decision \in DecisionsOf(work[w].rows, work[w].held),
         CommitReallocation(w, decision)
  PROVE  Inv'
<1>1. work[w].rows \in Rows
  BY WorkFields DEF Inv, CommitReallocation
<1>2. target' \in [Card -> Target \cup {NoTarget}]
  <2>1. target' = [c \in Card |-> target'[c]]
    BY DEF CommitReallocation
  <2> QED
    BY <2>1, CommitRows
<1>3. decided' \in [Card -> Nat \cup {Undecided}]
  BY <1>1, DecisionType DEF CommitReallocation
<1>4. work' \in [Worker -> Work] /\ work' = [work EXCEPT ![w] = Idle]
  BY DEF Inv, TypeOK, CommitReallocation, Work
<1>5. raced' \subseteq Card
  BY DEF CommitReallocation
<1>6. shown' \in Rows /\ held' \subseteq Card /\ changes' \in 0..MaxChanges
  BY DEF Inv, TypeOK, CommitReallocation
<1>7. TypeOK'
  BY <1>2, <1>3, <1>4, <1>5, <1>6 DEF TypeOK
<1>8. RowsStay'
  <2> SUFFICES ASSUME NEW v \in Worker, work'[v].step = "targets", NEW c \in Card,
                      work'[v].targets[c] # NoTarget
               PROVE  target'[c] # NoTarget
    BY DEF RowsStay
  <2>1. v # w
    BY <1>4 DEF Inv, TypeOK, Idle
  <2>2. work'[v] = work[v]
    BY <1>4, <2>1 DEF Inv, TypeOK
  <2>3. target[c] # NoTarget
    BY <2>2 DEF Inv, RowsStay
  <2> QED
    BY <2>3, CommitRows
<1> QED
  BY <1>7, <1>8 DEF Inv

(* A step that leaves the targets alone and gives one worker new work.     *)
LEMMA WorkInv ==
  ASSUME Inv, NEW w \in Worker, NEW record \in Work,
         record.step = "targets" => record.targets = target,
         work' = [work EXCEPT ![w] = record],
         UNCHANGED <<shown, held, target, changes, decided, raced>>
  PROVE  Inv'
<1>1. TypeOK'
  BY DEF Inv, TypeOK
<1>2. RowsStay'
  <2> SUFFICES ASSUME NEW v \in Worker, work'[v].step = "targets", NEW c \in Card,
                      work'[v].targets[c] # NoTarget
               PROVE  target[c] # NoTarget
    BY DEF RowsStay
  <2>1. CASE v = w
    BY <2>1 DEF Inv, TypeOK
  <2>2. CASE v # w
    BY <2>2 DEF Inv, TypeOK, RowsStay
  <2> QED
    BY <2>1, <2>2
<1> QED
  BY <1>1, <1>2 DEF Inv

LEMMA NextInv == Inv /\ [Next]_vars => Inv'
<1> SUFFICES ASSUME Inv, [Next]_vars PROVE Inv'
  OBVIOUS
<1> USE DEF Inv
<1>1. ASSUME NEW rows \in [Place -> Signal \cup {Hidden}], Discover(rows)
      PROVE  Inv'
  <2>1. TypeOK'
    BY <1>1, AttentionAssumption DEF Discover, TypeOK, Rows
  <2>2. RowsStay'
    BY <1>1 DEF Discover, RowsStay
  <2> QED
    BY <2>1, <2>2
<1>2. ASSUME NEW c \in Card, Trade(c)
      PROVE  Inv'
  <2>1. TypeOK'
    BY <1>2, AttentionAssumption DEF Trade, TypeOK
  <2>2. RowsStay'
    BY <1>2 DEF Trade, RowsStay
  <2> QED
    BY <2>1, <2>2
<1>3. ASSUME NEW w \in Worker, ReadCandidates(w)
      PROVE  Inv'
  <2>1. [step |-> "candidates", rows |-> shown] \in Work
    BY DEF TypeOK, Work
  <2> QED
    BY <1>3, <2>1, WorkInv DEF ReadCandidates
<1>4. ASSUME NEW w \in Worker, ReadPositions(w)
      PROVE  Inv'
  <2>1. work[w].rows \in Rows
    BY <1>4, WorkFields DEF ReadPositions
  <2>2. [step |-> "positions", rows |-> work[w].rows, held |-> held] \in Work
    BY <2>1 DEF TypeOK, Work
  <2> QED
    BY <1>4, <2>2, WorkInv DEF ReadPositions, TypeOK
<1>5. ASSUME NEW w \in Worker, ReadTargets(w)
      PROVE  Inv'
  <2>1. work[w].rows \in Rows /\ work[w].held \subseteq Card
    BY <1>5, WorkFields DEF ReadTargets
  <2>2. [step |-> "targets", rows |-> work[w].rows, held |-> work[w].held,
         targets |-> target] \in Work
    BY <2>1 DEF TypeOK, Work
  <2> QED
    BY <1>5, <2>2, WorkInv DEF ReadTargets, TypeOK
<1>6. ASSUME NEW w \in Worker, RejectReallocation(w) \/ Abandon(w)
      PROVE  Inv'
  <2>1. Idle \in Work /\ Idle.step # "targets"
    BY DEF Work, Idle
  <2> QED
    BY <1>6, <2>1, WorkInv DEF RejectReallocation, Abandon
<1>7. CASE UNCHANGED vars
  BY <1>7 DEF vars, TypeOK, RowsStay
<1> QED
  BY <1>1, <1>2, <1>3, <1>4, <1>5, <1>6, <1>7, CommitInv DEF Next, Step

(* Every variable keeps its type, and what a reallocation read stays.      *)
THEOREM InvCorrect == Spec => []Inv
  BY InitInv, NextInv, PTL DEF Spec

(* Type correctness.                                                       *)
THEOREM TypeCorrect == Spec => []TypeOK
<1>1. Inv => TypeOK
  BY DEF Inv
<1> QED
  BY <1>1, InvCorrect, PTL

-----------------------------------------------------------------------------
(* The targets are what was decided last.                                  *)

LEMMA CommitDecided ==
  ASSUME Inv, NEW w \in Worker,
         NEW decision \in DecisionsOf(work[w].rows, work[w].held),
         CommitReallocation(w, decision)
  PROVE  TargetsAreDecided'
<1> SUFFICES ASSUME NEW c \in Card, c \notin raced'
             PROVE  /\ target'[c].enabled <=> decided'[c] # Undecided
                    /\ target'[c].enabled => /\ target'[c].tier = TierOf(decided'[c])
                                             /\ target'[c].priority = PriorityOf(decided'[c])
  BY DEF TargetsAreDecided, Enabled
<1> DEFINE read == work[w].targets[c]
           row == RowFor(read, decision[c])
<1>1. work[w].rows \in Rows /\ work[w].targets \in [Card -> Target \cup {NoTarget}]
  BY WorkFields DEF Inv, CommitReallocation
<1>2. target[c] = read /\ read \in Target \cup {NoTarget}
  BY <1>1 DEF CommitReallocation
<1>3. decision[c] \in Nat \cup {Undecided}
  BY <1>1, DecisionType
<1>4. target'[c] = IF read = NoTarget /\ decision[c] = Undecided THEN target[c]
                   ELSE Flushed(target[c], read, row)
  BY DEF CommitReallocation
<1>5. decided'[c] = decision[c]
  BY DEF CommitReallocation
<1>6. CASE decision[c] = Undecided
  <2>1. CASE read = NoTarget
    BY <1>2, <1>4, <1>5, <1>6, <2>1 DEF NoTarget
  <2>2. CASE read # NoTarget
    <3>1. read \in Target
      BY <1>2, <2>2, Present
    <3>2. row \in Target /\ ~row.enabled
      BY <1>6, <3>1, DisabledRow
    <3>3. target'[c] = row
      BY <1>2, <1>4, <2>2, <3>2, FlushedUnraced
    <3> QED
      BY <1>5, <1>6, <3>2, <3>3
  <2> QED
    BY <2>1, <2>2
<1>7. CASE decision[c] # Undecided
  <2>1. row \in Target /\ row.enabled
    BY <1>3, <1>7, RowType
  <2>2. row.tier = TierOf(decision[c]) /\ row.priority = PriorityOf(decision[c])
    BY <1>7 DEF RowFor
  <2>3. target'[c] = row
    BY <1>2, <1>4, <1>7, <2>1, FlushedUnraced
  <2> QED
    BY <1>5, <1>7, <2>1, <2>2, <2>3
<1> QED
  BY <1>6, <1>7

(* Outside a race the enabled targets, their tiers and their priorities    *)
(* are those of the last committed reallocation, for every market.         *)
THEOREM DecidedCorrect == Spec => []TargetsAreDecided
<1>1. Init => TargetsAreDecided
  BY DEF Init, TargetsAreDecided, Enabled, NoTarget
<1>2. Inv /\ TargetsAreDecided /\ [Next]_vars => TargetsAreDecided'
  <2> SUFFICES ASSUME Inv, TargetsAreDecided, [Next]_vars
               PROVE  TargetsAreDecided'
    OBVIOUS
  <2>1. ASSUME UNCHANGED <<target, decided, raced>>
        PROVE  TargetsAreDecided'
    BY <2>1 DEF TargetsAreDecided, Enabled
  <2>2. ASSUME NEW w \in Worker, Step(w)
        PROVE  TargetsAreDecided'
    BY <2>1, <2>2, CommitDecided
       DEF Step, ReadCandidates, ReadPositions, ReadTargets, RejectReallocation
  <2> QED
    BY <2>1, <2>2 DEF Next, Discover, Trade, Abandon, vars
<1> QED
  BY <1>1, <1>2, InvCorrect, PTL DEF Spec

-----------------------------------------------------------------------------
(* The metered requests.                                                   *)

(* A nonempty set of natural numbers has a least element.                  *)
LEMMA LeastNumber ==
  ASSUME NEW S \in SUBSET Nat, S # {}
  PROVE  \E m \in S : \A n \in S : m <= n
<1> DEFINE less == {pair \in Nat \X Nat : pair[1] < pair[2]}
<1>1. IsWellFoundedOn(less, Nat)
  BY NatLessThanWellFounded DEF OpToRel
<1>2. PICK m \in S : \A n \in S : <<n, m>> \notin less
  <2> HIDE DEF less
  <2> QED
    BY <1>1, WFMin, Zenon
<1>3. \A n \in S : ~(n < m)
  BY <1>2
<1> QED
  BY <1>3

(* What a candidate that is shown has.                                     *)
LEMMA ShownSignal ==
  ASSUME TypeOK, NEW c, NEW p \in PlacesOf(shown, c)
  PROVE  shown[p].score \in Score
<1>1. shown[p] \in Signal
  BY DEF TypeOK, Rows, PlacesOf
<1> QED
  BY <1>1, AttentionAssumption

(* The score that counts for a card is one a card may have.                *)
LEMMA LowestScoreType ==
  ASSUME TypeOK, NEW c
  PROVE  LowestScore(c) \in Score
<1> DEFINE scores == {shown[p].score : p \in PlacesOf(shown, c)}
<1>1. CASE PlacesOf(shown, c) = {}
  BY <1>1 DEF LowestScore, Score
<1>2. CASE PlacesOf(shown, c) # {}
  <2>1. scores \in SUBSET (Score) /\ scores # {}
    BY <1>2, ShownSignal
  <2>2. PICK s \in scores : \A t \in scores : s <= t
    <3>1. scores \in SUBSET Nat
      BY <2>1 DEF Score
    <3> HIDE DEF scores
    <3> QED
      BY <2>1, <3>1, LeastNumber
  <2>3. \A p \in PlacesOf(shown, c) : s <= shown[p].score
    BY <2>2
  <2>4. LowestScore(c) \in scores
    BY <1>2, <2>3 DEF LowestScore
  <2> QED
    BY <2>1, <2>4
<1> QED
  BY <1>1, <1>2

(* An enabled target has a priority.                                       *)
LEMMA EnabledPriority ==
  ASSUME TypeOK, NEW c \in Card, Enabled(c)
  PROVE  \E n \in Nat : n = target[c].priority /\ n <= 1000
<1>1. target[c] \in Target
  BY DEF TypeOK, Enabled, NoTarget
<1>2. target[c].priority \in Priority
  BY <1>1 DEF Target
<1>3. \A n \in Priority : n \in Nat /\ n <= 1000
  BY DEF Priority
<1> QED
  BY <1>2, <1>3

(* What Parse.bot's weight adds for a target and a candidate is less than  *)
(* what it adds for a holding.                                             *)
LEMMA HoldingsWeighMost ==
  ASSUME TypeOK, NEW c \in held, NEW d \in Card \ held
  PROVE  ParseWeight(c) > ParseWeight(d)
<1> DEFINE bonus(x) == IF target[x].enabled THEN target[x].priority * 100 * 100 ELSE 0
<1>1. c \in Card
  BY DEF TypeOK
<1>2. ASSUME NEW x \in Card PROVE bonus(x) \in Nat /\ bonus(x) <= 10000000
  <2>1. CASE target[x].enabled
    <3>1. PICK n \in Nat : n = target[x].priority /\ n <= 1000
      BY <2>1, EnabledPriority DEF Enabled
    <3>2. bonus(x) = n * 100 * 100
      BY <2>1, <3>1
    <3>3. n * 100 * 100 \in Nat /\ n * 100 * 100 <= 10000000
      BY <3>1, SMT
    <3> QED
      BY <3>2, <3>3, SMT
  <2>2. CASE ~target[x].enabled
    BY <2>2, SMT
  <2> QED
    BY <2>1, <2>2, SMT
<1>3. /\ ParseWeight(c) = 100000000 + bonus(c) + LowestScore(c)
      /\ ParseWeight(d) = 0 + bonus(d) + LowestScore(d)
  BY SMT DEF ParseWeight
<1>4. /\ LowestScore(c) \in Nat /\ LowestScore(d) \in Nat
      /\ LowestScore(c) <= 1165 /\ LowestScore(d) <= 1165
  <2>1. LowestScore(c) \in Score /\ LowestScore(d) \in Score
    BY LowestScoreType
  <2>2. \A s \in Score : s \in Nat /\ s <= 1165
    BY SMT DEF Score
  <2> QED
    BY <2>1, <2>2
<1> HIDE DEF bonus
<1>5. PICK e \in Nat, f \in Nat : e = bonus(c) /\ f = bonus(d) /\ f <= 10000000
  BY <1>1, <1>2, SMT
<1>6. PICK g \in Nat, h \in Nat : g = LowestScore(c) /\ h = LowestScore(d) /\ h <= 1165
  BY <1>4, SMT
<1>7. ParseWeight(c) = 100000000 + e + g /\ ParseWeight(d) = 0 + f + h
  BY <1>3, <1>5, <1>6, SMT
<1>8. 100000000 + e + g > 0 + f + h
  BY <1>5, <1>6, SMT
<1> QED
  BY <1>7, <1>8, SMT

(* Ranks count candidates, of which there are finitely many.               *)
LEMMA RankType ==
  ASSUME NEW p
  PROVE  RankOf(p) \in Nat
<1> DEFINE above == {q \in Place : shown[q] # Hidden /\ shown[q].score > shown[p].score}
<1>1. IsFiniteSet(above)
  BY FS_Subset, AttentionAssumption
<1>2. Cardinality(above) \in Nat
  BY <1>1, FS_CardinalityType
<1> QED
  BY <1>2 DEF RankOf

LEMMA StalenessType ==
  ASSUME NEW age \in Age \cup {Never}
  PROVE  Staleness(age) \in 0..2000
BY AttentionAssumption DEF Staleness, Never

(* Whatever makes a card watched outweighs the oldest price.               *)
LEMMA WatchedWeighMore ==
  ASSUME TypeOK, NEW c \in Watched, NEW d \in Card \ Watched,
         NEW a \in Age \cup {Never}, NEW b \in Age \cup {Never}, NEW p \in Place,
         c \in CardsOf(shown) => p \in PlacesOf(shown, c)
  PROVE  FutdbWeight(c, p, a) > FutdbWeight(d, p, b)
<1> DEFINE holding(x) == IF x \in held THEN 10000 ELSE 0
           hot(x) == IF target[x].enabled THEN 5000 + (1000 - target[x].priority) ELSE 0
           ranked(x) == IF p \in PlacesOf(shown, x)
                        THEN 3000 + (IF RankOf(p) < 1000 THEN 1000 - RankOf(p) ELSE 0) ELSE 0
<1>1. c \in Card
  BY DEF Watched, TypeOK, CardsOf
<1>2. Staleness(a) \in 0..2000 /\ Staleness(b) \in 0..2000
  BY StalenessType
<1>3. /\ FutdbWeight(c, p, a) = holding(c) + hot(c) + ranked(c) + Staleness(a)
      /\ FutdbWeight(d, p, b) = holding(d) + hot(d) + ranked(d) + Staleness(b)
  BY DEF FutdbWeight
<1>4. holding(c) \in Nat /\ (c \in held => holding(c) >= 3000)
  OBVIOUS
<1>5. hot(c) \in Nat /\ (Enabled(c) => hot(c) >= 3000)
  <2>1. CASE target[c].enabled
    <3>1. PICK n \in Nat : n = target[c].priority /\ n <= 1000
      BY <1>1, <2>1, EnabledPriority DEF Enabled
    <3>2. hot(c) = 5000 + (1000 - n)
      BY <2>1, <3>1
    <3> HIDE DEF hot
    <3> QED
      BY <3>1, <3>2
  <2>2. CASE ~target[c].enabled
    <3>1. hot(c) = 0 /\ ~Enabled(c)
      BY <2>2 DEF Enabled
    <3> HIDE DEF hot
    <3> QED
      BY <3>1
  <2> QED
    BY <2>1, <2>2
<1>6. ranked(c) \in Nat /\ (c \in CardsOf(shown) => ranked(c) >= 3000)
  BY RankType
<1>7. holding(d) = 0 /\ hot(d) = 0 /\ ranked(d) = 0
  BY DEF Watched, Enabled, CardsOf
<1>8. c \in held \/ Enabled(c) \/ c \in CardsOf(shown)
  BY DEF Watched
<1> HIDE DEF holding, hot, ranked
<1> QED
  <2> DEFINE i == holding(c)
             j == hot(c)
             k == ranked(c)
             m == Staleness(a)
             n == Staleness(b)
  <2>1. i \in Nat /\ j \in Nat /\ k \in Nat /\ m \in 0..2000 /\ n \in 0..2000
    BY <1>2, <1>4, <1>5, <1>6
  <2>2. i >= 3000 \/ j >= 3000 \/ k >= 3000
    BY <1>4, <1>5, <1>6, <1>8
  <2>3. FutdbWeight(c, p, a) = i + j + k + m /\ FutdbWeight(d, p, b) = 0 + 0 + 0 + n
    BY <1>3, <1>7
  <2> HIDE DEF i, j, k, m, n
  <2> QED
    BY <2>1, <2>2, <2>3

(* Metered requests go to watched cards first, for any market, portfolio   *)
(* and targets: a holding outweighs all others for Parse.bot, and what is  *)
(* held, a target or a candidate outweighs the rest for FUT-DB             *)
(* (select_parse_futbin_hot_targets, select_futdb_price_targets).            *)
THEOREM WatchedCorrect == Spec => []WatchedFirst
<1>1. TypeOK => WatchedFirst
  BY HoldingsWeighMost, WatchedWeighMore DEF WatchedFirst
<1> QED
  BY <1>1, TypeCorrect, PTL
=============================================================================
