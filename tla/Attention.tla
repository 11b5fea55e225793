------------------------------ MODULE Attention ------------------------------
(***************************************************************************)
(* Observation effort.  Every two minutes a Celery task reallocates        *)
(* attention: it reads the shown candidates, the open positions and the    *)
(* collection targets, decides a score for every candidate, and writes     *)
(* collection_targets so that the cards it decided on are enabled with the *)
(* tier and priority of their score and all others are disabled.  Workers  *)
(* overlap and read at READ COMMITTED without locks; the flush writes the  *)
(* columns that differ from what was read, and the key (card, platform)    *)
(* lets one of two inserts win.                                            *)
(*                                                                         *)
(* Two collectors spend metered requests on the result: FUT-DB's and       *)
(* Parse.bot's selections are operators over the same tables.              *)
(*                                                                         *)
(* A candidate is named by its card and its market entry, of which a card  *)
(* may have several.  Scores are in hundredths.  Discovery and trading are *)
(* the environment: CandidateLifecycle and PortfolioLedger model them.     *)
(* attention_allocations and next_due_at are written and never read.       *)
(***************************************************************************)
EXTENDS Integers, FiniteSets

CONSTANTS
  Card,          \* cards
  Place,         \* pairs <<card, entry>> that may be ranked
  Signal,        \* [score, gain]: opportunity score, and what catalyst, movement
                 \* and volume add to it as attention
  Age,           \* hours since a card's last FUT-DB price, for the selection
  Worker,        \* Celery processes that may reallocate
  MaxChanges     \* bound on discoveries and trades

(* Scores are weighted sums of inputs cut to -1..1: none exceeds the sum   *)
(* of the weights' magnitudes, 11.65, and none below 0.35 is shown.        *)
Score == 0..1165

ASSUME AttentionAssumption ==
  /\ IsFiniteSet(Card) /\ IsFiniteSet(Place) /\ Place \subseteq Card \X Nat
  /\ Signal \subseteq [score : Score, gain : Nat]
  /\ Age \subseteq Nat
  /\ MaxChanges \in Nat

VARIABLES
  shown,     \* place -> the signal of the shown candidate, or Hidden
  held,      \* cards with an open position
  target,    \* card -> collection_targets row, or NoTarget
  work,      \* worker -> the reallocation it runs
  changes,   \* number of discoveries and trades
  decided,   \* history: card -> its score in the last committed reallocation
  raced      \* history: cards whose row had changed under that reallocation

vars == <<shown, held, target, work, changes, decided, raced>>

Hidden == [score |-> 0, gain |-> -1]
Tier == {"critical", "hot", "active", "background"}
Priority == 1..1000
Target == [enabled : BOOLEAN, tier : Tier, priority : Priority]
NoTarget == [enabled |-> FALSE, tier |-> "background", priority |-> 0]

Undecided == -1

Idle == [step |-> "idle"]

Init ==
  /\ shown = [p \in Place |-> Hidden]
  /\ held = {}
  /\ target = [c \in Card |-> NoTarget]
  /\ work = [w \in Worker |-> Idle]
  /\ changes = 0
  /\ decided = [c \in Card |-> Undecided]
  /\ raced = {}

-----------------------------------------------------------------------------
(* The environment.                                                        *)

(* A discovery cycle leaves another set of candidates shown.               *)
Discover(rows) ==
  /\ changes < MaxChanges
  /\ changes' = changes + 1
  /\ shown' = rows
  /\ UNCHANGED <<held, target, work, decided, raced>>

(* A purchase opens the position of a card, or the last sale closes it.    *)
Trade(c) ==
  /\ changes < MaxChanges
  /\ changes' = changes + 1
  /\ held' = IF c \in held THEN held \ {c} ELSE held \cup {c}
  /\ UNCHANGED <<shown, target, work, decided, raced>>

-----------------------------------------------------------------------------
(* Decisions.                                                              *)

ActiveGain == 125

(* What one candidate is worth watching; positions are those read.         *)
AttentionOf(signal, active) ==
  signal.score + signal.gain + (IF active THEN ActiveGain ELSE 0)

TierOf(score) ==
  CASE score >= 250 -> "critical"
    [] score >= 150 /\ score < 250 -> "hot"
    [] score >= 75 /\ score < 150 -> "active"
    [] OTHER -> "background"

(* Faulty variant: nothing keeps a very hot card at 1.                     *)
PriorityUnclamped(score) == 1000 - score

(* A hotter card has the lower number: from 1 to 1000.                     *)
PriorityOf(score) == IF score >= 999 THEN 1 ELSE 1000 - score

PlacesOf(rows, c) == {p \in Place : p[1] = c /\ rows[p] # Hidden}
CardsOf(rows) == {c \in Card : PlacesOf(rows, c) # {}}

(* The scores a card may get: of several candidates, and the query has no  *)
(* order, any may be the last to be applied.                               *)
ScoresOf(rows, active, c) ==
  {AttentionOf(rows[p], c \in active) : p \in PlacesOf(rows, c)}

(* A score for every card that has a candidate, Undecided for the others.  *)
DecisionsOf(rows, active) ==
  {d \in [Card -> {Undecided} \cup UNION {ScoresOf(rows, active, c) : c \in Card}] :
     \A c \in Card : IF c \in CardsOf(rows) THEN d[c] \in ScoresOf(rows, active, c)
                     ELSE d[c] = Undecided}

-----------------------------------------------------------------------------
(* One reallocation: three queries, then flush and commit.                 *)

ReadCandidates(w) ==
  /\ work[w].step = "idle"
  /\ work' = [work EXCEPT ![w] = [step |-> "candidates", rows |-> shown]]
  /\ UNCHANGED <<shown, held, target, changes, decided, raced>>

ReadPositions(w) ==
  /\ work[w].step = "candidates"
  /\ work' = [work EXCEPT ![w] = [step |-> "positions", rows |-> @.rows, held |-> held]]
  /\ UNCHANGED <<shown, held, target, changes, decided, raced>>

(* Faulty variant: disabled rows are not looked at.                        *)
ReadEnabledTargets(w) ==
  /\ work[w].step = "positions"
  /\ work' = [work EXCEPT ![w] =
                [step |-> "targets", rows |-> @.rows, held |-> @.held,
                 targets |-> [c \in Card |-> IF target[c].enabled THEN target[c] ELSE NoTarget]]]
  /\ UNCHANGED <<shown, held, target, changes, decided, raced>>

ReadTargets(w) ==
  /\ work[w].step = "positions"
  /\ work' = [work EXCEPT ![w] =
                [step |-> "targets", rows |-> @.rows, held |-> @.held, targets |-> target]]
  /\ UNCHANGED <<shown, held, target, changes, decided, raced>>

(* Faulty variant: a target that is decided on again is not enabled.       *)
RowWithoutEnable(read, score) ==
  IF score = Undecided
  THEN [read EXCEPT !.enabled = FALSE]
  ELSE [enabled |-> read = NoTarget \/ read.enabled, tier |-> TierOf(score),
        priority |-> PriorityOf(score)]

(* The row a decision asks for.                                            *)
RowFor(read, score) ==
  IF score = Undecided
  THEN [read EXCEPT !.enabled = FALSE]
  ELSE [enabled |-> TRUE, tier |-> TierOf(score), priority |-> PriorityOf(score)]

(* What the flush leaves: an assigned column is written if it differs from *)
(* what was read.  A row that is not there reads as NoTarget, from which a *)
(* new row differs in all columns that matter.                             *)
Column(current, read, written) == IF written = read THEN current ELSE written

Flushed(current, read, row) ==
  [enabled |-> Column(current.enabled, read.enabled, row.enabled),
   tier |-> Column(current.tier, read.tier, row.tier),
   priority |-> Column(current.priority, read.priority, row.priority)]

(* A new row twice in one flush, or beside that of another worker, breaks  *)
(* the unique key.                                                         *)
Clash(w) ==
  \E c \in CardsOf(work[w].rows) :
    /\ work[w].targets[c] = NoTarget
    /\ \/ target[c] # NoTarget
       \/ \E p, q \in PlacesOf(work[w].rows, c) : p # q

CommitReallocation(w, decision) ==
  LET read == work[w].targets
  IN /\ work[w].step = "targets"
     /\ ~Clash(w)
     /\ target' = [c \in Card |->
                     IF read[c] = NoTarget /\ decision[c] = Undecided THEN target[c]
                     ELSE Flushed(target[c], read[c], RowFor(read[c], decision[c]))]
     /\ decided' = decision
     /\ raced' = {c \in Card : target[c] # read[c]}
     /\ work' = [work EXCEPT ![w] = Idle]
     /\ UNCHANGED <<shown, held, changes>>

Rejected(w) == work[w].step = "targets" /\ Clash(w)

(* The exception rolls the whole reallocation back.                        *)
RejectReallocation(w) ==
  /\ Rejected(w)
  /\ work' = [work EXCEPT ![w] = Idle]
  /\ UNCHANGED <<shown, held, target, changes, decided, raced>>

(* The worker is lost, or PostgreSQL ends one of two flushes that wait for *)
(* each other: any reallocation that would not be rejected anyway.         *)
Abandon(w) ==
  /\ work[w].step # "idle"
  /\ ~ Rejected(w)
  /\ work' = [work EXCEPT ![w] = Idle]
  /\ UNCHANGED <<shown, held, target, changes, decided, raced>>

-----------------------------------------------------------------------------
Step(w) ==
  \/ ReadCandidates(w)
  \/ ReadPositions(w)
  \/ ReadTargets(w)
  \/ /\ work[w].step = "targets"
     /\ \E decision \in DecisionsOf(work[w].rows, work[w].held) :
          CommitReallocation(w, decision)
  \/ RejectReallocation(w)

Next ==
  \/ \E rows \in [Place -> Signal \cup {Hidden}] : Discover(rows)
  \/ \E c \in Card : Trade(c)
  \/ \E w \in Worker : Step(w) \/ Abandon(w)

Spec == Init /\ [][Next]_vars

(* Celery beat starts a reallocation every two minutes and nothing in one  *)
(* waits for ever; that workers are lost is possible, never required.      *)
FairSpec == Spec /\ \A w \in Worker : WF_vars(Step(w))

-----------------------------------------------------------------------------
(* Who gets the metered requests: a collection takes the heaviest cards,   *)
(* up to a limit, so that what matters is which card outweighs which.      *)

(* Of several candidates of a card the last of the descending order stays. *)
LowestScore(c) ==
  IF PlacesOf(shown, c) = {} THEN 0
  ELSE CHOOSE s \in {shown[p].score : p \in PlacesOf(shown, c)} :
         \A p \in PlacesOf(shown, c) : s <= shown[p].score

(* Parse.bot's weight of a card, in hundredths.                            *)
ParseWeight(c) ==
  (IF c \in held THEN 1000000 * 100 ELSE 0)
    + (IF target[c].enabled THEN target[c].priority * 100 * 100 ELSE 0)
    + LowestScore(c)

Never == -1

(* Faulty variant: the age of a price counts without bound.                *)
StalenessUnbounded(age) == IF age = Never THEN 2000 ELSE 10 * age

(* What a missing or old FUT-DB price adds.                                *)
Staleness(age) ==
  IF age = Never THEN 2000 ELSE IF 10 * age < 1500 THEN 10 * age ELSE 1500

(* The rank of a candidate in the order of scores.                         *)
RankOf(p) == 1 + Cardinality({q \in Place : shown[q] # Hidden /\ shown[q].score > shown[p].score})

(* FUT-DB's weight of a card given the age of its last price; p is that of *)
(* its candidates, if it has any, which the query returned last.           *)
FutdbWeight(c, p, age) ==
  (IF c \in held THEN 10000 ELSE 0)
    + (IF target[c].enabled THEN 5000 + (1000 - target[c].priority) ELSE 0)
    + (IF p \in PlacesOf(shown, c) THEN 3000 + (IF RankOf(p) < 1000 THEN 1000 - RankOf(p) ELSE 0)
       ELSE 0)
    + Staleness(age)

-----------------------------------------------------------------------------
(* Properties.                                                             *)

Enabled(c) == target[c].enabled

Rows == [Place -> Signal \cup {Hidden}]
Work ==
  {Idle}
    \cup [step : {"candidates"}, rows : Rows]
    \cup [step : {"positions"}, rows : Rows, held : SUBSET Card]
    \cup [step : {"targets"}, rows : Rows, held : SUBSET Card,
          targets : [Card -> Target \cup {NoTarget}]]

TypeOK ==
  /\ shown \in Rows
  /\ held \subseteq Card
  /\ target \in [Card -> Target \cup {NoTarget}]
  /\ work \in [Worker -> Work]
  /\ changes \in 0..MaxChanges
  /\ decided \in [Card -> Nat \cup {Undecided}]
  /\ raced \subseteq Card

(* Whatever entered, left and came back, and however reallocations         *)
(* overlapped before, the targets are what the last committed reallocation *)
(* decided: those cards enabled with tier and priority of one score, all   *)
(* others disabled.  Only a row that changed between that reallocation's   *)
(* query and its commit may differ.                                        *)
TargetsAreDecided ==
  \A c \in Card \ raced :
    /\ Enabled(c) <=> decided[c] # Undecided
    /\ Enabled(c) => /\ target[c].tier = TierOf(decided[c])
                     /\ target[c].priority = PriorityOf(decided[c])

(* A card twice among the candidates and without a target yet: every       *)
(* reallocation fails until discovery hides one of them.                   *)
Blocked ==
  \E c \in Card : target[c] = NoTarget /\ \E p, q \in PlacesOf(shown, c) : p # q

(* The targets are the shown cards, each with a priority it may have.      *)
Settled ==
  \A c \in Card :
    /\ Enabled(c) <=> c \in CardsOf(shown)
    /\ Enabled(c) => \E s \in ScoresOf(shown, held, c) : target[c].priority = PriorityOf(s)

(* "Collection attention is recomputed continuously" (README): when the    *)
(* market and the portfolio rest, the targets become the shown cards,      *)
(* whatever races happened before; unless workers are lost again and again *)
(* or a card without target is shown twice.                                *)
TargetsCatchUp ==
  \/ []<><<\E w \in Worker : Abandon(w)>>_vars
  \/ []<>Blocked
  \/ <>[]Settled

Watched == held \cup CardsOf(shown) \cup {c \in Card : Enabled(c)}

(* Metered requests: however the targets lag behind, a holding outweighs   *)
(* every card not held for Parse.bot, and for FUT-DB a card that is held,  *)
(* a target or a candidate outweighs one that is none of these, however    *)
(* old the price of that is.                                               *)
WatchedFirst ==
  /\ \A c \in held, d \in Card \ held : ParseWeight(c) > ParseWeight(d)
  /\ \A c \in Watched, d \in Card \ Watched, a, b \in Age \cup {Never}, p \in Place :
       (c \in CardsOf(shown) => p \in PlacesOf(shown, c))
         => FutdbWeight(c, p, a) > FutdbWeight(d, p, b)
=============================================================================
