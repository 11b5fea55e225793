-------------------------- MODULE OperationsProofs --------------------------
(***************************************************************************)
(* Proofs about what the scheduled jobs and the operator's scripts keep.   *)
(*                                                                         *)
(* The strategy library, for any strategies, seeds, orders and overlapping *)
(* transactions. RegistryInv says which rows each transaction has read and *)
(* holds at its place in the order it follows (SeedOK, TestOK), that a row *)
(* once there stays, that what a seed run is to add is not stored yet      *)
(* (SeedCounts), and what a backtest remembers of the rows it read, and    *)
(* which runs are its own (SampleInv): so a measured status is the class   *)
(* of the latest sample, or was written over by someone who read an older  *)
(* row. Locks taken in one order exclude a cycle; a seed run follows its   *)
(* order except where its insert is outrun.                                *)
(*                                                                         *)
(* The shadow trades: the price grid and the tax only ever take from the   *)
(* trader, so a recorded fill is worse than what was seen.                 *)
(*                                                                         *)
(* The rows that the Parse.bot tasks share, for any number of overlapping  *)
(* batches and requests: counters lose increments only when a batch writes *)
(* a row that changed after it had read it, and HEALTHY means that the     *)
(* last batch had an answer.                                               *)
(*                                                                         *)
(* The qualification of providers: the figures of a report are numbers,    *)
(* the order of the ranking is strict and total, so that every qualified   *)
(* provider has one place in it, and the loops find the first pair.        *)
(***************************************************************************)
EXTENDS StrategyRegistry, ProviderRecords, ShadowTrading, ProviderQualification,
        FiniteSetTheorems, WellFoundedInduction, SequenceTheorems, TLAPS

LibraryEntry == LibraryRow \cup {NoRow}
Transaction ==
    [stage : {"idle", "read", "lock", "store"}, at : Nat \ {0},
     read : [Strategy -> LibraryEntry],
     stale : SUBSET Strategy, found : SUBSET Strategy,
     added : [Strategy -> SUBSET SeedSource]]
BacktestRun == [of : Samples, by : Writer \cup {"nobody", "undone"}]

LEMMA OrderFacts ==
    ASSUME NEW order \in {FileOrder, SlugOrder, KeyOrder}
    PROVE  /\ Len(order) \in Nat /\ DOMAIN order = 1..Len(order)
           /\ \A k \in 1..Len(order) : order[k] \in Strategy
           /\ \A s \in Strategy : \E k \in 1..Len(order) : order[k] = s
           /\ \A j, k \in 1..Len(order) : order[j] = order[k] => j = k
<1>1. order \in Seq(Strategy)
  BY RegistryAssumption
<1>2. Len(order) \in Nat /\ DOMAIN order = 1..Len(order)
  BY <1>1, LenProperties
<1>3. \A k \in 1..Len(order) : order[k] \in Strategy
  BY <1>1, ElementOfSeq
<1>4. /\ \A s \in Strategy : \E k \in DOMAIN order : order[k] = s
      /\ \A j, k \in DOMAIN order : order[j] = order[k] => j = k
  BY RegistryAssumption
<1> QED
  BY <1>2, <1>3, <1>4

LEMMA FileFacts ==
    /\ Len(FileOrder) \in Nat /\ DOMAIN FileOrder = 1..Len(FileOrder)
    /\ \A k \in 1..Len(FileOrder) : FileOrder[k] \in Strategy
    /\ \A s \in Strategy : \E k \in 1..Len(FileOrder) : FileOrder[k] = s
    /\ \A j, k \in 1..Len(FileOrder) : FileOrder[j] = FileOrder[k] => j = k
BY OrderFacts, Zenon

LEMMA SlugFacts ==
    /\ Len(SlugOrder) \in Nat /\ DOMAIN SlugOrder = 1..Len(SlugOrder)
    /\ \A k \in 1..Len(SlugOrder) : SlugOrder[k] \in Strategy
    /\ \A s \in Strategy : \E k \in 1..Len(SlugOrder) : SlugOrder[k] = s
    /\ \A j, k \in 1..Len(SlugOrder) : SlugOrder[j] = SlugOrder[k] => j = k
BY OrderFacts, Zenon

LEMMA KeyFacts ==
    /\ Len(KeyOrder) \in Nat /\ DOMAIN KeyOrder = 1..Len(KeyOrder)
    /\ \A k \in 1..Len(KeyOrder) : KeyOrder[k] \in Strategy
    /\ \A s \in Strategy : \E k \in 1..Len(KeyOrder) : KeyOrder[k] = s
    /\ \A j, k \in 1..Len(KeyOrder) : KeyOrder[j] = KeyOrder[k] => j = k
BY OrderFacts, Zenon

LEMMA WriterFacts ==
    /\ "nobody" \notin Writer /\ "undone" \notin Writer
    /\ \A w \in Writer : w \in Seeder <=> w \notin Tester
BY RegistryAssumption DEF Writer

LEMMA AtRestType == AtRest \in Transaction
BY DEF AtRest, Transaction, LibraryEntry

LEMMA NoRowFacts == NoRow \notin LibraryRow /\ NoRow.locked = FALSE /\ NewRow \in LibraryRow
BY DEF NoRow, LibraryRow, Class, NewRow, Viability

LEMMA QualitativeType == ASSUME NEW ev PROVE Qualitative(ev) \in LibraryRow /\ Qualitative(ev).locked = FALSE
<1> DEFINE for == SeedSource \ Contradicting
           strong == EvidenceRows(ev, for) >= 3 /\ MapThenSumSet(LAMBDA e : ev[e] * Quality[e], for) >= 200
           some   == EvidenceRows(ev, for) > 0
           against == EvidenceRows(ev, Contradicting) > 0
           class == IF strong THEN "STRONG" ELSE IF some THEN "PLAUSIBLE" ELSE "INCONCLUSIVE"
           viability == IF against THEN "mixed_evidence" ELSE "source_only"
<1>1. Qualitative(ev) = [class |-> class, viability |-> viability, locked |-> FALSE]
  BY DEF Qualitative
<1>2. class \in Class /\ viability \in Viability
  <2> HIDE DEF strong, some, against
  <2> QED BY DEF Class, Viability
<1> HIDE DEF class, viability
<1> QED
  BY <1>1, <1>2 DEF LibraryRow

LEMMA MeasuredType == ASSUME NEW m \in Samples PROVE Measured(m) \in LibraryRow /\ Measured(m).locked = TRUE
<1>1. m \in [n : Nat, wins : Nat, profit : Int]
  BY RegistryAssumption
<1>2. \E class \in Class, viability \in Viability :
         Measured(m) = [class |-> class, viability |-> viability, locked |-> TRUE]
  BY <1>1 DEF Measured, Class, Viability
<1> QED
  BY <1>2 DEF LibraryRow

LEMMA RowByColumns ==
    ASSUME NEW f, f = [c \in {"class", "viability", "locked"} |-> f[c]]
    PROVE  f = [class |-> f["class"], viability |-> f["viability"], locked |-> f["locked"]]
OBVIOUS

LEMMA RowMember ==
    ASSUME NEW c \in Class, NEW v \in Viability, NEW l \in BOOLEAN
    PROVE  [class |-> c, viability |-> v, locked |-> l] \in LibraryRow
BY DEF LibraryRow

LEMMA WrittenFacts ==
    ASSUME NEW now \in LibraryRow, NEW read \in LibraryRow, NEW new \in LibraryRow
    PROVE  /\ Written(now, read, new) \in LibraryRow
           /\ now = read => Written(now, read, new) = new
<1>1. Written(now, read, new) =
        [class |-> IF new.class = read.class THEN now.class ELSE new.class,
         viability |-> IF new.viability = read.viability THEN now.viability ELSE new.viability,
         locked |-> IF new.locked = read.locked THEN now.locked ELSE new.locked]
  <2>1. DOMAIN new = {"class", "viability", "locked"}
    BY DEF LibraryRow
  <2> DEFINE f == [c \in {"class", "viability", "locked"} |-> IF new[c] = read[c] THEN now[c] ELSE new[c]]
             g == [class |-> IF new.class = read.class THEN now.class ELSE new.class,
                   viability |-> IF new.viability = read.viability THEN now.viability ELSE new.viability,
                   locked |-> IF new.locked = read.locked THEN now.locked ELSE new.locked]
  <2>2. Written(now, read, new) = f
    BY <2>1 DEF Written
  <2>3. f["class"] = g["class"] /\ f["viability"] = g["viability"]
    OBVIOUS
  <2>4. f["locked"] = g["locked"]
    OBVIOUS
  <2>5. f = [class |-> f["class"], viability |-> f["viability"], locked |-> f["locked"]]
    <3>1. f = [c \in {"class", "viability", "locked"} |-> f[c]]
      OBVIOUS
    <3> HIDE DEF f
    <3> QED BY <3>1, RowByColumns
  <2>6. f = g
    <3> HIDE DEF f
    <3> QED BY <2>3, <2>4, <2>5
  <2> QED BY <2>2, <2>6
<1>2. /\ now.class \in Class /\ new.class \in Class
      /\ now.viability \in Viability /\ new.viability \in Viability
      /\ now.locked \in BOOLEAN /\ new.locked \in BOOLEAN
  BY DEF LibraryRow
<1>3. Written(now, read, new) \in LibraryRow
  <2>1. (IF new.class = read.class THEN now.class ELSE new.class) \in Class
    BY <1>2
  <2>2. (IF new.viability = read.viability THEN now.viability ELSE new.viability) \in Viability
    BY <1>2
  <2>3. (IF new.locked = read.locked THEN now.locked ELSE new.locked) \in BOOLEAN
    BY <1>2
  <2> QED
    BY <1>1, <2>1, <2>2, <2>3, RowMember, Zenon
<1>4. ASSUME now = read PROVE Written(now, read, new) = new
  <2>1. new = [class |-> new.class, viability |-> new.viability, locked |-> new.locked]
    BY DEF LibraryRow
  <2>2. /\ (IF new.class = read.class THEN now.class ELSE new.class) = new.class
        /\ (IF new.viability = read.viability THEN now.viability ELSE new.viability) = new.viability
        /\ (IF new.locked = read.locked THEN now.locked ELSE new.locked) = new.locked
    BY <1>4, Zenon
  <2> QED
    BY <1>1, <2>1, <2>2, Zenon
<1> QED
  BY <1>3, <1>4

(* A nonempty set of natural numbers has a least element.                  *)
LEMMA LeastPlace ==
    ASSUME NEW T \in SUBSET Nat, T # {}
    PROVE  \E m \in T : \A n \in T : m <= n
<1> DEFINE less == {ss \in Nat \X Nat : ss[1] < ss[2]}
<1>1. IsWellFoundedOn(less, Nat)
  BY NatLessThanWellFounded DEF OpToRel
<1>2. PICK m \in T : \A n \in T : <<n, m>> \notin less
  <2> HIDE DEF less
  <2> QED BY <1>1, WFMin, Zenon
<1>3. \A n \in T : ~(n < m)
  BY <1>2
<1> QED
  BY <1>3

-----------------------------------------------------------------------------
(* What each action does to the transaction of its writer.                 *)
Stepped(w) ==
    /\ work' \in [Writer -> Transaction]
    /\ \A v \in Writer \ {w} : work'[v] = work[v]

LEMMA MoveOf ==
    ASSUME work \in [Writer -> Transaction], NEW w \in Writer, NEW x \in Transaction,
           work' = [work EXCEPT ![w] = x]
    PROVE  Stepped(w) /\ work'[w] = x
BY DEF Stepped

LEMMA TransactionFacts ==
    ASSUME work \in [Writer -> Transaction], NEW w \in Writer
    PROVE  /\ work[w] \in Transaction
           /\ work[w].at \in Nat \ {0}
           /\ work[w].read \in [Strategy -> LibraryEntry]
           /\ work[w].stale \in SUBSET Strategy /\ work[w].found \in SUBSET Strategy
           /\ work[w].added \in [Strategy -> SUBSET SeedSource]
           /\ work[w].stage \in {"idle", "read", "lock", "store"}
BY DEF Transaction

Unread  == [s \in Strategy |-> NoRow]
Unadded == [s \in Strategy |-> {}]

LEMMA RestIs ==
    /\ AtRest = [stage |-> "idle", at |-> 1, read |-> Unread, stale |-> {}, found |-> {}, added |-> Unadded]
    /\ Unread \in [Strategy -> LibraryEntry] /\ \A s \in Strategy : Unread[s] = NoRow
    /\ Unadded \in [Strategy -> SUBSET SeedSource]
<1>1. AtRest = [stage |-> "idle", at |-> 1, read |-> Unread, stale |-> {}, found |-> {}, added |-> Unadded]
  BY Zenon DEF AtRest, Unread, Unadded
<1> QED
  BY <1>1 DEF Unread, Unadded, LibraryEntry

LEMMA BeginEffect ==
    ASSUME work \in [Writer -> Transaction], NEW w \in Writer,
           NEW read \in [Strategy -> LibraryEntry], Begin(w, read)
    PROVE  /\ Stepped(w)
           /\ work[w].stage = "idle"
           /\ work'[w].stage = "read" /\ work'[w].at = 1 /\ work'[w].read = read
           /\ work'[w].stale = {} /\ work'[w].found = {} /\ work'[w].added = Unadded
           /\ UNCHANGED <<library, evidence, runs, holder, closed, edition, raced>>
<1> DEFINE x == [AtRest EXCEPT !.stage = "read", !.read = read]
<1>1. /\ AtRest \in Transaction /\ AtRest.at = 1 /\ AtRest.stale = {} /\ AtRest.found = {}
      /\ AtRest.added = Unadded
  BY AtRestType, RestIs
<1>2. x \in Transaction
  BY <1>1 DEF Transaction
<1>3. /\ x.stage = "read" /\ x.read = read /\ x.at = 1 /\ x.stale = {} /\ x.found = {}
      /\ x.added = Unadded
  BY <1>1 DEF Transaction
<1>4. work' = [work EXCEPT ![w] = x]
  BY DEF Begin
<1>5. Stepped(w) /\ work'[w] = x
  <2> HIDE DEF x
  <2> QED BY <1>2, <1>4, MoveOf
<1> HIDE DEF x
<1> QED
  BY <1>3, <1>5 DEF Begin

LEMMA SeedReadEffect ==
    ASSUME work \in [Writer -> Transaction], library \in [Strategy -> LibraryEntry],
           NEW w \in Writer, SeedRead(w)
    PROVE  LET k == work[w].at
               s == FileOrder[k]
           IN  /\ Stepped(w)
               /\ w \in Seeder /\ work[w].stage = "read" /\ k \in 1..Len(FileOrder) /\ s \in Strategy
               /\ work'[w].at = k + 1
               /\ work'[w].read = [work[w].read EXCEPT ![s] = library[s]]
               /\ work'[w].stale = work[w].stale \ {s}
               /\ work'[w].found = work[w].found
               /\ work'[w].added = work[w].added
               /\ work'[w].stage = IF library[s] = NoRow \/ k = Len(FileOrder) THEN "lock" ELSE "read"
               /\ UNCHANGED <<library, evidence, runs, holder, closed, edition, raced, begun>>
<1> DEFINE k == work[w].at
           s == FileOrder[k]
           stage == IF library[s] = NoRow \/ k = Len(FileOrder) THEN "lock" ELSE "read"
           read  == [work[w].read EXCEPT ![s] = library[s]]
           x == [work[w] EXCEPT !.at = k + 1, !.read = read, !.stale = work[w].stale \ {s}, !.stage = stage]
<1>1. work[w] \in Transaction /\ k \in Nat \ {0}
  BY DEF Transaction
<1>2. k \in 1..Len(FileOrder) /\ s \in Strategy
  BY <1>1, FileFacts DEF SeedRead
<1>3. read \in [Strategy -> LibraryEntry] /\ stage \in {"lock", "read"} /\ k + 1 \in Nat \ {0}
  BY <1>1, <1>2, TransactionFacts
<1>4. work' = [work EXCEPT ![w] = x]
  <2>1. work' = [work EXCEPT ![w].at = k + 1, ![w].read[s] = library[s],
                             ![w].stale = work[w].stale \ {s}, ![w].stage = stage]
    BY DEF SeedRead
  <2> HIDE DEF k, s, stage
  <2> QED
    BY <2>1, <1>1 DEF Transaction
<1>5. x \in Transaction
  <2> HIDE DEF k, s, stage, read
  <2> QED BY <1>1, <1>3 DEF Transaction
<1>6. /\ x.at = k + 1 /\ x.read = read /\ x.stale = work[w].stale \ {s} /\ x.stage = stage
      /\ x.found = work[w].found /\ x.added = work[w].added
  <2> HIDE DEF k, s, stage, read
  <2> QED BY <1>1 DEF Transaction
<1>7. Stepped(w) /\ work'[w] = x
  <2> HIDE DEF x
  <2> QED BY <1>4, <1>5, MoveOf
<1>8. w \in Seeder /\ work[w].stage = "read"
      /\ UNCHANGED <<library, evidence, runs, holder, closed, edition, raced, begun>>
  BY DEF SeedRead
<1> HIDE DEF x
<1> QED
  BY <1>2, <1>6, <1>7, <1>8

(* Where a transaction may be and what it may hold on its way.             *)
Admissible(stage, at, found, added) ==
    /\ stage \in {"idle", "read", "lock", "store"} /\ at \in Nat \ {0}
    /\ found \in SUBSET Strategy /\ added \in [Strategy -> SUBSET SeedSource]

LEMMA StageEffect ==
    ASSUME work \in [Writer -> Transaction], NEW w \in Writer,
           NEW stage, NEW at, NEW found, NEW added, Admissible(stage, at, found, added),
           work' = [work EXCEPT ![w] = [work[w] EXCEPT !.stage = stage, !.at = at, !.found = found,
                                                      !.added = added]]
    PROVE  /\ Stepped(w)
           /\ work'[w].stage = stage /\ work'[w].at = at /\ work'[w].found = found
           /\ work'[w].added = added
           /\ work'[w].read = work[w].read /\ work'[w].stale = work[w].stale
<1> DEFINE x == [work[w] EXCEPT !.stage = stage, !.at = at, !.found = found, !.added = added]
<1>1. work[w] \in Transaction
  OBVIOUS
<1>2. x \in Transaction
  BY <1>1 DEF Admissible, Transaction
<1>3. /\ x.stage = stage /\ x.at = at /\ x.found = found /\ x.added = added
      /\ x.read = work[w].read /\ x.stale = work[w].stale
  BY <1>1 DEF Transaction
<1>4. work' = [work EXCEPT ![w] = x]
  OBVIOUS
<1>5. Stepped(w) /\ work'[w] = x
  <2> HIDE DEF x
  <2> QED BY <1>2, <1>4, MoveOf
<1> HIDE DEF x
<1> QED
  BY <1>3, <1>5

LEMMA SeedFlushedEffect ==
    ASSUME work \in [Writer -> Transaction], NEW w \in Writer, SeedFlushed(w)
    PROVE  /\ Stepped(w)
           /\ w \in Seeder /\ work[w].stage = "lock" /\ Due(w) = {}
           /\ work'[w].stage = "read" /\ work'[w].at = work[w].at /\ work'[w].found = work[w].found
           /\ work'[w].added = work[w].added
           /\ work'[w].read = work[w].read /\ work'[w].stale = work[w].stale
           /\ UNCHANGED <<library, evidence, runs, holder, closed, edition, raced, begun>>
<1>1. work' = [work EXCEPT ![w] = [work[w] EXCEPT !.stage = "read", !.at = work[w].at, !.found = work[w].found,
                                                 !.added = work[w].added]]
  <2>1. work' = [work EXCEPT ![w].stage = "read"]
    BY DEF SeedFlushed
  <2> QED BY <2>1 DEF Transaction
<1>2. Admissible("read", work[w].at, work[w].found, work[w].added)
  BY TransactionFacts DEF Admissible
<1>3. /\ Stepped(w)
      /\ work'[w].stage = "read" /\ work'[w].at = work[w].at /\ work'[w].found = work[w].found
      /\ work'[w].added = work[w].added
      /\ work'[w].read = work[w].read /\ work'[w].stale = work[w].stale
  BY <1>1, <1>2, StageEffect, Zenon
<1> QED
  BY <1>3 DEF SeedFlushed

LEMMA SeedEvidenceEffect ==
    ASSUME work \in [Writer -> Transaction], library \in [Strategy -> LibraryEntry],
           evidence \in [Strategy -> [SeedSource -> Nat]],
           Editions[edition] \subseteq SeedSource, NEW w \in Writer, SeedEvidence(w)
    PROVE  /\ Stepped(w)
           /\ w \in Seeder /\ work[w].stage = "read" /\ work[w].at > Len(FileOrder)
           /\ work'[w].stage = "store" /\ work'[w].at = work[w].at /\ work'[w].found = work[w].found
           /\ \A s \in Strategy : \A e \in work'[w].added[s] : evidence[s][e] = 0
           /\ \A s \in Strategy : work'[w].read[s] = IF s = LastOfFile THEN work[w].read[s] ELSE library[s]
           /\ work'[w].stale = work[w].stale \cap {LastOfFile}
           /\ UNCHANGED <<library, evidence, runs, holder, closed, edition, raced, begun>>
<1> DEFINE lacking == [s \in Strategy |-> {e \in Editions[edition] : evidence[s][e] = 0}]
           read    == [library EXCEPT ![LastOfFile] = work[w].read[LastOfFile]]
           stale   == work[w].stale \cap {LastOfFile}
           x == [work[w] EXCEPT !.stage = "store", !.read = read, !.stale = stale, !.added = lacking]
<1>1. work[w] \in Transaction /\ work[w].read \in [Strategy -> LibraryEntry] /\ work[w].stale \subseteq Strategy
  BY TransactionFacts DEF Transaction
<1>2. lacking \in [Strategy -> SUBSET SeedSource] /\ \A s \in Strategy : \A e \in lacking[s] : evidence[s][e] = 0
  OBVIOUS
<1>3. /\ \A s \in Strategy : read[s] = IF s = LastOfFile THEN work[w].read[s] ELSE library[s]
      /\ read \in [Strategy -> LibraryEntry]
  BY <1>1
<1>4. stale \in SUBSET Strategy
  BY <1>1
<1>5. work' = [work EXCEPT ![w] = x]
  <2>1. work' = [work EXCEPT ![w].stage = "store", ![w].read = read, ![w].stale = stale, ![w].added = lacking]
    BY DEF SeedEvidence
  <2> HIDE DEF lacking, read, stale
  <2> QED BY <2>1, <1>1 DEF Transaction
<1> HIDE DEF lacking, read, stale
<1>6. x \in Transaction
  BY <1>1, <1>2, <1>3, <1>4 DEF Transaction
<1>7. /\ x.stage = "store" /\ x.read = read /\ x.stale = stale /\ x.added = lacking
      /\ x.at = work[w].at /\ x.found = work[w].found
  BY <1>1 DEF Transaction
<1>8. Stepped(w) /\ work'[w] = x
  <2> HIDE DEF x
  <2> QED BY <1>5, <1>6, MoveOf
<1> HIDE DEF x
<1>9. /\ w \in Seeder /\ work[w].stage = "read" /\ work[w].at > Len(FileOrder)
      /\ UNCHANGED <<library, evidence, runs, holder, closed, edition, raced, begun>>
  BY DEF SeedEvidence
<1> QED
  BY <1>2, <1>3, <1>7, <1>8, <1>9 DEF stale

LEMMA TestSkipEffect ==
    ASSUME work \in [Writer -> Transaction], NEW w \in Writer, TestSkip(w)
    PROVE  /\ Stepped(w)
           /\ w \in Tester /\ work[w].stage = "read" /\ work[w].at <= Len(SlugOrder)
           /\ work'[w].stage = "read" /\ work'[w].at = work[w].at + 1 /\ work'[w].found = work[w].found
           /\ work'[w].added = work[w].added
           /\ work'[w].read = work[w].read /\ work'[w].stale = work[w].stale
           /\ UNCHANGED <<library, evidence, runs, holder, closed, edition, raced, begun>>
<1>1. work' = [work EXCEPT ![w] = [work[w] EXCEPT !.stage = "read", !.at = work[w].at + 1,
                                                 !.found = work[w].found, !.added = work[w].added]]
  <2>1. work' = [work EXCEPT ![w].at = work[w].at + 1] /\ work[w].stage = "read"
    BY DEF TestSkip, Measuring
  <2> QED BY <2>1 DEF Transaction
<1>2. Admissible("read", work[w].at + 1, work[w].found, work[w].added)
  BY TransactionFacts DEF Admissible
<1>4. /\ Stepped(w)
      /\ work'[w].stage = "read" /\ work'[w].at = work[w].at + 1 /\ work'[w].found = work[w].found
      /\ work'[w].added = work[w].added
      /\ work'[w].read = work[w].read /\ work'[w].stale = work[w].stale
  BY <1>1, <1>2, StageEffect, Zenon
<1> QED
  BY <1>4 DEF TestSkip, Measuring

LEMMA TestMeasureEffect ==
    ASSUME work \in [Writer -> Transaction], NEW w \in Writer, TestMeasure(w)
    PROVE  LET s == SlugOrder[work[w].at]
           IN  /\ Stepped(w)
               /\ w \in Tester /\ work[w].stage = "read" /\ work[w].at <= Len(SlugOrder)
               /\ work[w].read[s] # NoRow
               /\ runs' = [runs EXCEPT ![s] = Append(runs[s], [of |-> closed[s], by |-> w])]
               /\ IF closed[s].n = 0 THEN work'[w].stage = "read" /\ work'[w].at = work[w].at + 1
                                     ELSE work'[w].stage = "lock" /\ work'[w].at = work[w].at
               /\ work'[w].found = work[w].found
               /\ work'[w].added = work[w].added
               /\ work'[w].read = work[w].read /\ work'[w].stale = work[w].stale
               /\ UNCHANGED <<library, evidence, holder, closed, edition, raced, begun>>
<1> DEFINE s == SlugOrder[work[w].at]
<1>1. w \in Tester /\ work[w].stage = "read" /\ work[w].at <= Len(SlugOrder) /\ Goal(w) = s
  BY DEF TestMeasure, Measuring, Goal, Visit
<1>2. /\ work[w].read[s] # NoRow
      /\ runs' = [runs EXCEPT ![s] = Append(runs[s], [of |-> closed[s], by |-> w])]
      /\ UNCHANGED <<library, evidence, holder, closed, edition, raced, begun>>
  BY <1>1 DEF TestMeasure
<1>5. /\ Admissible("read", work[w].at + 1, work[w].found, work[w].added)
      /\ Admissible("lock", work[w].at, work[w].found, work[w].added)
  BY TransactionFacts DEF Admissible
<1>3. CASE closed[s].n = 0
  <2>1. work' = [work EXCEPT ![w] = [work[w] EXCEPT !.stage = "read", !.at = work[w].at + 1,
                                                   !.found = work[w].found, !.added = work[w].added]]
    <3>1. work' = [work EXCEPT ![w].at = work[w].at + 1]
      BY <1>1, <1>3 DEF TestMeasure
    <3> QED BY <1>1, <3>1 DEF Transaction
  <2>3. /\ Stepped(w)
        /\ work'[w].stage = "read" /\ work'[w].at = work[w].at + 1 /\ work'[w].found = work[w].found
        /\ work'[w].added = work[w].added
        /\ work'[w].read = work[w].read /\ work'[w].stale = work[w].stale
    <3> HIDE DEF s
    <3> QED BY <1>5, <2>1, StageEffect, Zenon
  <2> QED
    BY <1>1, <1>2, <1>3, <2>3
<1>4. CASE closed[s].n # 0
  <2>1. work' = [work EXCEPT ![w] = [work[w] EXCEPT !.stage = "lock", !.at = work[w].at,
                                                   !.found = work[w].found, !.added = work[w].added]]
    <3>1. work' = [work EXCEPT ![w].stage = "lock"]
      BY <1>1, <1>4 DEF TestMeasure
    <3> QED BY <1>1, <3>1 DEF Transaction
  <2>2. /\ Stepped(w)
        /\ work'[w].stage = "lock" /\ work'[w].at = work[w].at /\ work'[w].found = work[w].found
        /\ work'[w].added = work[w].added
        /\ work'[w].read = work[w].read /\ work'[w].stale = work[w].stale
    BY <1>5, <2>1, StageEffect, Zenon
  <2> QED
    BY <1>1, <1>2, <1>4, <2>2
<1> QED
  BY <1>3, <1>4

LEMMA TestLockEffect ==
    ASSUME work \in [Writer -> Transaction], holder \in [Strategy -> Writer \cup {"nobody"}],
           NEW w \in Writer, TestLock(w), SlugOrder[work[w].at] \in Strategy
    PROVE  LET s == SlugOrder[work[w].at]
           IN  /\ Stepped(w)
               /\ w \in Tester /\ work[w].stage = "lock" /\ holder[s] = "nobody"
               /\ holder' = [holder EXCEPT ![s] = w]
               /\ work'[w].stage = "read" /\ work'[w].at = work[w].at + 1
               /\ work'[w].found = work[w].found \cup {s}
               /\ work'[w].added = work[w].added
               /\ work'[w].read = work[w].read /\ work'[w].stale = work[w].stale
               /\ UNCHANGED <<library, evidence, runs, closed, edition, raced, begun>>
<1> DEFINE s == SlugOrder[work[w].at]
<1>1. /\ w \in Tester /\ work[w].stage = "lock" /\ Goal(w) = s /\ holder[s] = "nobody"
      /\ holder' = [holder EXCEPT ![s] = w]
      /\ UNCHANGED <<library, evidence, runs, closed, edition, raced, begun>>
  BY DEF TestLock, Lock, Goal, Visit
<1>2. work' = [work EXCEPT ![w] = [work[w] EXCEPT !.stage = "read", !.at = work[w].at + 1,
                                                 !.found = work[w].found \cup {s}, !.added = work[w].added]]
  <2>1. work' = [work EXCEPT ![w].stage = "read", ![w].at = work[w].at + 1, ![w].found = work[w].found \cup {s}]
    BY <1>1 DEF TestLock
  <2> HIDE DEF s
  <2> QED BY <2>1 DEF Transaction
<1>3. Admissible("read", work[w].at + 1, work[w].found \cup {s}, work[w].added)
  BY TransactionFacts DEF Admissible
<1>5. /\ Stepped(w)
      /\ work'[w].stage = "read" /\ work'[w].at = work[w].at + 1 /\ work'[w].found = work[w].found \cup {s}
      /\ work'[w].added = work[w].added
      /\ work'[w].read = work[w].read /\ work'[w].stale = work[w].stale
  <2> HIDE DEF s
  <2> QED BY <1>2, <1>3, StageEffect, Zenon
<1> QED
  BY <1>1, <1>5

(* The rows go back to nobody when a transaction ends.                     *)
Freed(w) == holder' = [s \in Strategy |-> IF holder[s] = w THEN "nobody" ELSE holder[s]]

LEMMA ReleaseEffect ==
    ASSUME work \in [Writer -> Transaction], NEW w \in Writer, Release(w)
    PROVE  /\ Freed(w)
           /\ work' \in [Writer -> Transaction]
           /\ work'[w] = AtRest
           /\ \A v \in Writer \ {w} :
                 /\ work'[v].stage = work[v].stage /\ work'[v].at = work[v].at
                 /\ work'[v].read = work[v].read /\ work'[v].found = work[v].found
                 /\ work'[v].added = work[v].added
                 /\ work[v].stage = "idle" => work'[v] = work[v]
                 /\ work[v].stage # "idle" => work'[v].stale = work[v].stale \cup Held(w)
<1>1. Freed(w)
  BY DEF Release, Freed
<1>2. Held(w) \subseteq Strategy
  BY DEF Held
<1>3. /\ DOMAIN work' = Writer
      /\ \A v \in Writer : work'[v] = IF v = w THEN AtRest
                                     ELSE IF work[v].stage = "idle" THEN work[v]
                                     ELSE [work[v] EXCEPT !.stale = work[v].stale \cup Held(w)]
  BY DEF Release
<1>4. ASSUME NEW v \in Writer
      PROVE  LET x == [work[v] EXCEPT !.stale = work[v].stale \cup Held(w)]
             IN  /\ x \in Transaction
                 /\ x.stage = work[v].stage /\ x.at = work[v].at /\ x.read = work[v].read
                 /\ x.found = work[v].found /\ x.added = work[v].added
                 /\ x.stale = work[v].stale \cup Held(w)
  <2>1. work[v] \in Transaction
    OBVIOUS
  <2> QED
    BY <1>2, <2>1 DEF Transaction
<1>5. work' \in [Writer -> Transaction]
  <2>1. \A v \in Writer : work'[v] \in Transaction
    BY <1>3, <1>4, AtRestType
  <2>2. work' = [v \in Writer |-> work'[v]]
    BY DEF Release
  <2> QED BY <2>1, <2>2
<1>6. work'[w] = AtRest
  BY <1>3
<1>7. ASSUME NEW v \in Writer \ {w}
      PROVE  /\ work'[v].stage = work[v].stage /\ work'[v].at = work[v].at
             /\ work'[v].read = work[v].read /\ work'[v].found = work[v].found
             /\ work'[v].added = work[v].added
             /\ work[v].stage = "idle" => work'[v] = work[v]
             /\ work[v].stage # "idle" => work'[v].stale = work[v].stale \cup Held(w)
  BY <1>3, <1>4
<1> QED
  BY <1>1, <1>5, <1>6, <1>7

LEMMA AbandonEffect ==
    ASSUME work \in [Writer -> Transaction], NEW w \in Writer, Abandon(w)
    PROVE  /\ Freed(w) /\ Stepped(w) /\ work'[w] = AtRest
           /\ runs' = Signed(w, "undone")
           /\ UNCHANGED <<library, evidence, closed, edition, raced, begun>>
<1>1. Stepped(w) /\ work'[w] = AtRest
  BY MoveOf, AtRestType DEF Abandon
<1> QED
  BY <1>1 DEF Abandon, Freed

Before(s, t) == \E i, j \in DOMAIN KeyOrder : KeyOrder[i] = s /\ KeyOrder[j] = t /\ i < j

(* The next row of a flush: the old ones by their keys, then the new.      *)
LEMMA FlushOrder ==
    ASSUME NEW w \in Seeder, Due(w) \subseteq Strategy, Due(w) # {}
    PROVE  LET g == Flushes(w)
           IN  /\ g \in Due(w)
               /\ work[w].read[g] # NoRow =>
                     \A t \in Due(w) : work[w].read[t] # NoRow /\ t # g => Before(g, t)
               /\ work[w].read[g] = NoRow => \A t \in Due(w) : work[w].read[t] = NoRow
<1> DEFINE old == {s \in Due(w) : work[w].read[s] # NoRow}
           places == {k \in DOMAIN KeyOrder : KeyOrder[k] \in old}
<1>1. CASE old = {}
  <2>1. Flushes(w) = CHOOSE s \in Due(w) : TRUE
    BY <1>1 DEF Flushes
  <2>2. Flushes(w) \in Due(w)
    BY <2>1
  <2> QED
    BY <1>1, <2>2
<1>2. CASE old # {}
  <2>1. Flushes(w) = KeyOrder[Min(places)]
    BY <1>2 DEF Flushes
  <2>2. /\ DOMAIN KeyOrder \subseteq Nat
        /\ \A s \in Strategy : \E k \in DOMAIN KeyOrder : KeyOrder[k] = s
    BY KeyFacts
  <2>3. places \in SUBSET Nat /\ places # {}
    BY <1>2, <2>2
  <2>4. Min(places) \in places /\ \A k \in places : Min(places) <= k
    <3>1. \E m \in places : \A n \in places : m <= n
      <4> HIDE DEF places
      <4> QED BY <2>3, LeastPlace
    <3> HIDE DEF places
    <3> QED BY <3>1 DEF Min
  <2>5. Flushes(w) \in old
    BY <2>1, <2>4
  <2>6. ASSUME NEW t \in old, t # Flushes(w)
        PROVE  Before(Flushes(w), t)
    <3>1. PICK k \in DOMAIN KeyOrder : KeyOrder[k] = t
      BY <2>2
    <3>2. k \in places
      BY <3>1, <2>6
    <3>3. Min(places) \in DOMAIN KeyOrder /\ Min(places) < k
      <4>1. Min(places) # k /\ Min(places) <= k /\ Min(places) \in Nat /\ k \in Nat
        BY <2>1, <2>2, <2>3, <2>4, <2>6, <3>1, <3>2
      <4> QED BY <4>1, <2>4
    <3> HIDE DEF places
    <3> QED
      BY <2>1, <3>1, <3>3 DEF Before
  <2> QED
    BY <2>5, <2>6
<1> QED
  BY <1>1, <1>2

-----------------------------------------------------------------------------
(* What holds of a seed run, as long as nobody but itself takes or frees   *)
(* its rows.                                                               *)
Missing(w, k) == work[w].read[FileOrder[k]] = NoRow
Flushed(w, k) == \A j \in 1..k : holder[FileOrder[j]] = w

(* A row written by an earlier flush, which ended with a missing one.      *)
Earlier(w, s) ==
    \E k \in 1..(work[w].at - 1) :
        Missing(w, k) /\ Flushed(w, k) /\ \E j \in 1..k : FileOrder[j] = s

SeedPlace(w) ==
    /\ work[w].at <= Len(FileOrder) + 1
    /\ work[w].stage = "idle" => work[w].at = 1
    /\ work[w].stage = "store" => work[w].at > Len(FileOrder)
    /\ work[w].stage = "lock" =>
          work[w].at > 1 /\ (work[w].at <= Len(FileOrder) => Missing(w, work[w].at - 1))

SeedLocks(w) ==
    /\ \A s \in Strategy : holder[s] = w => s \in Read(w)
    /\ \A k \in 1..(work[w].at - 1) :
          Missing(w, k) => Flushed(w, k) \/ (work[w].stage = "lock" /\ k = work[w].at - 1)
    /\ work[w].stage \in {"read", "store"} /\ work[w].at > Len(FileOrder) => Flushed(w, Len(FileOrder))

SeedOrder(w) ==
    /\ work[w].stage = "read" /\ work[w].at <= Len(FileOrder) =>
          \A s \in Strategy : holder[s] = w => Earlier(w, s)
    /\ \A s \in Strategy, t \in Due(w) : holder[s] = w =>
          Earlier(w, s) \/ (work[w].read[s] # NoRow /\ (work[w].read[t] # NoRow => Before(s, t)))

SeedOK(w) == SeedPlace(w) /\ SeedLocks(w) /\ SeedOrder(w)

Kept(v) ==
    /\ work'[v].stage = work[v].stage /\ work'[v].at = work[v].at /\ work'[v].read = work[v].read
    /\ work'[v].found = work[v].found /\ work'[v].added = work[v].added
    /\ \A s \in Strategy : holder'[s] = v <=> holder[s] = v

LEMMA ReadRows ==
    ASSUME work \in [Writer -> Transaction], NEW w \in Seeder, SeedPlace(w)
    PROVE  /\ work[w].at \in Nat \ {0}
           /\ \A k \in 1..(work[w].at - 1) : k \in 1..Len(FileOrder) /\ FileOrder[k] \in Read(w)
           /\ Read(w) \subseteq Strategy /\ Due(w) \subseteq Strategy
           /\ \A s \in Due(w) : s \in Read(w) /\ holder[s] # w
           /\ \A s \in Read(w) : holder[s] # w => s \in Due(w)
<1>1. w \in Writer
  BY DEF Writer
<1>2. work[w].at \in Nat \ {0} /\ work[w].at <= Len(FileOrder) + 1
  BY <1>1, TransactionFacts DEF SeedPlace
<1>3. \A k \in 1..(work[w].at - 1) : k \in 1..Len(FileOrder) /\ FileOrder[k] \in Read(w)
  BY <1>2, FileFacts DEF Read
<1>4. Read(w) \subseteq Strategy
  BY <1>2, <1>3, FileFacts DEF Read
<1> QED
  BY <1>2, <1>3, <1>4 DEF Due, Held

LEMMA SeedKept ==
    ASSUME work \in [Writer -> Transaction], NEW v \in Seeder, SeedOK(v), Kept(v)
    PROVE  SeedOK(v)'
<1>1. /\ Read(v)' = Read(v)
      /\ \A k : Missing(v, k)' <=> Missing(v, k)
  BY DEF Kept, Read, Missing
<1>2. \A k \in 0..Len(FileOrder) : Flushed(v, k)' <=> Flushed(v, k)
  BY FileFacts DEF Kept, Flushed
<1>3. /\ SeedPlace(v) /\ SeedLocks(v) /\ SeedOrder(v)
      /\ work[v].at \in Nat \ {0} /\ work[v].at <= Len(FileOrder) + 1 /\ Len(FileOrder) \in Nat
  BY ReadRows, FileFacts DEF SeedOK, SeedPlace
<1>4. Due(v)' = Due(v)
  BY <1>1, <1>3, ReadRows DEF Due, Held, Kept
<1>5. \A s : Earlier(v, s)' <=> Earlier(v, s)
  BY <1>1, <1>2, <1>3 DEF Earlier, Kept
<1>6. SeedPlace(v)'
  BY <1>1, <1>3 DEF SeedPlace, Kept
<1>7. SeedLocks(v)'
  <2>1. \A s \in Strategy : holder'[s] = v => s \in Read(v)'
    BY <1>1, <1>3 DEF SeedLocks, Kept
  <2>2. \A k \in 1..(work[v].at - 1) :
           Missing(v, k)' => Flushed(v, k)' \/ (work[v].stage = "lock" /\ k = work[v].at - 1)
    BY <1>1, <1>2, <1>3 DEF SeedLocks
  <2>3. work[v].stage \in {"read", "store"} /\ work[v].at > Len(FileOrder) => Flushed(v, Len(FileOrder))'
    BY <1>2, <1>3 DEF SeedLocks
  <2> QED
    BY <2>1, <2>2, <2>3 DEF SeedLocks, Kept
<1>8. SeedOrder(v)'
  <2>1. work[v].stage = "read" /\ work[v].at <= Len(FileOrder) =>
          \A s \in Strategy : holder'[s] = v => Earlier(v, s)'
    BY <1>3, <1>5 DEF SeedOrder, Kept
  <2>2. \A s \in Strategy, t \in Due(v) : holder'[s] = v =>
          Earlier(v, s)' \/ (work[v].read[s] # NoRow /\ (work[v].read[t] # NoRow => Before(s, t)))
    BY <1>3, <1>5 DEF SeedOrder, Kept
  <2> QED
    BY <1>4, <2>1, <2>2 DEF SeedOrder, Kept, Before
<1> QED
  BY <1>6, <1>7, <1>8 DEF SeedOK

(* What a seed run that ends, or begins, leaves to itself.                 *)
LEMMA SeedAtRest ==
    ASSUME NEW w \in Seeder, work'[w].at = 1, work'[w].stage \in {"idle", "read"},
           \A s \in Strategy : holder'[s] # w
    PROVE  SeedOK(w)'
<1>1. Read(w)' = {}
  BY DEF Read
<1>2. Due(w)' = {}
  BY <1>1 DEF Due
<1>3. SeedPlace(w)'
  BY FileFacts DEF SeedPlace
<1>4. SeedLocks(w)'
  BY FileFacts DEF SeedLocks, Flushed
<1>5. SeedOrder(w)'
  BY <1>2 DEF SeedOrder
<1> QED
  BY <1>3, <1>4, <1>5 DEF SeedOK

LEMMA SeedReadOK ==
    ASSUME work \in [Writer -> Transaction], library \in [Strategy -> LibraryEntry],
           NEW w \in Seeder, SeedOK(w), SeedRead(w)
    PROVE  SeedOK(w)'
<1>0. w \in Writer
  BY DEF Writer
<1> PICK n : n = work[w].at
  OBVIOUS
<1> DEFINE f == FileOrder[n]
<1>1. /\ work[w].stage = "read" /\ n \in 1..Len(FileOrder) /\ f \in Strategy
      /\ work'[w].at = n + 1 /\ holder' = holder
      /\ work'[w].read = [work[w].read EXCEPT ![f] = library[f]]
      /\ work'[w].stage = IF library[f] = NoRow \/ n = Len(FileOrder) THEN "lock" ELSE "read"
  BY <1>0, SeedReadEffect
<1>2. n \in Nat \ {0} /\ Len(FileOrder) \in Nat /\ work[w].read \in [Strategy -> LibraryEntry]
  BY <1>0, FileFacts, TransactionFacts
<1>3. ASSUME NEW k \in 1..n
      PROVE  /\ k = n => (Missing(w, k)' <=> library[f] = NoRow)
             /\ k # n => (Missing(w, k)' <=> Missing(w, k))
  <2>1. k \in 1..Len(FileOrder)
    BY <1>1, <1>2
  <2>2. FileOrder[k] \in Strategy /\ (FileOrder[k] = FileOrder[n] => k = n)
    BY <1>1, <2>1, FileFacts
  <2>3. /\ k = n => work'[w].read[FileOrder[k]] = library[f]
        /\ k # n => work'[w].read[FileOrder[k]] = work[w].read[FileOrder[k]]
    BY <1>1, <1>2, <2>2
  <2> QED BY <2>3 DEF Missing
<1>4. \A k : Flushed(w, k)' <=> Flushed(w, k)
  BY <1>1 DEF Flushed
<1>5. Read(w)' = Read(w) \cup {f}
  <2>0. work'[w].at - 1 = n
    BY <1>1, <1>2
  <2>1. Read(w)' = {FileOrder[k] : k \in 1..n}
    BY <2>0 DEF Read
  <2>2. 1..n = (1..(n - 1)) \cup {n}
    BY <1>2
  <2> QED
    BY <2>1, <2>2 DEF Read
<1>6. /\ SeedLocks(w) /\ SeedOrder(w)
  BY DEF SeedOK
<1>7. \A s \in Strategy : holder[s] = w => Earlier(w, s)
  BY <1>1, <1>6 DEF SeedOrder
<1>8. \A s \in Strategy : holder'[s] = w => Earlier(w, s)'
  <2> SUFFICES ASSUME NEW s \in Strategy, holder[s] = w
               PROVE  Earlier(w, s)'
    BY <1>1
  <2>1. PICK k \in 1..(n - 1) : Missing(w, k) /\ Flushed(w, k) /\ \E j \in 1..k : FileOrder[j] = s
    BY <1>7 DEF Earlier
  <2>2. k \in 1..n /\ k # n
    BY <1>2, <2>1
  <2>3. Missing(w, k)' /\ Flushed(w, k)'
    BY <1>3, <1>4, <2>1, <2>2
  <2>4. k \in 1..(work'[w].at - 1)
    BY <1>1, <1>2, <2>2
  <2> QED
    BY <2>1, <2>3, <2>4 DEF Earlier
<1>9. SeedPlace(w)'
  <2>1. work'[w].at <= Len(FileOrder) + 1 /\ work'[w].at > 1 /\ work'[w].at - 1 = n
    BY <1>1, <1>2
  <2>2. n < Len(FileOrder) /\ work'[w].stage = "lock" => Missing(w, n)'
    BY <1>1, <1>2, <1>3
  <2> QED
    BY <1>1, <1>2, <2>1, <2>2 DEF SeedPlace
<1>10. SeedLocks(w)'
  <2>1. \A s \in Strategy : holder'[s] = w => s \in Read(w)'
    BY <1>1, <1>5, <1>6 DEF SeedLocks
  <2>2. \A k \in 1..(work'[w].at - 1) :
           Missing(w, k)' => Flushed(w, k)' \/ (work'[w].stage = "lock" /\ k = work'[w].at - 1)
    <3> SUFFICES ASSUME NEW k \in 1..n, Missing(w, k)'
                 PROVE  Flushed(w, k) \/ (work'[w].stage = "lock" /\ k = n)
      BY <1>1, <1>2, <1>4
    <3>1. CASE k = n
      BY <1>1, <1>3, <3>1
    <3>2. CASE k # n
      <4>1. k \in 1..(n - 1) /\ Missing(w, k)
        BY <1>2, <1>3, <3>2
      <4> QED
        BY <1>1, <1>6, <4>1 DEF SeedLocks
    <3> QED
      BY <3>1, <3>2
  <2>3. ~(work'[w].stage \in {"read", "store"} /\ work'[w].at > Len(FileOrder))
    BY <1>1, <1>2
  <2> QED
    BY <2>1, <2>2, <2>3 DEF SeedLocks
<1>11. SeedOrder(w)'
  BY <1>8 DEF SeedOrder
<1> QED
  BY <1>9, <1>10, <1>11 DEF SeedOK

LEMMA SeedFlushedOK ==
    ASSUME work \in [Writer -> Transaction], NEW w \in Seeder, SeedOK(w), SeedFlushed(w)
    PROVE  SeedOK(w)'
<1>0. w \in Writer
  BY DEF Writer
<1> PICK n : n = work[w].at
  OBVIOUS
<1>1. /\ work[w].stage = "lock" /\ Due(w) = {}
      /\ work'[w].stage = "read" /\ work'[w].at = n /\ work'[w].read = work[w].read /\ holder' = holder
  BY <1>0, SeedFlushedEffect
<1>2. SeedPlace(w) /\ SeedLocks(w)
  BY DEF SeedOK
<1>3. /\ n \in Nat \ {0} /\ n > 1 /\ n <= Len(FileOrder) + 1 /\ Len(FileOrder) \in Nat
      /\ n <= Len(FileOrder) => Missing(w, n - 1)
  BY <1>0, <1>1, <1>2, FileFacts, TransactionFacts DEF SeedPlace
<1>4. \A k \in 1..(n - 1) : holder[FileOrder[k]] = w
  BY <1>1, <1>2, ReadRows
<1>5. /\ \A k : (Missing(w, k)' <=> Missing(w, k)) /\ (Flushed(w, k)' <=> Flushed(w, k))
      /\ Read(w)' = Read(w)
  BY <1>1 DEF Missing, Flushed, Read
<1>6. \A k \in 1..(n - 1) : Flushed(w, k)
  BY <1>3, <1>4 DEF Flushed
<1>7. SeedPlace(w)'
  BY <1>1, <1>3 DEF SeedPlace
<1>8. SeedLocks(w)'
  <2>1. n > Len(FileOrder) => Flushed(w, Len(FileOrder))
    BY <1>3, <1>4 DEF Flushed
  <2>2. \A s \in Strategy : holder'[s] = w => s \in Read(w)'
    BY <1>1, <1>2, <1>5 DEF SeedLocks
  <2> QED
    BY <1>1, <1>5, <1>6, <2>1, <2>2 DEF SeedLocks
<1>9. SeedOrder(w)'
  <2>1. n <= Len(FileOrder) => \A s \in Strategy : holder[s] = w => Earlier(w, s)'
    <3> SUFFICES ASSUME n <= Len(FileOrder), NEW s \in Strategy, holder[s] = w
                 PROVE  Earlier(w, s)'
      OBVIOUS
    <3>1. PICK j \in 1..(n - 1) : FileOrder[j] = s
      <4>1. s \in Read(w)
        BY <1>2 DEF SeedLocks
      <4> QED BY <4>1 DEF Read
    <3>2. n - 1 \in 1..(n - 1) /\ j \in 1..(n - 1)
      BY <1>3, <3>1
    <3>3. Missing(w, n - 1)' /\ Flushed(w, n - 1)'
      BY <1>3, <1>5, <1>6, <3>2
    <3> QED
      BY <1>1, <3>1, <3>2, <3>3 DEF Earlier
  <2>2. Due(w)' = {}
    BY <1>1, <1>5 DEF Due, Held
  <2> QED
    BY <1>1, <2>1, <2>2 DEF SeedOrder
<1> QED
  BY <1>7, <1>8, <1>9 DEF SeedOK

LEMMA SeedLockOK ==
    ASSUME work \in [Writer -> Transaction], holder \in [Strategy -> Writer \cup {"nobody"}],
           NEW w \in Seeder, SeedOK(w), SeedLock(w)
    PROVE  SeedOK(w)'
<1>0. w \in Writer /\ SeedPlace(w) /\ SeedLocks(w) /\ SeedOrder(w)
  BY DEF Writer, SeedOK
<1> PICK n : n = work[w].at
  OBVIOUS
<1> PICK g : g = Flushes(w)
  OBVIOUS
<1>1. /\ work[w].stage = "lock" /\ Due(w) # {} /\ holder[g] = "nobody" /\ work' = work
      /\ holder' = [holder EXCEPT ![g] = w]
  <2>1. Goal(w) = g
    BY WriterFacts, <1>0 DEF Goal
  <2> QED BY <2>1 DEF SeedLock, Lock
<1>2. /\ n \in Nat \ {0} /\ \A k \in 1..(n - 1) : k \in 1..Len(FileOrder)
      /\ Read(w) \subseteq Strategy /\ Due(w) \subseteq Strategy
      /\ \A s \in Due(w) : s \in Read(w) /\ holder[s] # w
  BY <1>0, ReadRows
<1>3. /\ g \in Due(w)
      /\ work[w].read[g] # NoRow => \A t \in Due(w) : work[w].read[t] # NoRow /\ t # g => Before(g, t)
      /\ work[w].read[g] = NoRow => \A t \in Due(w) : work[w].read[t] = NoRow
  BY <1>1, <1>2, FlushOrder
<1>4. /\ Read(w)' = Read(w)
      /\ \A k : Missing(w, k)' <=> Missing(w, k)
  BY <1>1 DEF Read, Missing
<1>5. \A s \in Strategy : holder'[s] = w <=> holder[s] = w \/ s = g
  BY <1>1, <1>2, <1>3
<1>6. \A k \in 1..(n - 1) : Flushed(w, k) => Flushed(w, k)'
  <2> SUFFICES ASSUME NEW k \in 1..(n - 1), Flushed(w, k), NEW j \in 1..k
               PROVE  holder'[FileOrder[j]] = w
    BY DEF Flushed
  <2>1. j \in 1..(n - 1)
    BY <1>2
  <2>2. FileOrder[j] \in Strategy
    BY <1>2, <2>1, FileFacts
  <2> QED BY <1>5, <2>2 DEF Flushed
<1>7. \A s : Earlier(w, s) => Earlier(w, s)'
  BY <1>1, <1>4, <1>6 DEF Earlier
<1>8. \A t \in Due(w)' : t \in Due(w) /\ t # g
  <2>1. g \in Held(w)' /\ Held(w) \subseteq Held(w)'
    BY <1>2, <1>3, <1>5 DEF Held
  <2> QED BY <1>4, <2>1 DEF Due
<1>9. SeedPlace(w)'
  BY <1>0, <1>1, <1>4 DEF SeedPlace
<1>10. SeedLocks(w)'
  <2>1. \A s \in Strategy : holder'[s] = w => s \in Read(w)
    BY <1>0, <1>2, <1>3, <1>5 DEF SeedLocks
  <2>2. \A k \in 1..(n - 1) : Missing(w, k) => Flushed(w, k)' \/ k = n - 1
    BY <1>0, <1>6 DEF SeedLocks
  <2> QED
    BY <1>1, <1>4, <2>1, <2>2 DEF SeedLocks
<1>11. SeedOrder(w)'
  <2>1. ASSUME NEW s \in Strategy, NEW t \in Due(w)', holder'[s] = w
        PROVE  Earlier(w, s)' \/ (work[w].read[s] # NoRow /\ (work[w].read[t] # NoRow => Before(s, t)))
    <3>1. CASE holder[s] = w
      BY <1>0, <1>7, <1>8, <3>1 DEF SeedOrder
    <3>2. CASE s = g /\ work[w].read[g] # NoRow
      BY <1>3, <1>8, <3>2
    <3>3. CASE s = g /\ work[w].read[g] = NoRow
      <4>1. t \in Due(w) /\ t # g /\ work[w].read[t] = NoRow
        BY <1>3, <1>8, <3>3
      <4>2. ASSUME NEW u \in Due(w), work[w].read[u] = NoRow
            PROVE  u = FileOrder[n - 1]
        <5>1. u \in Read(w) /\ holder[u] # w
          BY <1>2
        <5>2. PICK k \in 1..(n - 1) : FileOrder[k] = u
          BY <5>1 DEF Read
        <5>3. Missing(w, k)
          BY <4>2, <5>2 DEF Missing
        <5>4. k \in 1..k
          BY <5>2
        <5>5. ~Flushed(w, k)
          BY <5>1, <5>2, <5>4 DEF Flushed
        <5>6. k = n - 1
          BY <1>0, <5>3, <5>5 DEF SeedLocks
        <5> QED BY <5>2, <5>6
      <4> QED
        BY <1>3, <3>3, <4>1, <4>2
    <3> QED
      BY <2>1, <3>1, <3>2, <3>3, <1>5
  <2> QED
    BY <1>1, <2>1 DEF SeedOrder, Before
<1> QED
  BY <1>9, <1>10, <1>11 DEF SeedOK

LEMMA SeedEvidenceOK ==
    ASSUME NEW w \in Seeder, SeedOK(w), work \in [Writer -> Transaction],
           work[w].at > Len(FileOrder), work[w].stage = "read",
           work'[w].stage = "store", work'[w].at = work[w].at, holder' = holder
    PROVE  SeedOK(w)'
<1>1. SeedPlace(w) /\ SeedLocks(w) /\ work[w].at = Len(FileOrder) + 1 /\ Len(FileOrder) \in Nat
  BY ReadRows, FileFacts DEF SeedOK, SeedPlace
<1>2. \A k \in 1..Len(FileOrder) : holder[FileOrder[k]] = w
  BY <1>1 DEF SeedLocks, Flushed
<1>3. Read(w)' = Read(w) /\ \A k : Flushed(w, k)' <=> Flushed(w, k)
  BY DEF Read, Flushed
<1>4. Due(w)' = {}
  <2>1. \A s \in Read(w) : holder[s] = w
    BY <1>1, <1>2 DEF Read
  <2>2. \A s \in Due(w) : s \in Read(w) /\ holder[s] # w
    BY <1>1, ReadRows
  <2> QED BY <1>3, <2>1, <2>2 DEF Due, Held
<1>5. SeedPlace(w)'
  BY <1>1 DEF SeedPlace
<1>6. SeedLocks(w)'
  <2>1. \A k \in 1..(work[w].at - 1) : Flushed(w, k)'
    BY <1>1, <1>2 DEF Flushed
  <2> QED BY <1>1, <1>3, <2>1 DEF SeedLocks
<1>7. SeedOrder(w)'
  BY <1>4 DEF SeedOrder
<1> QED
  BY <1>5, <1>6, <1>7 DEF SeedOK

(* What holds of a backtest.                                               *)
TestOK(w) ==
    /\ work[w].stage # "store"
    /\ work[w].stage = "idle" => work[w].found = {}
    /\ \A s \in Strategy : holder[s] = w <=> s \in work[w].found
    /\ \A s \in work[w].found :
          /\ work[w].read[s] # NoRow
          /\ \E k \in 1..(work[w].at - 1) : k <= Len(SlugOrder) /\ SlugOrder[k] = s
    /\ work[w].stage = "lock" =>
          work[w].at <= Len(SlugOrder) /\ work[w].read[SlugOrder[work[w].at]] # NoRow

(* A row is found missing until it is there, and stays so for its inserter.*)
SeedRows(w) ==
    \A s \in Strategy :
        /\ s \in Read(w) /\ library[s] = NoRow => work[w].read[s] = NoRow
        /\ holder[s] = w /\ work[w].read[s] = NoRow => library[s] = NoRow

(* What a seed run is to add is not there yet.                             *)
SeedCounts(w) ==
    work[w].stage = "store" =>
        \A s \in Strategy : \A e \in work[w].added[s] : evidence[s][e] = 0

RowsStay == \A w \in Writer, s \in Strategy : work[w].read[s] # NoRow => library[s] # NoRow

LibraryInv ==
    /\ RegistryTypeOK
    /\ RowsStay
    /\ \A w \in Seeder : SeedOK(w) /\ SeedRows(w) /\ SeedCounts(w)
    /\ \A w \in Tester : TestOK(w)
    /\ EvidenceCountedOnce

LEMMA RegistryTypes ==
    RegistryTypeOK <=>
        /\ library \in [Strategy -> LibraryEntry]
        /\ evidence \in [Strategy -> [SeedSource -> Nat]]
        /\ runs \in [Strategy -> Seq(BacktestRun)]
        /\ holder \in [Strategy -> Writer \cup {"nobody"}]
        /\ work \in [Writer -> Transaction]
        /\ closed \in [Strategy -> Samples]
        /\ edition \in DOMAIN Editions
        /\ raced \subseteq Strategy
        /\ begun \in 0..MaxWork
BY Zenon DEF RegistryTypeOK, Transaction, LibraryEntry, BacktestRun

(* The steps of w leave the transactions and the rows of the others alone. *)
Frame(w) == \A v \in Writer \ {w} : Kept(v)

LEMMA FrameMoved ==
    ASSUME NEW w \in Writer, Stepped(w),
           \A s \in Strategy : \A v \in Writer \ {w} : holder'[s] = v <=> holder[s] = v
    PROVE  Frame(w)
BY DEF Stepped, Frame, Kept

LEMMA FreedRows ==
    ASSUME NEW w \in Writer, Freed(w)
    PROVE  /\ \A s \in Strategy : holder'[s] # w
           /\ \A s \in Strategy : \A v \in Writer \ {w} : holder'[s] = v <=> holder[s] = v
           /\ holder \in [Strategy -> Writer \cup {"nobody"}] =>
                 holder' \in [Strategy -> Writer \cup {"nobody"}]
BY WriterFacts DEF Freed

LEMMA OthersStep ==
    ASSUME LibraryInv, NEW w \in Writer, Frame(w),
           \A s \in Strategy : library[s] # NoRow => library'[s] # NoRow,
           \A s \in Strategy : library'[s] = library[s] \/ holder[s] = w,
           evidence' = evidence \/ \A s \in Strategy : holder[s] = w
    PROVE  /\ \A v \in Seeder \ {w} : SeedOK(v)' /\ SeedRows(v)' /\ SeedCounts(v)'
           /\ \A v \in Tester \ {w} : TestOK(v)'
<1>1. work \in [Writer -> Transaction]
  BY RegistryTypes DEF LibraryInv
<1>2. ASSUME NEW v \in Seeder \ {w}
      PROVE  SeedOK(v)' /\ SeedRows(v)' /\ SeedCounts(v)'
  <2>1. v \in Writer /\ Kept(v) /\ SeedOK(v) /\ SeedRows(v) /\ SeedCounts(v)
    BY DEF Writer, Frame, LibraryInv
  <2>2. SeedOK(v)'
    BY <1>1, <2>1, SeedKept
  <2>3. Read(v)' = Read(v)
    BY <2>1 DEF Kept, Read
  <2>4. SeedRows(v)'
    <3> SUFFICES ASSUME NEW s \in Strategy
                 PROVE  /\ s \in Read(v) /\ library'[s] = NoRow => work[v].read[s] = NoRow
                        /\ holder[s] = v /\ work[v].read[s] = NoRow => library'[s] = NoRow
      BY <2>1, <2>3 DEF SeedRows, Kept
    <3>1. s \in Read(v) /\ library'[s] = NoRow => work[v].read[s] = NoRow
      BY <2>1 DEF SeedRows
    <3>2. holder[s] = v /\ work[v].read[s] = NoRow => library'[s] = NoRow
      BY <2>1 DEF SeedRows
    <3> QED BY <3>1, <3>2
  <2>5. SeedCounts(v)'
    <3>1. CASE work[v].stage # "store"
      BY <2>1, <3>1 DEF SeedCounts, Kept
    <3>2. CASE work[v].stage = "store" /\ evidence' = evidence
      BY <2>1, <3>2 DEF SeedCounts, Kept
    <3>3. CASE work[v].stage = "store" /\ \A s \in Strategy : holder[s] = w
      <4>1. \A k \in 1..Len(FileOrder) : holder[FileOrder[k]] = v
        BY <2>1, <3>3 DEF SeedOK, SeedPlace, SeedLocks, Flushed
      <4>2. \A s \in Strategy : holder[s] = v
        BY <4>1, FileFacts
      <4>3. \A s \in Strategy : FALSE
        BY <3>3, <4>2
      <4> QED
        BY <4>3 DEF SeedCounts
    <3> QED
      BY <3>1, <3>2, <3>3
  <2> QED
    BY <2>2, <2>4, <2>5
<1>3. ASSUME NEW v \in Tester \ {w}
      PROVE  TestOK(v)'
  <2>1. v \in Writer /\ Kept(v) /\ TestOK(v)
    BY DEF Writer, Frame, LibraryInv
  <2> QED
    BY <2>1 DEF TestOK, Kept
<1> QED
  BY <1>2, <1>3

LEMMA SignedFacts ==
    ASSUME runs \in [Strategy -> Seq(BacktestRun)], NEW w \in Writer, NEW to \in {"nobody", "undone"}
    PROVE  /\ Signed(w, to) \in [Strategy -> Seq(BacktestRun)]
           /\ \A s \in Strategy :
                 /\ DOMAIN Signed(w, to)[s] = DOMAIN runs[s]
                 /\ \A k \in DOMAIN runs[s] :
                       /\ Signed(w, to)[s][k].of = runs[s][k].of
                       /\ Signed(w, to)[s][k].by = IF runs[s][k].by = w THEN to ELSE runs[s][k].by
<1> DEFINE one(s, k) == IF runs[s][k].by = w THEN [runs[s][k] EXCEPT !.by = to] ELSE runs[s][k]
           all(s) == [k \in DOMAIN runs[s] |-> one(s, k)]
<1>1. ASSUME NEW s \in Strategy, NEW k \in DOMAIN runs[s]
      PROVE  /\ one(s, k) \in BacktestRun /\ one(s, k).of = runs[s][k].of
             /\ one(s, k).by = IF runs[s][k].by = w THEN to ELSE runs[s][k].by
  <2>1. runs[s][k] \in BacktestRun
    <3>1. runs[s] \in Seq(BacktestRun)
      OBVIOUS
    <3> QED BY <3>1, LenProperties, ElementOfSeq
  <2> QED
    BY <2>1 DEF BacktestRun
<1>2. ASSUME NEW s \in Strategy
      PROVE  all(s) \in Seq(BacktestRun)
  <2>1. runs[s] \in Seq(BacktestRun)
    OBVIOUS
  <2>2. Len(runs[s]) \in Nat /\ DOMAIN runs[s] = 1..Len(runs[s])
    BY <2>1, LenProperties
  <2>3. all(s) \in [1..Len(runs[s]) -> BacktestRun]
    <3> HIDE DEF one
    <3> QED BY <1>1, <2>2
  <2> HIDE DEF all
  <2> QED BY <2>2, <2>3, SeqDef
<1>3. Signed(w, to) = [s \in Strategy |-> all(s)]
  BY DEF Signed
<1>4. \A s \in Strategy : Signed(w, to)[s] = all(s)
  BY <1>3
<1>5. Signed(w, to) \in [Strategy -> Seq(BacktestRun)]
  <2> HIDE DEF all
  <2> QED BY <1>2, <1>3
<1>6. \A s \in Strategy : DOMAIN all(s) = DOMAIN runs[s] /\ \A k \in DOMAIN runs[s] : all(s)[k] = one(s, k)
  BY DEF all
<1> HIDE DEF one, all
<1> QED
  BY <1>1, <1>4, <1>5, <1>6

LEMMA OwnStep ==
    ASSUME LibraryInv, NEW w \in Writer, Frame(w), RegistryTypeOK',
           \A s \in Strategy : library[s] # NoRow => library'[s] # NoRow,
           \A s \in Strategy : library'[s] = library[s] \/ holder[s] = w,
           evidence' = evidence \/ \A s \in Strategy : holder[s] = w,
           \A s \in Strategy : work'[w].read[s] # NoRow => library'[s] # NoRow,
           w \in Seeder => SeedOK(w)' /\ SeedRows(w)' /\ SeedCounts(w)',
           w \in Tester => TestOK(w)',
           EvidenceCountedOnce'
    PROVE  LibraryInv'
<1>1. /\ \A v \in Seeder \ {w} : SeedOK(v)' /\ SeedRows(v)' /\ SeedCounts(v)'
      /\ \A v \in Tester \ {w} : TestOK(v)'
  BY OthersStep
<1>2. RowsStay'
  BY DEF RowsStay, LibraryInv, Frame, Kept
<1> QED
  BY <1>1, <1>2 DEF LibraryInv

LEMMA QuietStep ==
    ASSUME LibraryInv, NEW w \in Writer, Stepped(w),
           UNCHANGED <<library, evidence, holder, closed, edition, raced>>,
           runs' \in [Strategy -> Seq(BacktestRun)], begun' \in 0..MaxWork,
           \A s \in Strategy : work'[w].read[s] # NoRow => library[s] # NoRow,
           w \in Seeder => SeedOK(w)' /\ SeedRows(w)' /\ SeedCounts(w)',
           w \in Tester => TestOK(w)'
    PROVE  LibraryInv'
<1>1. RegistryTypeOK'
  BY RegistryTypes DEF LibraryInv, RegistryTypeOK, Stepped, Transaction, LibraryEntry, BacktestRun
<1>2. Frame(w)
  BY FrameMoved
<1>3. EvidenceCountedOnce'
  BY DEF LibraryInv, EvidenceCountedOnce
<1> QED
  BY <1>1, <1>2, <1>3, OwnStep

LEMMA InvFacts ==
    ASSUME LibraryInv
    PROVE  /\ library \in [Strategy -> LibraryEntry]
           /\ evidence \in [Strategy -> [SeedSource -> Nat]]
           /\ runs \in [Strategy -> Seq(BacktestRun)]
           /\ holder \in [Strategy -> Writer \cup {"nobody"}]
           /\ work \in [Writer -> Transaction]
           /\ closed \in [Strategy -> Samples]
           /\ begun \in 0..MaxWork
           /\ Editions[edition] \subseteq SeedSource
           /\ \A w \in Seeder : SeedOK(w) /\ SeedPlace(w) /\ SeedLocks(w) /\ SeedOrder(w) /\ SeedRows(w) /\ SeedCounts(w)
           /\ \A w \in Tester : TestOK(w)
           /\ \A w \in Writer, s \in Strategy : work[w].read[s] # NoRow => library[s] # NoRow
<1>1. edition \in DOMAIN Editions
  BY RegistryTypes DEF LibraryInv
<1>2. Editions \in Seq(SUBSET SeedSource)
  BY RegistryAssumption
<1>3. Editions[edition] \subseteq SeedSource
  BY <1>1, <1>2, LenProperties, ElementOfSeq
<1> QED
  BY <1>3, RegistryTypes DEF LibraryInv, SeedOK, RowsStay

LEMMA SeedBeginInv == ASSUME LibraryInv, NEW w \in Writer, SeedBegin(w) PROVE LibraryInv'
<1>1. w \in Seeder /\ AtRest.read = Unread /\ Unread \in [Strategy -> LibraryEntry]
      /\ \A s \in Strategy : Unread[s] = NoRow
  BY RestIs DEF SeedBegin
<1>2. Begin(w, Unread)
  BY <1>1 DEF SeedBegin
<1>3. /\ Stepped(w) /\ work[w].stage = "idle"
      /\ work'[w].stage = "read" /\ work'[w].at = 1 /\ work'[w].read = Unread
      /\ UNCHANGED <<library, evidence, runs, holder, closed, edition, raced>>
  BY <1>1, <1>2, InvFacts, BeginEffect
<1>4. \A s \in Strategy : holder[s] # w
  BY <1>1, <1>3, InvFacts DEF SeedPlace, SeedLocks, Read
<1>5. SeedOK(w)'
  BY <1>1, <1>3, <1>4, SeedAtRest
<1>6. SeedRows(w)' /\ SeedCounts(w)'
  BY <1>1, <1>3, <1>4 DEF SeedRows, SeedCounts
<1>7. begun' \in 0..MaxWork
  BY <1>2, InvFacts, RegistryAssumption DEF Begin
<1> QED
  BY <1>1, <1>3, <1>5, <1>6, <1>7, WriterFacts, InvFacts, QuietStep

LEMMA TestBeginInv == ASSUME LibraryInv, NEW w \in Writer, TestBegin(w) PROVE LibraryInv'
<1>1. w \in Tester /\ Begin(w, library) /\ library \in [Strategy -> LibraryEntry]
  BY InvFacts DEF TestBegin
<1>2. /\ Stepped(w) /\ work[w].stage = "idle"
      /\ work'[w].stage = "read" /\ work'[w].at = 1 /\ work'[w].read = library /\ work'[w].found = {}
      /\ UNCHANGED <<library, evidence, runs, holder, closed, edition, raced>>
  BY <1>1, InvFacts, BeginEffect
<1>3. \A s \in Strategy : holder[s] # w
  BY <1>1, <1>2, InvFacts DEF TestOK
<1>4. TestOK(w)'
  BY <1>2, <1>3 DEF TestOK
<1>5. begun' \in 0..MaxWork
  BY <1>1, InvFacts, RegistryAssumption DEF Begin
<1> QED
  BY <1>1, <1>2, <1>4, <1>5, WriterFacts, InvFacts, QuietStep

LEMMA SeedReadInv == ASSUME LibraryInv, NEW w \in Writer, SeedRead(w) PROVE LibraryInv'
<1> PICK n : n = work[w].at
  OBVIOUS
<1> DEFINE f == FileOrder[n]
<1>1. /\ Stepped(w)
      /\ w \in Seeder /\ work[w].stage = "read" /\ n \in 1..Len(FileOrder) /\ f \in Strategy
      /\ work'[w].at = n + 1
      /\ work'[w].read = [work[w].read EXCEPT ![f] = library[f]]
      /\ work'[w].stage \in {"lock", "read"}
      /\ UNCHANGED <<library, evidence, runs, holder, closed, edition, raced, begun>>
  BY InvFacts, SeedReadEffect
<1>2. SeedOK(w) /\ SeedRows(w) /\ SeedPlace(w) /\ SeedLocks(w) /\ work[w].read \in [Strategy -> LibraryEntry]
  BY <1>1, InvFacts, TransactionFacts
<1>3. SeedOK(w)'
  BY <1>1, <1>2, InvFacts, SeedReadOK
<1>4. \A s \in Strategy : work'[w].read[s] = IF s = f THEN library[s] ELSE work[w].read[s]
  BY <1>1, <1>2
<1>5. \A s \in Read(w)' : s = f \/ s \in Read(w)
  <2>1. \A k \in 1..((n + 1) - 1) : k = n \/ k \in 1..(n - 1)
    BY <1>1, FileFacts
  <2> QED BY <1>1, <2>1 DEF Read
<1>6. f \notin Read(w)
  <2>1. \A k \in 1..(n - 1) : k \in 1..Len(FileOrder) /\ k # n
    BY <1>1, FileFacts
  <2>2. \A k \in 1..(n - 1) : FileOrder[k] # f
    BY <1>1, <2>1, FileFacts
  <2> QED BY <2>2 DEF Read
<1>7. SeedRows(w)'
  <2> SUFFICES ASSUME NEW s \in Strategy
               PROVE  /\ s \in Read(w)' /\ library[s] = NoRow => work'[w].read[s] = NoRow
                      /\ holder[s] = w /\ work'[w].read[s] = NoRow => library[s] = NoRow
    BY <1>1 DEF SeedRows
  <2>1. holder[s] = w => s # f
    BY <1>2, <1>6 DEF SeedLocks
  <2> HIDE DEF f
  <2> QED
    BY <1>2, <1>4, <1>5, <2>1 DEF SeedRows
<1>8. SeedCounts(w)'
  BY <1>1 DEF SeedCounts
<1>9. \A s \in Strategy : work'[w].read[s] # NoRow => library[s] # NoRow
  BY <1>4, InvFacts
<1> HIDE DEF f
<1> QED
  BY <1>1, <1>3, <1>7, <1>8, <1>9, WriterFacts, InvFacts, QuietStep

LEMMA SeedFlushedInv == ASSUME LibraryInv, NEW w \in Writer, SeedFlushed(w) PROVE LibraryInv'
<1>1. /\ Stepped(w)
      /\ w \in Seeder /\ work'[w].stage = "read" /\ work'[w].at = work[w].at
      /\ work'[w].read = work[w].read
      /\ UNCHANGED <<library, evidence, runs, holder, closed, edition, raced, begun>>
  BY InvFacts, SeedFlushedEffect
<1>2. SeedOK(w)'
  BY <1>1, InvFacts, SeedFlushedOK
<1>3. SeedRows(w)' /\ SeedCounts(w)'
  BY <1>1, InvFacts DEF SeedRows, SeedCounts, Read
<1> QED
  BY <1>1, <1>2, <1>3, WriterFacts, InvFacts, QuietStep

LEMMA SeedEvidenceInv == ASSUME LibraryInv, NEW w \in Writer, SeedEvidence(w) PROVE LibraryInv'
<1>1. /\ Stepped(w)
      /\ w \in Seeder /\ work[w].stage = "read" /\ work[w].at > Len(FileOrder)
      /\ work'[w].stage = "store" /\ work'[w].at = work[w].at
      /\ \A s \in Strategy : \A e \in work'[w].added[s] : evidence[s][e] = 0
      /\ \A s \in Strategy : work'[w].read[s] = IF s = LastOfFile THEN work[w].read[s] ELSE library[s]
      /\ UNCHANGED <<library, evidence, runs, holder, closed, edition, raced, begun>>
  BY InvFacts, SeedEvidenceEffect
<1>2. SeedOK(w)'
  BY <1>1, InvFacts, SeedEvidenceOK
<1>3. SeedCounts(w)'
  BY <1>1, InvFacts DEF SeedCounts
<1>4. SeedRows(w)'
  <2>1. SeedRows(w) /\ Read(w)' = Read(w)
    BY <1>1, InvFacts DEF Read
  <2> QED BY <1>1, <2>1 DEF SeedRows
<1>5. \A s \in Strategy : work'[w].read[s] # NoRow => library[s] # NoRow
  BY <1>1, InvFacts
<1> QED
  BY <1>1, <1>2, <1>3, <1>4, <1>5, WriterFacts, InvFacts, QuietStep

LEMMA TestSkipInv == ASSUME LibraryInv, NEW w \in Writer, TestSkip(w) PROVE LibraryInv'
<1>1. /\ Stepped(w)
      /\ w \in Tester /\ work[w].stage = "read" /\ work'[w].stage = "read"
      /\ work'[w].at = work[w].at + 1 /\ work'[w].found = work[w].found
      /\ work'[w].read = work[w].read
      /\ UNCHANGED <<library, evidence, runs, holder, closed, edition, raced, begun>>
  BY InvFacts, TestSkipEffect
<1>2. work[w].at \in Nat
  BY InvFacts, TransactionFacts
<1>3. \A k \in 1..(work[w].at - 1) : k \in 1..(work'[w].at - 1)
  BY <1>1, <1>2
<1>4. TestOK(w)'
  BY <1>1, <1>3, InvFacts DEF TestOK
<1> QED
  BY <1>1, <1>4, WriterFacts, InvFacts, QuietStep

LEMMA AppendRun ==
    ASSUME runs \in [Strategy -> Seq(BacktestRun)], NEW s \in Strategy, NEW r \in BacktestRun
    PROVE  LET after == [runs EXCEPT ![s] = Append(runs[s], r)]
               last  == Len(runs[s]) + 1
           IN  /\ after \in [Strategy -> Seq(BacktestRun)]
               /\ \A t \in Strategy \ {s} : after[t] = runs[t]
               /\ Len(runs[s]) \in Nat /\ DOMAIN runs[s] = 1..Len(runs[s])
               /\ DOMAIN after[s] = 1..last
               /\ after[s][last] = r
               /\ \A k \in 1..Len(runs[s]) : after[s][k] = runs[s][k]
<1>1. runs[s] \in Seq(BacktestRun)
  OBVIOUS
<1> PICK q : q = runs[s]
  OBVIOUS
<1>2. /\ Append(q, r) \in Seq(BacktestRun) /\ Len(Append(q, r)) = Len(q) + 1
      /\ \A k \in 1..Len(q) : Append(q, r)[k] = q[k]
      /\ Append(q, r)[Len(q) + 1] = r
  BY <1>1, AppendProperties
<1>3. /\ Len(q) \in Nat /\ DOMAIN q = 1..Len(q)
      /\ DOMAIN Append(q, r) = 1..(Len(q) + 1)
  BY <1>1, <1>2, LenProperties
<1> PICK a : a = Append(q, r)
  OBVIOUS
<1> QED
  BY <1>2, <1>3

LEMMA TestMeasureInv == ASSUME LibraryInv, NEW w \in Writer, TestMeasure(w) PROVE LibraryInv'
<1> PICK n : n = work[w].at
  OBVIOUS
<1> DEFINE s == SlugOrder[n]
<1>1. /\ Stepped(w)
      /\ w \in Tester /\ work[w].stage = "read" /\ n <= Len(SlugOrder)
      /\ work[w].read[s] # NoRow
      /\ runs' = [runs EXCEPT ![s] = Append(runs[s], [of |-> closed[s], by |-> w])]
      /\ \/ work'[w].stage = "read" /\ work'[w].at = n + 1
         \/ work'[w].stage = "lock" /\ work'[w].at = n
      /\ work'[w].found = work[w].found
      /\ work'[w].read = work[w].read
      /\ UNCHANGED <<library, evidence, holder, closed, edition, raced, begun>>
  BY InvFacts, TestMeasureEffect
<1>2. n \in Nat \ {0}
  BY InvFacts, TransactionFacts
<1>3. s \in Strategy
  BY <1>1, <1>2, SlugFacts
<1>4. runs' \in [Strategy -> Seq(BacktestRun)]
  <2>1. [of |-> closed[s], by |-> w] \in BacktestRun
    BY <1>3, InvFacts DEF BacktestRun
  <2> HIDE DEF s
  <2> QED
    BY <1>1, <1>3, <2>1, InvFacts, AppendRun
<1>5. \A k \in 1..(n - 1) : k \in 1..(work'[w].at - 1)
  BY <1>1, <1>2
<1>6. TestOK(w)'
  <2>1. TestOK(w)
    BY <1>1, InvFacts
  <2>2. \A t \in work[w].found :
          /\ work[w].read[t] # NoRow
          /\ \E k \in 1..(work'[w].at - 1) : k <= Len(SlugOrder) /\ SlugOrder[k] = t
    BY <1>5, <2>1 DEF TestOK
  <2>3. work'[w].stage = "lock" => work'[w].at = n
    BY <1>1
  <2> QED
    BY <1>1, <2>1, <2>2, <2>3 DEF TestOK
<1> HIDE DEF s
<1> QED
  BY <1>1, <1>4, <1>6, WriterFacts, InvFacts, QuietStep

LEMMA TestLockInv == ASSUME LibraryInv, NEW w \in Writer, TestLock(w) PROVE LibraryInv'
<1> PICK n : n = work[w].at
  OBVIOUS
<1> DEFINE s == SlugOrder[n]
<1>0. w \in Tester /\ work[w].stage = "lock"
  BY DEF TestLock, Lock
<1>1. /\ TestOK(w) /\ n \in Nat \ {0} /\ n <= Len(SlugOrder) /\ work[w].read[s] # NoRow
      /\ s \in Strategy
  <2>1. TestOK(w) /\ n \in Nat \ {0}
    BY <1>0, InvFacts, TransactionFacts
  <2> QED BY <1>0, <2>1, SlugFacts DEF TestOK
<1>2. /\ Stepped(w) /\ holder[s] = "nobody" /\ holder' = [holder EXCEPT ![s] = w]
      /\ work'[w].stage = "read" /\ work'[w].at = n + 1
      /\ work'[w].found = work[w].found \cup {s}
      /\ work'[w].read = work[w].read
      /\ UNCHANGED <<library, evidence, runs, closed, edition, raced, begun>>
  BY <1>1, InvFacts, TestLockEffect
<1>3. holder' \in [Strategy -> Writer \cup {"nobody"}]
  BY <1>1, <1>2, InvFacts
<1>4. \A t \in Strategy : holder'[t] = w <=> holder[t] = w \/ t = s
  BY <1>1, <1>2, InvFacts
<1>5. \A t \in Strategy : \A v \in Writer \ {w} : holder'[t] = v <=> holder[t] = v
  BY <1>1, <1>2, InvFacts, WriterFacts
<1>6. Frame(w)
  BY <1>2, <1>5, FrameMoved
<1>7. TestOK(w)'
  <2>1. \A t \in work'[w].found :
          /\ work[w].read[t] # NoRow
          /\ \E k \in 1..n : k <= Len(SlugOrder) /\ SlugOrder[k] = t
    <3> SUFFICES ASSUME NEW t \in work'[w].found
                 PROVE  /\ work[w].read[t] # NoRow
                        /\ \E k \in 1..n : k <= Len(SlugOrder) /\ SlugOrder[k] = t
      OBVIOUS
    <3>1. CASE t = s
      <4>1. n \in 1..n
        BY <1>1
      <4> QED BY <1>1, <3>1, <4>1
    <3>2. CASE t \in work[w].found
      <4>1. work[w].read[t] # NoRow
        BY <1>1, <3>2 DEF TestOK
      <4>2. PICK k \in 1..(n - 1) : k <= Len(SlugOrder) /\ SlugOrder[k] = t
        BY <1>1, <3>2 DEF TestOK
      <4>3. k \in 1..n
        BY <1>1, <4>2
      <4> QED BY <4>1, <4>2, <4>3
    <3> QED BY <1>2, <3>1, <3>2
  <2>2. work'[w].at - 1 = n
    BY <1>1, <1>2
  <2>3. \A t \in Strategy : holder'[t] = w <=> t \in work'[w].found
    BY <1>1, <1>2, <1>4 DEF TestOK
  <2> QED
    BY <1>2, <2>1, <2>2, <2>3 DEF TestOK
<1>8. RegistryTypeOK'
  BY <1>2, <1>3, InvFacts, RegistryTypes DEF LibraryInv, RegistryTypeOK, Stepped, Transaction, LibraryEntry, BacktestRun
<1>9. EvidenceCountedOnce'
  BY <1>2 DEF LibraryInv, EvidenceCountedOnce
<1> HIDE DEF s
<1> QED
  BY <1>0, <1>2, <1>6, <1>7, <1>8, <1>9, WriterFacts, InvFacts, OwnStep

LEMMA SeedLockInv == ASSUME LibraryInv, NEW w \in Writer, SeedLock(w) PROVE LibraryInv'
<1> PICK g : g = Flushes(w)
  OBVIOUS
<1>0. w \in Seeder /\ SeedOK(w) /\ SeedPlace(w) /\ SeedRows(w)
  BY InvFacts DEF SeedLock
<1>1. /\ Goal(w) = g /\ Due(w) # {} /\ holder[g] = "nobody" /\ work' = work
      /\ holder' = [holder EXCEPT ![g] = w]
      /\ work[w].read[g] = NoRow => library[g] = NoRow
      /\ UNCHANGED <<library, evidence, runs, closed, edition, raced, begun>>
  <2>1. Goal(w) = g
    BY WriterFacts, <1>0 DEF Goal
  <2> QED BY <2>1 DEF SeedLock, Lock
<1>2. g \in Strategy
  <2>1. Due(w) \subseteq Strategy
    BY <1>0, InvFacts, ReadRows
  <2> QED BY <1>0, <1>1, <2>1, FlushOrder
<1>3. holder' \in [Strategy -> Writer \cup {"nobody"}]
  BY <1>1, <1>2, InvFacts
<1>4. \A t \in Strategy : holder'[t] = w <=> holder[t] = w \/ t = g
  BY <1>1, <1>2, InvFacts
<1>5. \A t \in Strategy : \A v \in Writer \ {w} : holder'[t] = v <=> holder[t] = v
  BY <1>1, <1>2, InvFacts, WriterFacts
<1>6. Stepped(w)
  BY <1>1, InvFacts DEF Stepped
<1>7. Frame(w)
  BY <1>5, <1>6, FrameMoved
<1>8. SeedOK(w)'
  BY <1>0, InvFacts, SeedLockOK
<1>9. SeedRows(w)' /\ SeedCounts(w)'
  <2>1. SeedCounts(w)
    BY <1>0, InvFacts
  <2>2. Read(w)' = Read(w)
    BY <1>1 DEF Read
  <2> QED
    BY <1>0, <1>1, <1>4, <2>1, <2>2 DEF SeedRows, SeedCounts
<1>10. RegistryTypeOK'
  BY <1>1, <1>3, InvFacts, RegistryTypes DEF LibraryInv, RegistryTypeOK, Transaction, LibraryEntry, BacktestRun
<1>11. EvidenceCountedOnce'
  BY <1>1 DEF LibraryInv, EvidenceCountedOnce
<1> QED
  BY <1>0, <1>1, <1>7, <1>8, <1>9, <1>10, <1>11, WriterFacts, InvFacts, OwnStep

(* A step of another that changes no row, run or lock leaves a seed run as *)
(* it was.                                                                 *)
LEMMA SeederStays ==
    ASSUME NEW w \in Seeder, SeedOK(w), SeedRows(w), SeedCounts(w),
           library' = library, evidence' = evidence, holder' = holder, work' = work
    PROVE  SeedOK(w)' /\ SeedRows(w)' /\ SeedCounts(w)'
<1>1. Read(w)' = Read(w) /\ Due(w)' = Due(w)
  BY DEF Read, Due, Held
<1>2. SeedPlace(w)'
  BY DEF SeedOK, SeedPlace, Missing
<1>3. SeedLocks(w)'
  BY <1>1 DEF SeedOK, SeedLocks, Missing, Flushed
<1>4. \A s \in Strategy : Earlier(w, s)' <=> Earlier(w, s)
  BY DEF Earlier, Missing, Flushed
<1>5. SeedOrder(w)'
  BY <1>1, <1>4 DEF SeedOK, SeedOrder, Before
<1>6. SeedRows(w)' /\ SeedCounts(w)'
  BY <1>1 DEF SeedRows, SeedCounts
<1> QED
  BY <1>2, <1>3, <1>5, <1>6 DEF SeedOK

LEMMA CloseTradesInv == ASSUME LibraryInv, NEW s \in Strategy, CloseTrades(s) PROVE LibraryInv'
<1>1. /\ closed' \in [Strategy -> Samples]
      /\ UNCHANGED <<library, evidence, runs, holder, work, edition, raced, begun>>
  BY InvFacts DEF CloseTrades
<1>2. RegistryTypeOK'
  BY <1>1, RegistryTypes DEF LibraryInv, RegistryTypeOK, Transaction, LibraryEntry, BacktestRun
<1>3. \A w \in Seeder : SeedOK(w)' /\ SeedRows(w)' /\ SeedCounts(w)'
  BY <1>1, SeederStays DEF LibraryInv
<1>4. (\A w \in Tester : TestOK(w)') /\ RowsStay' /\ EvidenceCountedOnce'
  BY <1>1 DEF LibraryInv, TestOK, RowsStay, EvidenceCountedOnce
<1> QED
  BY <1>2, <1>3, <1>4 DEF LibraryInv

LEMMA EditFileInv == ASSUME LibraryInv, EditFile PROVE LibraryInv'
<1>1. UNCHANGED <<library, evidence, runs, holder, work, closed, raced, begun>>
  BY DEF EditFile
<1>2. edition' \in DOMAIN Editions
  <2>1. Editions \in Seq(SUBSET SeedSource) /\ edition \in DOMAIN Editions
    BY RegistryAssumption, RegistryTypes DEF LibraryInv
  <2>2. Len(Editions) \in Nat /\ DOMAIN Editions = 1..Len(Editions)
    BY <2>1, LenProperties
  <2>3. edition \in 1..Len(Editions) /\ edition < Len(Editions) /\ edition' = edition + 1
    BY <2>1, <2>2 DEF EditFile
  <2> QED BY <2>2, <2>3
<1>3. RegistryTypeOK'
  BY <1>1, <1>2, RegistryTypes DEF LibraryInv, RegistryTypeOK, Transaction, LibraryEntry, BacktestRun
<1>4. \A w \in Seeder : SeedOK(w)' /\ SeedRows(w)' /\ SeedCounts(w)'
  BY <1>1, SeederStays DEF LibraryInv
<1>5. (\A w \in Tester : TestOK(w)') /\ RowsStay' /\ EvidenceCountedOnce'
  BY <1>1 DEF LibraryInv, TestOK, RowsStay, EvidenceCountedOnce
<1> QED
  BY <1>3, <1>4, <1>5 DEF LibraryInv

LEMMA RegistryStutterInv == ASSUME LibraryInv, UNCHANGED registryVars PROVE LibraryInv'
<1>1. UNCHANGED <<library, evidence, runs, holder, work, closed, edition, raced, begun>>
  BY DEF registryVars
<1>2. RegistryTypeOK'
  BY <1>1, RegistryTypes DEF LibraryInv, RegistryTypeOK, Transaction, LibraryEntry, BacktestRun
<1>3. \A w \in Seeder : SeedOK(w)' /\ SeedRows(w)' /\ SeedCounts(w)'
  BY <1>1, SeederStays DEF LibraryInv
<1>4. (\A w \in Tester : TestOK(w)') /\ RowsStay' /\ EvidenceCountedOnce'
  BY <1>1 DEF LibraryInv, TestOK, RowsStay, EvidenceCountedOnce
<1> QED
  BY <1>2, <1>3, <1>4 DEF LibraryInv

LEMMA AbandonInv == ASSUME LibraryInv, NEW w \in Writer, Abandon(w) PROVE LibraryInv'
<1>1. /\ Freed(w) /\ Stepped(w) /\ work'[w] = AtRest
      /\ runs' = Signed(w, "undone")
      /\ UNCHANGED <<library, evidence, closed, edition, raced, begun>>
  BY InvFacts, AbandonEffect
<1>2. /\ AtRest.stage = "idle" /\ AtRest.at = 1 /\ AtRest.found = {} /\ AtRest.read = Unread
      /\ \A s \in Strategy : Unread[s] = NoRow
  BY RestIs
<1>3. /\ \A s \in Strategy : holder'[s] # w
      /\ \A s \in Strategy : \A v \in Writer \ {w} : holder'[s] = v <=> holder[s] = v
      /\ holder' \in [Strategy -> Writer \cup {"nobody"}]
  BY <1>1, InvFacts, FreedRows
<1>4. Frame(w)
  BY <1>1, <1>3, FrameMoved
<1>5. runs' \in [Strategy -> Seq(BacktestRun)]
  BY <1>1, InvFacts, SignedFacts
<1>6. RegistryTypeOK'
  BY <1>1, <1>3, <1>5, RegistryTypes DEF LibraryInv, RegistryTypeOK, Stepped, Transaction, LibraryEntry, BacktestRun
<1>7. w \in Seeder => SeedOK(w)' /\ SeedRows(w)' /\ SeedCounts(w)'
  <2> SUFFICES ASSUME w \in Seeder PROVE SeedOK(w)' /\ SeedRows(w)' /\ SeedCounts(w)'
    OBVIOUS
  <2>1. SeedOK(w)'
    BY <1>1, <1>2, <1>3, SeedAtRest
  <2> QED
    BY <1>1, <1>2, <1>3, <2>1 DEF SeedRows, SeedCounts
<1>8. w \in Tester => TestOK(w)'
  BY <1>1, <1>2, <1>3 DEF TestOK
<1>9. EvidenceCountedOnce'
  BY <1>1 DEF LibraryInv, EvidenceCountedOnce
<1>10. \A s \in Strategy : work'[w].read[s] # NoRow => library'[s] # NoRow
  BY <1>1, <1>2
<1> QED
  BY <1>1, <1>4, <1>6, <1>7, <1>8, <1>9, <1>10, OwnStep

LEMMA ReseededFacts ==
    ASSUME NEW now \in LibraryEntry, NEW read \in LibraryEntry, NEW ev,
           now = NoRow => read = NoRow
    PROVE  /\ Reseeded(now, read, ev) \in LibraryRow
           /\ Reseeded(now, read, ev).locked = now.locked
           /\ read # NoRow /\ read.locked => Reseeded(now, read, ev) = now
<1> DEFINE before == IF read = NoRow THEN NewRow ELSE read
           new    == Qualitative(ev)
<1>1. /\ before \in LibraryRow /\ new \in LibraryRow /\ new.locked = FALSE
      /\ now # NoRow => now \in LibraryRow
      /\ NewRow.locked = FALSE /\ NoRow.locked = FALSE
  BY QualitativeType, NoRowFacts DEF LibraryEntry, NewRow
<1>2. Reseeded(now, read, ev) =
         IF before.locked THEN now
         ELSE IF now = NoRow THEN new
         ELSE [Written(now, before, new) EXCEPT !.locked = now.locked]
  BY DEF Reseeded
<1>3. CASE before.locked
  <2>1. read # NoRow
    BY <1>1, <1>3
  <2> QED
    BY <1>1, <1>2, <1>3, <2>1
<1>4. CASE ~before.locked /\ now = NoRow
  BY <1>1, <1>2, <1>4
<1>5. CASE ~before.locked /\ now # NoRow
  <2> PICK r : r = Written(now, before, new)
    OBVIOUS
  <2>1. r \in LibraryRow /\ now \in LibraryRow
    BY <1>1, <1>5, WrittenFacts
  <2>2. Reseeded(now, read, ev) = [r EXCEPT !.locked = now.locked]
    BY <1>2, <1>5
  <2>3. [r EXCEPT !.locked = now.locked] \in LibraryRow /\ [r EXCEPT !.locked = now.locked].locked = now.locked
    BY <2>1 DEF LibraryRow
  <2> QED
    BY <1>5, <2>2, <2>3
<1> QED
  BY <1>3, <1>4, <1>5

(* A seed run that stores has all rows.                                    *)
LEMMA StoreHolds ==
    ASSUME NEW w \in Seeder, SeedPlace(w), SeedLocks(w), work[w].stage = "store"
    PROVE  \A s \in Strategy : holder[s] = w /\ s \in Read(w)
<1>1. \A k \in 1..Len(FileOrder) : holder[FileOrder[k]] = w
  BY DEF SeedPlace, SeedLocks, Flushed
<1>2. \A s \in Strategy : holder[s] = w
  BY <1>1, FileFacts
<1> QED
  BY <1>2 DEF SeedLocks

LEMMA CommitLeaves ==
    ASSUME LibraryInv, NEW w \in Writer, Release(w)
    PROVE  /\ Frame(w)
           /\ holder' \in [Strategy -> Writer \cup {"nobody"}]
           /\ work' \in [Writer -> Transaction]
           /\ \A s \in Strategy : work'[w].read[s] = NoRow
           /\ w \in Seeder => SeedOK(w)' /\ SeedCounts(w)'
           /\ w \in Seeder => SeedRows(w)'
           /\ w \in Tester => TestOK(w)'
<1>1. /\ Freed(w)
      /\ work' \in [Writer -> Transaction]
      /\ work'[w] = AtRest
      /\ \A v \in Writer \ {w} :
            /\ work'[v].stage = work[v].stage /\ work'[v].at = work[v].at
            /\ work'[v].read = work[v].read /\ work'[v].found = work[v].found
            /\ work'[v].added = work[v].added
  BY InvFacts, ReleaseEffect
<1>2. /\ AtRest.stage = "idle" /\ AtRest.at = 1 /\ AtRest.found = {} /\ AtRest.read = Unread
      /\ \A s \in Strategy : Unread[s] = NoRow
  BY RestIs
<1>3. /\ \A s \in Strategy : holder'[s] # w
      /\ \A s \in Strategy : \A v \in Writer \ {w} : holder'[s] = v <=> holder[s] = v
      /\ holder' \in [Strategy -> Writer \cup {"nobody"}]
  BY <1>1, InvFacts, FreedRows
<1>4. Frame(w)
  BY <1>1, <1>3 DEF Frame, Kept
<1>5. w \in Seeder => SeedOK(w)' /\ SeedCounts(w)'
  <2> SUFFICES ASSUME w \in Seeder PROVE SeedOK(w)' /\ SeedCounts(w)'
    OBVIOUS
  <2>1. SeedOK(w)'
    BY <1>1, <1>2, <1>3, SeedAtRest
  <2> QED
    BY <1>1, <1>2, <2>1 DEF SeedCounts
<1>6. w \in Tester => TestOK(w)'
  BY <1>1, <1>2, <1>3 DEF TestOK
<1>7. SeedRows(w)'
  BY <1>1, <1>2, <1>3 DEF SeedRows
<1> QED
  BY <1>1, <1>2, <1>3, <1>4, <1>5, <1>6, <1>7

LEMMA SeedCommitInv == ASSUME LibraryInv, NEW w \in Writer, SeedCommit(w) PROVE LibraryInv'
<1> DEFINE read == work[w].read
           with(s) == [e \in SeedSource |->
                          evidence[s][e] + (IF e \in work[w].added[s] THEN 1 ELSE 0)]
<1>1. /\ w \in Seeder /\ work[w].stage = "store" /\ Release(w)
      /\ evidence' = [s \in Strategy |-> with(s)]
      /\ library' = [s \in Strategy |-> Reseeded(library[s], read[s], with(s))]
      /\ raced' = raced \cup {s \in work[w].stale : ~read[s].locked}
      /\ UNCHANGED <<runs, closed, edition, begun>>
  BY DEF SeedCommit
<1>2. /\ SeedPlace(w) /\ SeedLocks(w) /\ SeedRows(w) /\ SeedCounts(w)
      /\ read \in [Strategy -> LibraryEntry] /\ work[w].stale \subseteq Strategy
      /\ library \in [Strategy -> LibraryEntry]
      /\ evidence \in [Strategy -> [SeedSource -> Nat]]
  BY <1>1, InvFacts, TransactionFacts
<1>3. /\ Frame(w)
      /\ holder' \in [Strategy -> Writer \cup {"nobody"}]
      /\ work' \in [Writer -> Transaction]
      /\ \A s \in Strategy : work'[w].read[s] = NoRow
      /\ SeedOK(w)' /\ SeedCounts(w)' /\ SeedRows(w)'
  BY <1>1, CommitLeaves
<1>4. \A s \in Strategy : holder[s] = w /\ s \in Read(w)
  BY <1>1, <1>2, StoreHolds
<1>5. \A s \in Strategy : library'[s] \in LibraryRow
  <2> SUFFICES ASSUME NEW s \in Strategy PROVE library'[s] \in LibraryRow
    OBVIOUS
  <2>1. library[s] \in LibraryEntry /\ read[s] \in LibraryEntry
    BY <1>2
  <2>2. library[s] = NoRow => read[s] = NoRow
    BY <1>2, <1>4 DEF SeedRows
  <2>3. library'[s] = Reseeded(library[s], read[s], with(s))
    BY <1>1
  <2> HIDE DEF read, with
  <2> QED
    BY <2>1, <2>2, <2>3, ReseededFacts
<1>6. library' \in [Strategy -> LibraryEntry]
  <2>1. library' = [s \in Strategy |-> library'[s]]
    BY <1>1
  <2> QED BY <1>5, <2>1 DEF LibraryEntry
<1>7. \A s \in Strategy, e \in SeedSource : with(s)[e] \in Nat /\ with(s)[e] <= 1
  <2> SUFFICES ASSUME NEW s \in Strategy, NEW e \in SeedSource
               PROVE  with(s)[e] \in Nat /\ with(s)[e] <= 1
    OBVIOUS
  <2>1. evidence[s][e] \in Nat /\ evidence[s][e] <= 1
    BY <1>2 DEF LibraryInv, EvidenceCountedOnce
  <2>2. e \in work[w].added[s] => evidence[s][e] = 0
    BY <1>1, <1>2 DEF SeedCounts
  <2>3. with(s)[e] = evidence[s][e] + (IF e \in work[w].added[s] THEN 1 ELSE 0)
    OBVIOUS
  <2> QED
    BY <2>1, <2>2, <2>3
<1>8. evidence' \in [Strategy -> [SeedSource -> Nat]] /\ EvidenceCountedOnce'
  <2>1. \A s \in Strategy : with(s) = [e \in SeedSource |-> with(s)[e]]
    OBVIOUS
  <2>2. \A s \in Strategy : evidence'[s] = with(s)
    BY <1>1
  <2> HIDE DEF with
  <2> QED
    BY <1>1, <1>7, <2>1, <2>2 DEF EvidenceCountedOnce
<1>9. raced' \subseteq Strategy
  BY <1>1, <1>2, RegistryTypes DEF LibraryInv
<1>10. RegistryTypeOK'
  <2> HIDE DEF with, read
  <2> QED
    BY <1>1, <1>3, <1>6, <1>8, <1>9, RegistryTypes
       DEF LibraryInv, RegistryTypeOK, Transaction, LibraryEntry, BacktestRun
<1>11. /\ \A s \in Strategy : library[s] # NoRow => library'[s] # NoRow
       /\ \A s \in Strategy : work'[w].read[s] # NoRow => library'[s] # NoRow
  BY <1>3, <1>5, NoRowFacts
<1>12. w \in Tester => TestOK(w)'
  BY <1>1, WriterFacts
<1> HIDE DEF with, read
<1> QED
  BY <1>3, <1>4, <1>8, <1>10, <1>11, <1>12, OwnStep

LEMMA TestCommitInv ==
    ASSUME LibraryInv, NEW w \in Writer, TestCommit(w),
           \A s \in work[w].found : FoundBy(w, s) \in Samples
    PROVE  LibraryInv'
<1>1. /\ w \in Tester /\ Release(w)
      /\ library' = [s \in Strategy |->
                      IF s \notin work[w].found THEN library[s]
                      ELSE Written(library[s], work[w].read[s], Measured(FoundBy(w, s)))]
      /\ runs' = Signed(w, "nobody")
      /\ raced' = (raced \ work[w].found) \cup (work[w].found \cap work[w].stale)
      /\ UNCHANGED <<evidence, closed, edition, begun>>
  BY DEF TestCommit
<1>2. /\ TestOK(w)
      /\ work[w].read \in [Strategy -> LibraryEntry]
      /\ work[w].stale \subseteq Strategy /\ work[w].found \subseteq Strategy
      /\ library \in [Strategy -> LibraryEntry]
      /\ \A s \in Strategy : work[w].read[s] # NoRow => library[s] # NoRow
  BY <1>1, InvFacts, TransactionFacts
<1>3. /\ Frame(w)
      /\ holder' \in [Strategy -> Writer \cup {"nobody"}]
      /\ work' \in [Writer -> Transaction]
      /\ \A s \in Strategy : work'[w].read[s] = NoRow
      /\ TestOK(w)'
  BY <1>1, CommitLeaves
<1>4. \A s \in Strategy :
         /\ s \notin work[w].found => library'[s] = library[s]
         /\ s \in work[w].found => library'[s] \in LibraryRow /\ holder[s] = w
  <2> SUFFICES ASSUME NEW s \in Strategy, s \in work[w].found
               PROVE  library'[s] \in LibraryRow /\ holder[s] = w
    BY <1>1
  <2>1. library[s] \in LibraryRow /\ work[w].read[s] \in LibraryRow /\ holder[s] = w
    BY <1>2 DEF TestOK, LibraryEntry
  <2>2. Measured(FoundBy(w, s)) \in LibraryRow
    BY MeasuredType
  <2>3. library'[s] = Written(library[s], work[w].read[s], Measured(FoundBy(w, s)))
    BY <1>1
  <2> QED
    BY <2>1, <2>2, <2>3, WrittenFacts
<1>5. library' \in [Strategy -> LibraryEntry]
  <2>1. library' = [s \in Strategy |-> library'[s]]
    BY <1>1
  <2> QED BY <1>2, <1>4, <2>1 DEF LibraryEntry
<1>6. runs' \in [Strategy -> Seq(BacktestRun)]
  BY <1>1, InvFacts, SignedFacts
<1>7. raced' \subseteq Strategy
  BY <1>1, <1>2, RegistryTypes DEF LibraryInv
<1>8. RegistryTypeOK'
  <2>1. /\ evidence' \in [Strategy -> [SeedSource -> Nat]] /\ closed' \in [Strategy -> Samples]
        /\ edition' \in DOMAIN Editions /\ begun' \in 0..MaxWork
    BY <1>1, RegistryTypes DEF LibraryInv
  <2> QED
    BY <1>3, <1>5, <1>6, <1>7, <2>1, Zenon DEF RegistryTypeOK, Transaction, LibraryEntry, BacktestRun
<1>9. /\ \A s \in Strategy : library[s] # NoRow => library'[s] # NoRow
      /\ \A s \in Strategy : work'[w].read[s] # NoRow => library'[s] # NoRow
      /\ \A s \in Strategy : library'[s] = library[s] \/ holder[s] = w
  BY <1>3, <1>4, NoRowFacts
<1>10. EvidenceCountedOnce'
  BY <1>1 DEF LibraryInv, EvidenceCountedOnce
<1>11. w \in Seeder => FALSE
  BY <1>1, WriterFacts
<1> QED
  BY <1>1, <1>3, <1>8, <1>9, <1>10, <1>11, OwnStep

LEMMA LibraryInitially == ASSUME RegistryInit PROVE LibraryInv
<1>1. RegistryTypeOK
  <2>1. /\ NoRow \in LibraryEntry /\ NewRow \in LibraryEntry
    BY NoRowFacts DEF LibraryEntry
  <2>2. library \in [Strategy -> LibraryEntry]
    BY <2>1 DEF RegistryInit
  <2>3. work \in [Writer -> Transaction]
    BY AtRestType DEF RegistryInit
  <2>4. edition \in DOMAIN Editions
    <3>1. Editions \in Seq(SUBSET SeedSource) /\ Editions # << >>
      BY RegistryAssumption
    <3>2. Len(Editions) \in Nat /\ DOMAIN Editions = 1..Len(Editions) /\ Len(Editions) # 0
      BY <3>1, LenProperties, EmptySeq
    <3>3. edition = 1
      BY DEF RegistryInit
    <3> QED BY <3>2, <3>3
  <2>5. runs \in [Strategy -> Seq(BacktestRun)]
    BY EmptySeq DEF RegistryInit
  <2>6. /\ evidence \in [Strategy -> [SeedSource -> Nat]]
        /\ holder \in [Strategy -> Writer \cup {"nobody"}]
        /\ raced \subseteq Strategy /\ begun \in 0..MaxWork
    BY RegistryAssumption DEF RegistryInit
  <2>7. closed \in [Strategy -> Samples]
    BY RegistryAssumption DEF RegistryInit
  <2> QED
    BY <2>2, <2>3, <2>4, <2>5, <2>6, <2>7, RegistryTypes
<1>2. /\ \A w \in Writer : work[w].stage = "idle" /\ work[w].at = 1 /\ work[w].found = {} /\ work[w].read = Unread
      /\ \A s \in Strategy : Unread[s] = NoRow /\ holder[s] = "nobody"
  BY RestIs DEF RegistryInit
<1>3. \A w \in Writer : \A s \in Strategy : holder[s] # w
  BY <1>2, WriterFacts
<1>4. ASSUME NEW w \in Seeder PROVE SeedOK(w) /\ SeedRows(w) /\ SeedCounts(w)
  <2>1. w \in Writer
    BY DEF Writer
  <2>2. Read(w) = {} /\ Due(w) = {}
    BY <1>2, <2>1 DEF Read, Due
  <2> QED
    BY <1>2, <1>3, <2>1, <2>2, FileFacts
       DEF SeedOK, SeedPlace, SeedLocks, SeedOrder, SeedRows, SeedCounts, Flushed
<1>5. \A w \in Tester : TestOK(w)
  BY <1>2, <1>3 DEF TestOK, Writer
<1>6. RowsStay
  BY <1>2 DEF RowsStay
<1>7. EvidenceCountedOnce
  BY DEF EvidenceCountedOnce, RegistryInit
<1> QED
  BY <1>1, <1>4, <1>5, <1>6, <1>7 DEF LibraryInv

-----------------------------------------------------------------------------
(* Once a seed run has ended a flush that inserted a row, no other seed    *)
(* run has any.                                                            *)
LEMMA OneInserts ==
    ASSUME LibraryInv, NEW w \in Seeder, NEW v \in Seeder, w # v,
           NEW s, NEW b \in Strategy, Earlier(v, s), holder[b] = w
    PROVE  FALSE
<1>1. PICK k \in 1..(work[v].at - 1) : Missing(v, k) /\ Flushed(v, k)
  BY DEF Earlier
<1>2. /\ SeedPlace(w) /\ SeedLocks(w) /\ SeedRows(w) /\ SeedPlace(v) /\ SeedRows(v)
      /\ work \in [Writer -> Transaction]
  BY InvFacts
<1>3. /\ k \in 1..Len(FileOrder) /\ k \in 1..k
      /\ work[w].at \in Nat \ {0}
      /\ \A j \in 1..(work[w].at - 1) : j \in 1..Len(FileOrder) /\ FileOrder[j] \in Read(w)
  BY <1>1, <1>2, ReadRows, FileFacts
<1> PICK z : z = FileOrder[k]
  OBVIOUS
<1>4. z \in Strategy /\ holder[z] = v /\ work[v].read[z] = NoRow
  BY <1>1, <1>3, FileFacts DEF Missing, Flushed
<1>5. library[z] = NoRow
  BY <1>2, <1>4 DEF SeedRows
<1>6. PICK j \in 1..(work[w].at - 1) : FileOrder[j] = b
  <2>1. b \in Read(w)
    BY <1>2 DEF SeedLocks
  <2> QED BY <2>1 DEF Read
<1>7. ~(j <= k)
  <2> SUFFICES ASSUME j <= k PROVE FALSE
    OBVIOUS
  <2>1. j \in 1..k
    BY <1>3, <1>6
  <2> QED
    BY <1>1, <1>6, <2>1 DEF Flushed
<1>8. k \in 1..(work[w].at - 1) /\ k # work[w].at - 1
  BY <1>3, <1>6, <1>7
<1>9. Missing(w, k)
  BY <1>2, <1>3, <1>4, <1>5, <1>8 DEF SeedRows, Missing
<1>10. Flushed(w, k)
  BY <1>2, <1>8, <1>9 DEF SeedLocks
<1> QED
  BY <1>3, <1>4, <1>10 DEF Flushed

LEMMA TestersInOrder ==
    ASSUME LibraryInv, NEW w \in Tester, NEW v \in Tester, Waits(w, v)
    PROVE  work[w].at < work[v].at
<1>1. /\ work[w].stage = "lock" /\ holder[SlugOrder[work[w].at]] = v
  BY DEF Waits, Goal, Visit
<1>2. /\ TestOK(w) /\ TestOK(v)
      /\ work[w].at \in Nat \ {0} /\ work[v].at \in Nat \ {0}
  BY InvFacts, TransactionFacts DEF Writer
<1>3. work[w].at \in 1..Len(SlugOrder)
  BY <1>1, <1>2, SlugFacts DEF TestOK
<1> PICK s : s = SlugOrder[work[w].at]
  OBVIOUS
<1>4. s \in Strategy /\ holder[s] = v
  BY <1>1, <1>3, SlugFacts
<1>5. PICK k \in 1..(work[v].at - 1) : k <= Len(SlugOrder) /\ SlugOrder[k] = s
  BY <1>2, <1>4 DEF TestOK
<1>6. k \in 1..Len(SlugOrder)
  BY <1>2, <1>5, SlugFacts
<1>7. k = work[w].at
  BY <1>3, <1>5, <1>6, SlugFacts
<1> QED
  BY <1>2, <1>5, <1>7

LEMMA SeedersApart ==
    ASSUME LibraryInv, NEW w \in Seeder, NEW v \in Seeder, Waits(w, v), Waits(v, w)
    PROVE  Outrun(w) \/ Outrun(v)
<1> SUFFICES ASSUME ~Outrun(w), ~Outrun(v) PROVE FALSE
  OBVIOUS
<1> PICK a, b : a = Flushes(w) /\ b = Flushes(v)
  OBVIOUS
<1>1. /\ w # v /\ Due(w) # {} /\ Due(v) # {} /\ Goal(w) = a /\ Goal(v) = b
      /\ holder[a] = v /\ holder[b] = w
  <2>1. Goal(w) = a /\ Goal(v) = b
    BY WriterFacts DEF Goal, Writer
  <2> QED BY <2>1 DEF Waits
<1>2. /\ SeedPlace(w) /\ SeedLocks(w) /\ SeedOrder(w) /\ SeedRows(w)
      /\ SeedPlace(v) /\ SeedLocks(v) /\ SeedOrder(v) /\ SeedRows(v)
      /\ work \in [Writer -> Transaction]
  BY InvFacts
<1>3. Due(w) \subseteq Strategy /\ Due(v) \subseteq Strategy
  BY <1>2, ReadRows
<1>4. a \in Due(w) /\ b \in Due(v) /\ a \in Strategy /\ b \in Strategy
  BY <1>1, <1>3, FlushOrder
<1>5. ~Earlier(v, a) /\ ~Earlier(w, b)
  BY <1>1, <1>4, OneInserts
<1>6. /\ work[v].read[a] # NoRow /\ (work[v].read[b] # NoRow => Before(a, b))
      /\ work[w].read[b] # NoRow /\ (work[w].read[a] # NoRow => Before(b, a))
  BY <1>1, <1>2, <1>4, <1>5 DEF SeedOrder
<1>7. work[w].read[a] # NoRow /\ work[v].read[b] # NoRow
  <2>1. library[a] # NoRow /\ library[b] # NoRow
    BY <1>4, <1>6, InvFacts DEF Writer
  <2> QED BY <1>1, <2>1 DEF Outrun
<1>8. Before(a, b) /\ Before(b, a)
  BY <1>6, <1>7
<1> QED
  BY <1>8, KeyFacts DEF Before

LEMMA NeverDeadlocks == LibraryInv => LikesNeverDeadlock
<1> SUFFICES ASSUME LibraryInv, NEW w \in Writer, NEW v \in Writer, Waits(w, v), Waits(v, w)
             PROVE  (w \in Seeder) # (v \in Seeder) \/ Outrun(w) \/ Outrun(v)
  BY DEF LikesNeverDeadlock
<1>1. CASE w \in Seeder /\ v \in Seeder
  BY <1>1, SeedersApart
<1>2. CASE w \notin Seeder /\ v \notin Seeder
  <2>1. w \in Tester /\ v \in Tester
    BY <1>2 DEF Writer
  <2>2. work[w].at < work[v].at /\ work[v].at < work[w].at
    BY <2>1, TestersInOrder
  <2>3. work[w].at \in Nat /\ work[v].at \in Nat
    BY InvFacts, TransactionFacts
  <2> QED
    BY <2>2, <2>3
<1>3. CASE (w \in Seeder) # (v \in Seeder)
  BY <1>3
<1> QED
  BY <1>1, <1>2, <1>3

-----------------------------------------------------------------------------
(* What is known of the samples: which runs are whose, what is remembered  *)
(* of the rows, and what is shown.                                         *)
Own(w, s) == {k \in DOMAIN runs[s] : runs[s][k].by = w}

\* w has measured s, or is about to write what it measured.
Target(w, s) ==
    s \in work[w].found \/ (work[w].stage = "lock" /\ SlugOrder[work[w].at] = s)

\* w came to s.
Come(w, s) ==
    \E j \in 1..Len(SlugOrder) :
        SlugOrder[j] = s /\ (j < work[w].at \/ (work[w].stage = "lock" /\ j = work[w].at))

Remembers(w) ==
    \A s \in Strategy :
        work[w].stage # "idle" /\ s \notin work[w].stale /\ (w \in Seeder => s \in Read(w)) =>
            work[w].read[s] = library[s]

OwnRuns(w, s) ==
    /\ work[w].stage = "idle" => Own(w, s) = {}
    /\ \A j, k \in Own(w, s) : j = k
    /\ \A k \in Own(w, s) :
          /\ Come(w, s)
          /\ runs[s][k].of.n > 0 => Target(w, s)
          /\ s \notin work[w].stale => \A j \in Performances(s) : j < k
    /\ Target(w, s) => \E k \in Own(w, s) : runs[s][k].of.n > 0

OwnOK(w) ==
    \A s \in Strategy : /\ w \in Seeder => Own(w, s) = {}
                        /\ w \in Tester => OwnRuns(w, s)

Latest(s, k) == k \in Performances(s) /\ \A j \in Performances(s) : j <= k

Shown ==
    \A s \in Strategy : library[s].locked /\ s \notin raced =>
        \E k \in DOMAIN runs[s] : Latest(s, k) /\ library[s] = Measured(runs[s][k].of)

SampleInv ==
    /\ \A w \in Writer : Remembers(w) /\ OwnOK(w)
    /\ Shown

LEMMA RunFacts ==
    ASSUME LibraryInv, NEW s \in Strategy
    PROVE  /\ Len(runs[s]) \in Nat /\ DOMAIN runs[s] = 1..Len(runs[s])
           /\ \A k \in DOMAIN runs[s] :
                 /\ k \in Nat /\ runs[s][k].of \in Samples
                 /\ runs[s][k].of.n \in Nat /\ runs[s][k] \in BacktestRun
           /\ closed[s] \in Samples /\ closed[s].n \in Nat
<1>1. runs[s] \in Seq(BacktestRun) /\ closed[s] \in Samples
  BY InvFacts
<1>2. Len(runs[s]) \in Nat /\ DOMAIN runs[s] = 1..Len(runs[s])
  BY <1>1, LenProperties
<1>3. \A k \in DOMAIN runs[s] : runs[s][k] \in BacktestRun
  BY <1>1, <1>2, ElementOfSeq
<1>4. \A m \in Samples : m.n \in Nat
  BY RegistryAssumption
<1>5. \A k \in DOMAIN runs[s] : runs[s][k].of \in Samples
  BY <1>3 DEF BacktestRun
<1> QED
  BY <1>1, <1>2, <1>3, <1>4, <1>5

LEMMA OthersSample ==
    ASSUME LibraryInv, SampleInv, NEW w \in Writer, Frame(w),
           \A v \in Writer \ {w} : work[v].stage # "idle" => work[v].stale \subseteq work'[v].stale,
           \A s \in Strategy : \A v \in Writer \ {w} :
                /\ Own(v, s)' = Own(v, s)
                /\ \A k \in Own(v, s) : runs'[s][k].of = runs[s][k].of,
           \A s \in Strategy :
                \/ library'[s] = library[s] /\ Performances(s)' = Performances(s)
                \/ \A v \in Writer \ {w} : work[v].stage # "idle" => s \in work'[v].stale,
           Remembers(w)', OwnOK(w)', Shown'
    PROVE  SampleInv'
<1> SUFFICES ASSUME NEW v \in Writer \ {w} PROVE Remembers(v)' /\ OwnOK(v)'
  BY DEF SampleInv
<1>1. v \in Writer /\ Kept(v) /\ Remembers(v) /\ OwnOK(v)
  BY DEF Frame, SampleInv
<1>2. Read(v)' = Read(v)
  BY <1>1 DEF Kept, Read
<1>3. Remembers(v)'
  BY <1>1, <1>2 DEF Remembers, Kept
<1>4. OwnOK(v)'
  <2> SUFFICES ASSUME NEW s \in Strategy
               PROVE  /\ v \in Seeder => Own(v, s)' = {}
                      /\ v \in Tester => OwnRuns(v, s)'
    BY DEF OwnOK
  <2>1. v \in Seeder => Own(v, s)' = {}
    BY <1>1 DEF OwnOK
  <2>2. ASSUME v \in Tester PROVE OwnRuns(v, s)'
    <3>1. OwnRuns(v, s)
      BY <1>1, <2>2 DEF OwnOK
    <3>2. (Target(v, s)' <=> Target(v, s)) /\ (Come(v, s)' <=> Come(v, s))
      BY <1>1 DEF Kept, Target, Come
    <3>3. Own(v, s)' = Own(v, s) /\ \A k \in Own(v, s) : runs'[s][k].of = runs[s][k].of
      OBVIOUS
    <3>4. ASSUME NEW k \in Own(v, s), s \notin work'[v].stale
          PROVE  \A j \in Performances(s)' : j < k
      <4>1. work[v].stage # "idle"
        BY <3>1 DEF OwnRuns
      <4>2. s \notin work[v].stale /\ Performances(s)' = Performances(s)
        BY <3>4, <4>1
      <4> QED
        BY <3>1, <4>2 DEF OwnRuns
    <3> QED
      BY <1>1, <3>1, <3>2, <3>3, <3>4 DEF OwnRuns, Kept
  <2> QED
    BY <2>1, <2>2
<1> QED
  BY <1>3, <1>4

(* A step that writes neither rows nor runs.                               *)
LEMMA QuietSample ==
    ASSUME LibraryInv, SampleInv, NEW w \in Writer, Frame(w),
           \A v \in Writer \ {w} : work'[v] = work[v],
           UNCHANGED <<library, runs, raced>>,
           Remembers(w)',
           \A s \in Strategy : w \in Tester => OwnRuns(w, s)'
    PROVE  SampleInv'
<1>1. Shown'
  BY DEF SampleInv, Shown, Latest, Performances
<1>2. OwnOK(w)'
  BY DEF SampleInv, OwnOK, Own
<1>3. \A s \in Strategy :
        /\ Performances(s)' = Performances(s)
        /\ \A v : Own(v, s)' = Own(v, s)
  BY DEF Performances, Own
<1> QED
  BY <1>1, <1>2, <1>3, OthersSample

LEMMA SampleFacts ==
    ASSUME SampleInv
    PROVE  /\ \A w \in Writer : Remembers(w)
           /\ \A w \in Tester, s \in Strategy : OwnRuns(w, s)
           /\ \A w \in Seeder, s \in Strategy : Own(w, s) = {}
           /\ Shown
BY DEF SampleInv, OwnOK, Writer

LEMMA SeedBeginSample == ASSUME LibraryInv, SampleInv, NEW w \in Writer, SeedBegin(w) PROVE SampleInv'
<1>1. w \in Seeder /\ AtRest.read = Unread /\ Unread \in [Strategy -> LibraryEntry]
  BY RestIs DEF SeedBegin
<1>2. Begin(w, Unread)
  BY <1>1 DEF SeedBegin
<1>3. /\ Stepped(w) /\ work'[w].at = 1
      /\ UNCHANGED <<library, evidence, runs, holder, closed, edition, raced>>
  BY <1>1, <1>2, InvFacts, BeginEffect
<1>4. Remembers(w)'
  BY <1>1, <1>3 DEF Remembers, Read
<1>5. Frame(w)
  BY <1>3, FrameMoved
<1> QED
  BY <1>1, <1>3, <1>4, <1>5, WriterFacts, QuietSample DEF Stepped

LEMMA TestBeginSample == ASSUME LibraryInv, SampleInv, NEW w \in Writer, TestBegin(w) PROVE SampleInv'
<1>1. w \in Tester /\ Begin(w, library) /\ library \in [Strategy -> LibraryEntry]
  BY InvFacts DEF TestBegin
<1>2. /\ Stepped(w) /\ work[w].stage = "idle"
      /\ work'[w].stage = "read" /\ work'[w].at = 1 /\ work'[w].read = library /\ work'[w].found = {}
      /\ UNCHANGED <<library, evidence, runs, holder, closed, edition, raced>>
  BY <1>1, InvFacts, BeginEffect
<1>3. Remembers(w)'
  BY <1>2 DEF Remembers
<1>4. ASSUME NEW s \in Strategy PROVE OwnRuns(w, s)'
  <2>1. Own(w, s)' = {}
    BY <1>1, <1>2, SampleFacts DEF OwnRuns, Own
  <2>2. ~Target(w, s)'
    BY <1>2 DEF Target
  <2> QED
    BY <2>1, <2>2 DEF OwnRuns
<1>5. Frame(w)
  BY <1>2, FrameMoved
<1> QED
  BY <1>2, <1>3, <1>4, <1>5, QuietSample DEF Stepped

LEMMA SeedReadSample == ASSUME LibraryInv, SampleInv, NEW w \in Writer, SeedRead(w) PROVE SampleInv'
<1> PICK n : n = work[w].at
  OBVIOUS
<1> DEFINE f == FileOrder[n]
<1>1. /\ Stepped(w)
      /\ w \in Seeder /\ work[w].stage = "read" /\ n \in 1..Len(FileOrder) /\ f \in Strategy
      /\ work'[w].at = n + 1
      /\ work'[w].read = [work[w].read EXCEPT ![f] = library[f]]
      /\ work'[w].stale = work[w].stale \ {f}
      /\ UNCHANGED <<library, evidence, runs, holder, closed, edition, raced, begun>>
  BY InvFacts, SeedReadEffect
<1>2. work[w].read \in [Strategy -> LibraryEntry]
  BY InvFacts, TransactionFacts
<1>3. \A s \in Strategy : work'[w].read[s] = IF s = f THEN library[s] ELSE work[w].read[s]
  BY <1>1, <1>2
<1>4. \A s \in Read(w)' : s = f \/ s \in Read(w)
  <2>1. \A k \in 1..((n + 1) - 1) : k = n \/ k \in 1..(n - 1)
    BY <1>1, FileFacts
  <2> QED BY <1>1, <2>1 DEF Read
<1>5. Remembers(w)'
  <2> SUFFICES ASSUME NEW s \in Strategy, s \notin work'[w].stale, s \in Read(w)'
               PROVE  work'[w].read[s] = library[s]
    BY <1>1 DEF Remembers
  <2>1. CASE s = f
    BY <1>3, <2>1
  <2>2. CASE s # f
    <3>1. s \in Read(w) /\ s \notin work[w].stale
      BY <1>1, <1>4, <2>2
    <3>2. work[w].read[s] = library[s]
      BY <1>1, <3>1, SampleFacts DEF Remembers
    <3> QED BY <1>3, <2>2, <3>2
  <2> QED BY <2>1, <2>2
<1>6. Frame(w)
  BY <1>1, FrameMoved
<1> HIDE DEF f
<1> QED
  BY <1>1, <1>5, <1>6, WriterFacts, QuietSample DEF Stepped

LEMMA SeedStaysSample ==
    ASSUME LibraryInv, SampleInv, NEW w \in Seeder,
           SeedLock(w) \/ SeedFlushed(w)
    PROVE  SampleInv'
<1>0. w \in Writer
  BY DEF Writer
<1>1. /\ \A v \in Writer \ {w} : work'[v] = work[v]
      /\ Frame(w)
      /\ work[w].stage # "idle" /\ work'[w].at = work[w].at /\ work'[w].read = work[w].read
      /\ work'[w].stale = work[w].stale
      /\ UNCHANGED <<library, runs, raced>>
  <2>1. CASE SeedLock(w)
    <3>1. /\ work' = work /\ holder[Goal(w)] = "nobody" /\ holder' = [holder EXCEPT ![Goal(w)] = w]
          /\ work[w].stage # "idle" /\ UNCHANGED <<library, runs, raced>>
      BY <2>1 DEF SeedLock, Lock
    <3>2. \A t \in Strategy : \A v \in Writer \ {w} : holder'[t] = v <=> holder[t] = v
      BY <3>1, InvFacts, WriterFacts
    <3> QED BY <3>1, <3>2 DEF Frame, Kept
  <2>2. CASE SeedFlushed(w)
    <3>1. /\ Stepped(w) /\ work[w].stage = "lock" /\ work'[w].at = work[w].at
          /\ work'[w].read = work[w].read /\ work'[w].stale = work[w].stale
          /\ UNCHANGED <<library, evidence, runs, holder, closed, edition, raced, begun>>
      BY <1>0, <2>2, InvFacts, SeedFlushedEffect
    <3> QED BY <1>0, <3>1, FrameMoved DEF Stepped
  <2> QED BY <2>1, <2>2
<1>2. Remembers(w)'
  BY <1>0, <1>1, SampleFacts DEF Remembers, Read
<1> QED
  BY <1>0, <1>1, <1>2, WriterFacts, QuietSample

LEMMA SeedEvidenceSample ==
    ASSUME LibraryInv, SampleInv, NEW w \in Writer, SeedEvidence(w)
    PROVE  SampleInv'
<1>1. /\ Stepped(w)
      /\ w \in Seeder /\ work[w].stage = "read" /\ work'[w].at = work[w].at
      /\ \A s \in Strategy : work'[w].read[s] = IF s = LastOfFile THEN work[w].read[s] ELSE library[s]
      /\ work'[w].stale = work[w].stale \cap {LastOfFile}
      /\ UNCHANGED <<library, evidence, runs, holder, closed, edition, raced, begun>>
  BY InvFacts, SeedEvidenceEffect
<1>2. Remembers(w) /\ Read(w)' = Read(w)
  BY <1>1, SampleFacts DEF Read
<1>3. Remembers(w)'
  BY <1>1, <1>2 DEF Remembers
<1>4. Frame(w)
  BY <1>1, FrameMoved
<1> QED
  BY <1>1, <1>3, <1>4, WriterFacts, QuietSample DEF Stepped

LEMMA TestSkipSample == ASSUME LibraryInv, SampleInv, NEW w \in Writer, TestSkip(w) PROVE SampleInv'
<1>1. /\ Stepped(w)
      /\ w \in Tester /\ work[w].stage = "read" /\ work'[w].stage = "read"
      /\ work'[w].at = work[w].at + 1 /\ work'[w].found = work[w].found
      /\ work'[w].read = work[w].read /\ work'[w].stale = work[w].stale
      /\ UNCHANGED <<library, evidence, runs, holder, closed, edition, raced, begun>>
  BY InvFacts, TestSkipEffect
<1>2. Remembers(w)'
  BY <1>1, SampleFacts, WriterFacts DEF Remembers
<1>3. work[w].at \in Nat /\ Len(SlugOrder) \in Nat
  BY InvFacts, TransactionFacts, SlugFacts
<1>4. ASSUME NEW s \in Strategy PROVE OwnRuns(w, s)'
  <2>1. OwnRuns(w, s)
    BY <1>1, SampleFacts
  <2>2. Target(w, s)' <=> Target(w, s)
    BY <1>1 DEF Target
  <2>3. Come(w, s) => Come(w, s)'
    BY <1>1, <1>3 DEF Come
  <2>4. Own(w, s)' = Own(w, s) /\ Performances(s)' = Performances(s)
    BY <1>1 DEF Own, Performances
  <2> QED
    BY <1>1, <2>1, <2>2, <2>3, <2>4 DEF OwnRuns
<1>5. Frame(w)
  BY <1>1, FrameMoved
<1> QED
  BY <1>1, <1>2, <1>4, <1>5, QuietSample DEF Stepped

LEMMA TestLockSample == ASSUME LibraryInv, SampleInv, NEW w \in Writer, TestLock(w) PROVE SampleInv'
<1> PICK n : n = work[w].at
  OBVIOUS
<1> DEFINE g == SlugOrder[n]
<1>0. w \in Tester /\ work[w].stage = "lock"
  BY DEF TestLock, Lock
<1>1. /\ TestOK(w) /\ n \in Nat \ {0} /\ n <= Len(SlugOrder) /\ Len(SlugOrder) \in Nat
      /\ g \in Strategy
  <2>1. TestOK(w) /\ n \in Nat \ {0}
    BY <1>0, InvFacts, TransactionFacts
  <2> QED BY <1>0, <2>1, SlugFacts DEF TestOK
<1>2. /\ Stepped(w) /\ holder[g] = "nobody" /\ holder' = [holder EXCEPT ![g] = w]
      /\ work'[w].stage = "read" /\ work'[w].at = n + 1
      /\ work'[w].found = work[w].found \cup {g}
      /\ work'[w].read = work[w].read /\ work'[w].stale = work[w].stale
      /\ UNCHANGED <<library, evidence, runs, closed, edition, raced, begun>>
  BY <1>1, InvFacts, TestLockEffect
<1>3. \A t \in Strategy : \A v \in Writer \ {w} : holder'[t] = v <=> holder[t] = v
  BY <1>1, <1>2, InvFacts, WriterFacts
<1>4. Frame(w)
  BY <1>2, <1>3, FrameMoved
<1>5. Remembers(w)'
  BY <1>0, <1>2, SampleFacts, WriterFacts DEF Remembers
<1>6. ASSUME NEW s \in Strategy PROVE OwnRuns(w, s)'
  <2>1. OwnRuns(w, s)
    BY <1>0, SampleFacts
  <2>2. Target(w, s)' <=> Target(w, s)
    BY <1>0, <1>2 DEF Target
  <2>3. Come(w, s) => Come(w, s)'
    BY <1>1, <1>2 DEF Come
  <2>4. Own(w, s)' = Own(w, s) /\ Performances(s)' = Performances(s)
    BY <1>2 DEF Own, Performances
  <2> QED
    BY <1>2, <2>1, <2>2, <2>3, <2>4 DEF OwnRuns
<1> HIDE DEF g
<1> QED
  BY <1>2, <1>4, <1>5, <1>6, QuietSample DEF Stepped

LEMMA OwnRunsKept ==
    ASSUME NEW w \in Writer, NEW s \in Strategy, OwnRuns(w, s),
           Own(w, s)' = Own(w, s),
           \A k \in Own(w, s) : runs'[s][k].of = runs[s][k].of,
           Performances(s)' = Performances(s),
           Target(w, s)' <=> Target(w, s), Come(w, s) => Come(w, s)',
           work'[w].stage # "idle", work'[w].stale = work[w].stale
    PROVE  OwnRuns(w, s)'
BY DEF OwnRuns

LEMMA TestMeasureSample == ASSUME LibraryInv, SampleInv, NEW w \in Writer, TestMeasure(w) PROVE SampleInv'
<1> PICK n : n = work[w].at
  OBVIOUS
<1> PICK g : g = SlugOrder[n]
  OBVIOUS
<1> PICK r : r = [of |-> closed[g], by |-> w]
  OBVIOUS
<1>1. /\ Stepped(w)
      /\ w \in Tester /\ work[w].stage = "read" /\ n <= Len(SlugOrder)
      /\ runs' = [runs EXCEPT ![g] = Append(runs[g], r)]
      /\ IF closed[g].n = 0 THEN work'[w].stage = "read" /\ work'[w].at = n + 1
                            ELSE work'[w].stage = "lock" /\ work'[w].at = n
      /\ work'[w].found = work[w].found
      /\ work'[w].read = work[w].read /\ work'[w].stale = work[w].stale
      /\ UNCHANGED <<library, evidence, holder, closed, edition, raced, begun>>
  BY InvFacts, TestMeasureEffect
<1>2. n \in Nat \ {0} /\ Len(SlugOrder) \in Nat /\ n \in 1..Len(SlugOrder)
  BY <1>1, InvFacts, TransactionFacts, SlugFacts
<1>3. g \in Strategy /\ closed[g] \in Samples /\ closed[g].n \in Nat /\ r \in BacktestRun
      /\ r.of = closed[g] /\ r.by = w
  <2>1. g \in Strategy
    BY <1>2, SlugFacts
  <2> QED BY <2>1, RunFacts DEF BacktestRun
<1>4. Frame(w)
  BY <1>1, FrameMoved
<1> PICK l : l = Len(runs[g]) + 1
  OBVIOUS
<1>5. /\ \A t \in Strategy \ {g} : runs'[t] = runs[t]
      /\ Len(runs[g]) \in Nat /\ DOMAIN runs[g] = 1..Len(runs[g]) /\ l \in Nat
      /\ DOMAIN runs'[g] = 1..l /\ runs'[g][l] = r
      /\ \A k \in 1..Len(runs[g]) : runs'[g][k] = runs[g][k]
  BY <1>1, <1>3, InvFacts, AppendRun
<1>6. /\ \A k : k \in DOMAIN runs'[g] <=> k = l \/ k \in DOMAIN runs[g]
      /\ \A k \in DOMAIN runs[g] : k # l /\ k < l /\ runs'[g][k] = runs[g][k]
      /\ runs'[g][l].by = w /\ runs'[g][l].of = closed[g]
  <2> PICK m : m = Len(runs[g])
    OBVIOUS
  <2>1. \A k : k \in 1..l <=> k = l \/ k \in 1..m
    BY <1>5
  <2>2. \A k \in 1..m : k # l /\ k < l
    BY <1>5
  <2> QED BY <1>3, <1>5, <2>1, <2>2
<1>7. \A s \in Strategy : Performances(s)' = Performances(s)
  <2>1. \A s \in Strategy \ {g} : Performances(s)' = Performances(s)
    BY <1>5 DEF Performances
  <2>2. w # "nobody"
    BY WriterFacts
  <2>3. ASSUME NEW k PROVE k \in Performances(g)' <=> k \in Performances(g)
    <3>1. CASE k \in DOMAIN runs[g]
      <4>1. k \in DOMAIN runs'[g] /\ runs'[g][k] = runs[g][k]
        BY <1>6, <3>1
      <4> QED BY <3>1, <4>1 DEF Performances
    <3>2. CASE k \notin DOMAIN runs[g]
      <4>1. k \in DOMAIN runs'[g] => k = l /\ runs'[g][k].by # "nobody"
        BY <1>6, <2>2, <3>2
      <4> QED BY <3>2, <4>1 DEF Performances
    <3> QED BY <3>1, <3>2
  <2>4. Performances(g)' = Performances(g)
    BY <2>3 DEF Performances
  <2> QED BY <2>1, <2>4
<1>8. /\ \A s \in Strategy, v \in Writer : s # g \/ v # w => Own(v, s)' = Own(v, s)
      /\ Own(w, g)' = Own(w, g) \cup {l}
  <2>1. \A s \in Strategy \ {g} : \A v \in Writer : Own(v, s)' = Own(v, s)
    BY <1>5 DEF Own
  <2>2. ASSUME NEW v \in Writer \ {w} PROVE Own(v, g)' = Own(v, g)
    <3>1. \A k : k \in Own(v, g)' <=> k \in Own(v, g)
      BY <1>6 DEF Own
    <3> QED BY <3>1 DEF Own
  <2>3. Own(w, g)' = Own(w, g) \cup {l}
    <3>1. \A k : k \in Own(w, g)' <=> k \in Own(w, g) \/ k = l
      BY <1>6 DEF Own
    <3> QED BY <3>1 DEF Own
  <2> QED BY <2>1, <2>2, <2>3
<1>9. \A s \in Strategy : \A k \in DOMAIN runs[s] : runs'[s][k].of = runs[s][k].of
  <2> SUFFICES ASSUME NEW s \in Strategy, NEW k \in DOMAIN runs[s]
               PROVE  runs'[s][k] = runs[s][k]
    OBVIOUS
  <2>1. CASE s = g
    <3>1. ASSUME NEW i \in DOMAIN runs[g] PROVE runs'[g][i] = runs[g][i]
      BY <1>6, <3>1, Zenon
    <3> QED BY <2>1, <3>1
  <2>2. CASE s # g
    <3>1. runs'[s] = runs[s]
      BY <1>5, <2>2
    <3> QED BY <3>1
  <2> QED BY <2>1, <2>2
<1>10. Own(w, g) = {} /\ ~Target(w, g)
  <2>1. OwnRuns(w, g)
    BY <1>1, <1>3, SampleFacts
  <2>2. ~Come(w, g)
    <3> SUFFICES ASSUME Come(w, g) PROVE FALSE
      OBVIOUS
    <3>1. PICK j \in 1..Len(SlugOrder) : SlugOrder[j] = g /\ j < n
      BY <1>1 DEF Come
    <3>2. j = n
      BY <1>2, <3>1, SlugFacts
    <3> QED BY <1>2, <3>1, <3>2
  <2> QED BY <2>1, <2>2 DEF OwnRuns
<1>11. Remembers(w)'
  BY <1>1, SampleFacts, WriterFacts DEF Remembers
<1>12. ASSUME NEW s \in Strategy PROVE OwnRuns(w, s)'
  <2>1. OwnRuns(w, s)
    BY <1>1, SampleFacts
  <2>2. CASE s # g
    <3>1. Own(w, s)' = Own(w, s) /\ \A k \in Own(w, s) : runs'[s][k].of = runs[s][k].of
      BY <1>8, <1>9, <2>2 DEF Own
    <3>2. Target(w, s)' <=> Target(w, s)
      BY <1>1, <2>2 DEF Target
    <3>3. Come(w, s) => Come(w, s)'
      BY <1>1, <1>2 DEF Come
    <3>4. work'[w].stage # "idle" /\ work'[w].stale = work[w].stale
      BY <1>1
    <3> QED
      BY <1>7, <2>1, <3>1, <3>2, <3>3, <3>4, OwnRunsKept
  <2>3. CASE s = g
    <3>1. Own(w, g)' = {l} /\ runs'[g][l].of = closed[g]
      BY <1>3, <1>5, <1>8, <1>10
    <3>2. Come(w, g)'
      <4>1. \/ n < work'[w].at
            \/ work'[w].stage = "lock" /\ n = work'[w].at
        BY <1>1, <1>2
      <4> QED BY <1>2, <4>1 DEF Come
    <3>3. Target(w, g)' <=> closed[g].n # 0
      BY <1>1, <1>10 DEF Target
    <3>4. \A j \in Performances(g) : j < l
      BY <1>6 DEF Performances
    <3>5. work'[w].stage # "idle"
      BY <1>1
    <3>6. /\ \A j, k \in Own(w, g)' : j = k
          /\ \A k \in Own(w, g)' : k = l
      BY <3>1
    <3>7. Target(w, g)' => l \in Own(w, g)' /\ runs'[g][l].of.n > 0
      BY <1>3, <3>1, <3>3
    <3>8. runs'[g][l].of.n > 0 => Target(w, g)'
      BY <1>3, <3>1, <3>3
    <3>9. \A k \in Own(w, g)' :
             /\ runs'[g][k].of.n > 0 => Target(w, g)'
             /\ \A j \in Performances(g)' : j < k
      <4>1. Performances(g)' = Performances(g)
        BY <1>3, <1>7
      <4> QED BY <3>4, <3>6, <3>8, <4>1
    <3>10. OwnRuns(w, g)'
      BY <3>2, <3>5, <3>6, <3>7, <3>9 DEF OwnRuns
    <3> QED
      BY <2>3, <3>10
  <2> QED
    BY <2>2, <2>3
<1>13. OwnOK(w)'
  BY <1>1, <1>12, WriterFacts DEF OwnOK
<1>14. Shown'
  <2> SUFFICES ASSUME NEW s \in Strategy, library[s].locked, s \notin raced
               PROVE  \E k \in DOMAIN runs'[s] : Latest(s, k)' /\ library[s] = Measured(runs'[s][k].of)
    BY <1>1 DEF Shown
  <2>1. PICK k \in DOMAIN runs[s] : Latest(s, k) /\ library[s] = Measured(runs[s][k].of)
    BY SampleFacts DEF Shown
  <2>2. k \in DOMAIN runs'[s]
    BY <1>5, <1>6
  <2>3. Latest(s, k)'
    BY <1>7, <2>1 DEF Latest
  <2> QED
    BY <1>9, <2>1, <2>2, <2>3
<1>15. \A v \in Writer \ {w} : work'[v] = work[v]
  BY <1>1 DEF Stepped
<1>16. \A s \in Strategy : \A v \in Writer \ {w} :
          /\ Own(v, s)' = Own(v, s)
          /\ \A k \in Own(v, s) : runs'[s][k].of = runs[s][k].of
  BY <1>8, <1>9 DEF Own
<1> QED
  BY <1>1, <1>4, <1>7, <1>11, <1>13, <1>14, <1>15, <1>16, OthersSample

LEMMA SignedOwn ==
    ASSUME LibraryInv, NEW w \in Writer, NEW to \in {"nobody", "undone"}, runs' = Signed(w, to)
    PROVE  \A s \in Strategy :
              /\ DOMAIN runs'[s] = DOMAIN runs[s]
              /\ \A k \in DOMAIN runs[s] : runs'[s][k].of = runs[s][k].of
              /\ Own(w, s)' = {}
              /\ \A v \in Writer \ {w} : Own(v, s)' = Own(v, s)
              /\ to = "undone" => Performances(s)' = Performances(s)
              /\ to = "nobody" =>
                    Performances(s)' = Performances(s) \cup {k \in Own(w, s) : runs[s][k].of.n > 0}
<1> TAKE s \in Strategy
<1>1. /\ DOMAIN runs'[s] = DOMAIN runs[s]
      /\ \A k \in DOMAIN runs[s] :
            /\ runs'[s][k].of = runs[s][k].of
            /\ runs'[s][k].by = IF runs[s][k].by = w THEN to ELSE runs[s][k].by
  BY InvFacts, SignedFacts
<1>2. w # "nobody" /\ w # "undone" /\ to \notin Writer
  BY WriterFacts
<1>3. Own(w, s)' = {}
  BY <1>1, <1>2 DEF Own
<1>4. ASSUME NEW v \in Writer \ {w} PROVE Own(v, s)' = Own(v, s)
  <2>1. \A k : k \in Own(v, s)' <=> k \in Own(v, s)
    BY <1>1, <1>2 DEF Own
  <2> QED BY <2>1 DEF Own
<1>5. ASSUME to = "undone" PROVE Performances(s)' = Performances(s)
  <2>1. \A k : k \in Performances(s)' <=> k \in Performances(s)
    BY <1>1, <1>2, <1>5 DEF Performances
  <2> QED BY <2>1 DEF Performances
<1>6. ASSUME to = "nobody"
      PROVE  Performances(s)' = Performances(s) \cup {k \in Own(w, s) : runs[s][k].of.n > 0}
  <2>1. \A k : k \in Performances(s)' <=>
                 k \in Performances(s) \/ (k \in Own(w, s) /\ runs[s][k].of.n > 0)
    BY <1>1, <1>2, <1>6 DEF Performances, Own
  <2> QED BY <2>1 DEF Performances, Own
<1> QED
  BY <1>1, <1>3, <1>4, <1>5, <1>6

(* A transaction that has ended remembers nothing and has no runs.         *)
LEMMA EndedSample ==
    ASSUME NEW w \in Writer, work'[w] = AtRest, \A s \in Strategy : Own(w, s)' = {}
    PROVE  Remembers(w)' /\ OwnOK(w)'
<1>1. work'[w].stage = "idle" /\ work'[w].found = {}
  BY RestIs
<1>2. Remembers(w)'
  BY <1>1 DEF Remembers
<1>3. \A s \in Strategy : ~Target(w, s)'
  BY <1>1 DEF Target
<1>4. \A s \in Strategy : OwnRuns(w, s)'
  BY <1>3 DEF OwnRuns
<1> QED
  BY <1>2, <1>4 DEF OwnOK

LEMMA AbandonSample == ASSUME LibraryInv, SampleInv, NEW w \in Writer, Abandon(w) PROVE SampleInv'
<1>1. /\ Freed(w) /\ Stepped(w) /\ work'[w] = AtRest
      /\ runs' = Signed(w, "undone")
      /\ UNCHANGED <<library, evidence, closed, edition, raced, begun>>
  BY InvFacts, AbandonEffect
<1>2. \A s \in Strategy :
              /\ DOMAIN runs'[s] = DOMAIN runs[s]
              /\ \A k \in DOMAIN runs[s] : runs'[s][k].of = runs[s][k].of
              /\ Own(w, s)' = {}
              /\ \A v \in Writer \ {w} : Own(v, s)' = Own(v, s)
              /\ Performances(s)' = Performances(s)
  BY <1>1, SignedOwn
<1>3. Frame(w)
  BY <1>1, FreedRows, FrameMoved
<1>4. Remembers(w)' /\ OwnOK(w)'
  BY <1>1, <1>2, EndedSample
<1>5. Shown'
  <2> SUFFICES ASSUME NEW s \in Strategy, library[s].locked, s \notin raced
               PROVE  \E k \in DOMAIN runs'[s] : Latest(s, k)' /\ library[s] = Measured(runs'[s][k].of)
    BY <1>1 DEF Shown
  <2>1. PICK k \in DOMAIN runs[s] : Latest(s, k) /\ library[s] = Measured(runs[s][k].of)
    BY SampleFacts DEF Shown
  <2>2. Latest(s, k)'
    BY <1>2, <2>1 DEF Latest
  <2> QED
    BY <1>2, <2>1, <2>2
<1>6. \A s \in Strategy : \A v \in Writer \ {w} :
          /\ Own(v, s)' = Own(v, s)
          /\ \A k \in Own(v, s) : runs'[s][k].of = runs[s][k].of
  BY <1>2 DEF Own
<1>7. \A v \in Writer \ {w} : work'[v] = work[v]
  BY <1>1 DEF Stepped
<1> QED
  BY <1>1, <1>2, <1>3, <1>4, <1>5, <1>6, <1>7, OthersSample

LEMMA ReleaseSample ==
    ASSUME LibraryInv, NEW w \in Writer, Release(w)
    PROVE  /\ Frame(w) /\ work'[w] = AtRest
           /\ \A v \in Writer \ {w} : work[v].stage # "idle" => work[v].stale \subseteq work'[v].stale
           /\ \A s \in Strategy : holder[s] = w =>
                 \A v \in Writer \ {w} : work[v].stage # "idle" => s \in work'[v].stale
<1>1. /\ work'[w] = AtRest
      /\ \A v \in Writer \ {w} : work[v].stage # "idle" => work'[v].stale = work[v].stale \cup Held(w)
  BY InvFacts, ReleaseEffect
<1>2. Frame(w)
  BY CommitLeaves
<1> QED
  BY <1>1, <1>2 DEF Held

LEMMA SeedCommitSample == ASSUME LibraryInv, SampleInv, NEW w \in Writer, SeedCommit(w) PROVE SampleInv'
<1> DEFINE read == work[w].read
           with(s) == [e \in SeedSource |->
                          evidence[s][e] + (IF e \in work[w].added[s] THEN 1 ELSE 0)]
<1>1. /\ w \in Seeder /\ work[w].stage = "store" /\ Release(w)
      /\ library' = [s \in Strategy |-> Reseeded(library[s], read[s], with(s))]
      /\ raced' = raced \cup {s \in work[w].stale : ~read[s].locked}
      /\ UNCHANGED <<runs, closed, edition, begun>>
  BY DEF SeedCommit
<1>2. /\ SeedPlace(w) /\ SeedLocks(w) /\ SeedRows(w)
      /\ read \in [Strategy -> LibraryEntry] /\ work[w].stale \subseteq Strategy
      /\ library \in [Strategy -> LibraryEntry]
  BY <1>1, InvFacts, TransactionFacts
<1>3. \A s \in Strategy : holder[s] = w /\ s \in Read(w)
  BY <1>1, <1>2, StoreHolds
<1>4. /\ Frame(w) /\ work'[w] = AtRest
      /\ \A v \in Writer \ {w} : work[v].stage # "idle" => work[v].stale \subseteq work'[v].stale
      /\ \A s \in Strategy : \A v \in Writer \ {w} : work[v].stage # "idle" => s \in work'[v].stale
  BY <1>1, <1>3, ReleaseSample
<1>5. \A s \in Strategy : Performances(s)' = Performances(s) /\ \A v : Own(v, s)' = Own(v, s)
  BY <1>1 DEF Performances, Own
<1>6. \A s \in Strategy : Own(w, s)' = {}
  BY <1>1, <1>5, SampleFacts
<1>7. Remembers(w)' /\ OwnOK(w)'
  BY <1>4, <1>6, EndedSample
<1>8. Shown'
  <2> SUFFICES ASSUME NEW s \in Strategy, library'[s].locked, s \notin raced'
               PROVE  \E k \in DOMAIN runs[s] : Latest(s, k)' /\ library'[s] = Measured(runs[s][k].of)
    BY <1>1 DEF Shown
  <2>1. library[s] \in LibraryEntry /\ read[s] \in LibraryEntry
    BY <1>2
  <2>2. library[s] = NoRow => read[s] = NoRow
    BY <1>2, <1>3 DEF SeedRows
  <2>3. library'[s] = Reseeded(library[s], read[s], with(s))
    BY <1>1
  <2>4. /\ library'[s].locked = library[s].locked
        /\ read[s] # NoRow /\ read[s].locked => library'[s] = library[s]
    <3> PICK now : now = library[s]
      OBVIOUS
    <3> PICK old : old = read[s]
      OBVIOUS
    <3> HIDE DEF read, with
    <3> PICK ev : ev = with(s)
      OBVIOUS
    <3>0. now \in LibraryEntry /\ old \in LibraryEntry /\ (now = NoRow => old = NoRow)
      BY <2>1, <2>2
    <3>1. /\ Reseeded(now, old, ev).locked = now.locked
          /\ old # NoRow /\ old.locked => Reseeded(now, old, ev) = now
      BY <3>0, ReseededFacts
    <3>2. library'[s] = Reseeded(now, old, ev)
      BY <2>3
    <3> QED BY <3>1, <3>2, Zenon
  <2>5. library[s].locked /\ library[s] # NoRow
    BY <2>4, NoRowFacts
  <2>6. s \notin raced /\ (s \notin work[w].stale \/ read[s].locked)
    BY <1>1
  <2>7. s \notin work[w].stale => read[s] = library[s]
    BY <1>1, <1>3, SampleFacts DEF Remembers
  <2>8. read[s].locked
    BY <2>5, <2>6, <2>7
  <2>9. library'[s] = library[s]
    <3>1. read[s] # NoRow
      BY <2>8, NoRowFacts
    <3> QED BY <2>4, <2>8, <3>1
  <2>10. PICK k \in DOMAIN runs[s] : Latest(s, k) /\ library[s] = Measured(runs[s][k].of)
    BY <2>5, <2>6, SampleFacts DEF Shown
  <2>11. Latest(s, k)'
    BY <1>5, <2>10 DEF Latest
  <2> QED
    BY <2>9, <2>10, <2>11
<1>9. \A s \in Strategy : \A v \in Writer \ {w} :
          /\ Own(v, s)' = Own(v, s)
          /\ \A k \in Own(v, s) : runs'[s][k].of = runs[s][k].of
  BY <1>1, <1>5
<1> HIDE DEF read, with
<1> QED
  BY <1>4, <1>7, <1>8, <1>9, OthersSample

LEMMA FoundFacts ==
    ASSUME LibraryInv, SampleInv, NEW w \in Tester, NEW s \in work[w].found
    PROVE  \E k \in Own(w, s) :
              /\ Own(w, s) = {k} /\ k \in DOMAIN runs[s] /\ k \in Nat
              /\ runs[s][k].of.n > 0
              /\ FoundBy(w, s) = runs[s][k].of /\ FoundBy(w, s) \in Samples
<1>1. s \in Strategy /\ w \in Writer
  BY InvFacts, TransactionFacts DEF Writer
<1>2. OwnRuns(w, s)
  BY <1>1, SampleFacts
<1>3. PICK k \in Own(w, s) : runs[s][k].of.n > 0
  BY <1>2 DEF OwnRuns, Target
<1>4. Own(w, s) = {k} /\ k \in DOMAIN runs[s] /\ k \in Nat /\ runs[s][k].of \in Samples
  BY <1>1, <1>2, <1>3, RunFacts DEF OwnRuns, Own
<1>5. Max({k}) = k
  BY <1>4 DEF Max
<1>6. FoundBy(w, s) = runs[s][Max(Own(w, s))].of
  BY DEF FoundBy, Own
<1> QED
  BY <1>3, <1>4, <1>5, <1>6

LEMMA TestCommitSample == ASSUME LibraryInv, SampleInv, NEW w \in Writer, TestCommit(w) PROVE SampleInv'
<1>1. /\ w \in Tester /\ Release(w) /\ work[w].stage = "read"
      /\ library' = [s \in Strategy |->
                      IF s \notin work[w].found THEN library[s]
                      ELSE Written(library[s], work[w].read[s], Measured(FoundBy(w, s)))]
      /\ runs' = Signed(w, "nobody")
      /\ raced' = (raced \ work[w].found) \cup (work[w].found \cap work[w].stale)
  BY DEF TestCommit
<1>2. /\ TestOK(w)
      /\ work[w].read \in [Strategy -> LibraryEntry]
      /\ work[w].found \subseteq Strategy
      /\ library \in [Strategy -> LibraryEntry]
  BY <1>1, InvFacts, TransactionFacts
<1>3. \A s \in Strategy :
              /\ DOMAIN runs'[s] = DOMAIN runs[s]
              /\ \A k \in DOMAIN runs[s] : runs'[s][k].of = runs[s][k].of
              /\ Own(w, s)' = {}
              /\ \A v \in Writer \ {w} : Own(v, s)' = Own(v, s)
              /\ Performances(s)' = Performances(s) \cup {k \in Own(w, s) : runs[s][k].of.n > 0}
  BY <1>1, SignedOwn
<1>4. /\ Frame(w) /\ work'[w] = AtRest
      /\ \A v \in Writer \ {w} : work[v].stage # "idle" => work[v].stale \subseteq work'[v].stale
      /\ \A s \in work[w].found : \A v \in Writer \ {w} : work[v].stage # "idle" => s \in work'[v].stale
  BY <1>1, <1>2, ReleaseSample DEF TestOK
<1>5. Remembers(w)' /\ OwnOK(w)'
  BY <1>3, <1>4, EndedSample
<1>6. ASSUME NEW s \in Strategy, s \notin work[w].found
      PROVE  library'[s] = library[s] /\ Performances(s)' = Performances(s)
  <2>1. OwnRuns(w, s) /\ ~Target(w, s)
    BY <1>1, <1>6, SampleFacts DEF Target
  <2>2. \A k \in Own(w, s) : ~(runs[s][k].of.n > 0)
    BY <2>1 DEF OwnRuns
  <2> QED
    BY <1>1, <1>3, <1>6, <2>2
<1>7. Shown'
  <2> SUFFICES ASSUME NEW s \in Strategy, library'[s].locked, s \notin raced'
               PROVE  \E k \in DOMAIN runs'[s] : Latest(s, k)' /\ library'[s] = Measured(runs'[s][k].of)
    BY DEF Shown
  <2>1. CASE s \notin work[w].found
    <3>1. library'[s] = library[s] /\ Performances(s)' = Performances(s) /\ s \notin raced
      BY <1>1, <1>6, <2>1
    <3>2. PICK k \in DOMAIN runs[s] : Latest(s, k) /\ library[s] = Measured(runs[s][k].of)
      BY <3>1, SampleFacts DEF Shown
    <3>3. Latest(s, k)'
      BY <3>1, <3>2 DEF Latest
    <3> QED
      BY <1>3, <3>1, <3>2, <3>3
  <2>2. CASE s \in work[w].found
    <3>1. s \notin work[w].stale
      BY <1>1, <2>2
    <3>2. work[w].read[s] = library[s] /\ library[s] # NoRow
      BY <1>1, <1>2, <2>2, <3>1, SampleFacts, WriterFacts DEF Remembers, TestOK
    <3>3. PICK k \in Own(w, s) :
              /\ Own(w, s) = {k} /\ k \in DOMAIN runs[s] /\ k \in Nat
              /\ runs[s][k].of.n > 0
              /\ FoundBy(w, s) = runs[s][k].of /\ FoundBy(w, s) \in Samples
      BY <1>1, <2>2, FoundFacts
    <3>4. library'[s] = Measured(runs[s][k].of)
      <4>1. library[s] \in LibraryRow
        BY <1>2, <3>2 DEF LibraryEntry
      <4>2. library'[s] = Written(library[s], work[w].read[s], Measured(FoundBy(w, s)))
        BY <1>1, <2>2
      <4>3. Measured(FoundBy(w, s)) \in LibraryRow
        BY <3>3, MeasuredType
      <4>4. Written(library[s], library[s], Measured(FoundBy(w, s))) = Measured(FoundBy(w, s))
        BY <4>1, <4>3, WrittenFacts
      <4> QED
        BY <3>2, <3>3, <4>2, <4>4
    <3>5. \A j \in Performances(s) : j < k
      BY <1>1, <3>1, <3>3, SampleFacts DEF OwnRuns
    <3>6. Performances(s)' = Performances(s) \cup {k}
      BY <1>3, <3>3
    <3>7. Latest(s, k)'
      <4>1. \A j \in Performances(s) : j \in Nat /\ j <= k
        BY <3>3, <3>5, RunFacts DEF Performances
      <4> QED
        BY <3>3, <3>6, <4>1 DEF Latest
    <3> QED
      BY <1>3, <3>3, <3>4, <3>7
  <2> QED
    BY <2>1, <2>2
<1>8. \A s \in Strategy : \A v \in Writer \ {w} :
          /\ Own(v, s)' = Own(v, s)
          /\ \A k \in Own(v, s) : runs'[s][k].of = runs[s][k].of
  BY <1>3 DEF Own
<1>9. \A s \in Strategy :
          \/ library'[s] = library[s] /\ Performances(s)' = Performances(s)
          \/ \A v \in Writer \ {w} : work[v].stage # "idle" => s \in work'[v].stale
  BY <1>4, <1>6
<1> QED
  BY <1>4, <1>5, <1>7, <1>8, <1>9, OthersSample

LEMMA SampleStays ==
    ASSUME SampleInv, UNCHANGED <<library, runs, work, raced>>
    PROVE  SampleInv'
<1>1. \A w, s : /\ Own(w, s)' = Own(w, s) /\ Performances(s)' = Performances(s)
               /\ (Target(w, s)' <=> Target(w, s)) /\ (Come(w, s)' <=> Come(w, s))
  BY DEF Own, Performances, Target, Come
<1>2. ASSUME NEW w \in Writer PROVE Remembers(w)' /\ OwnOK(w)'
  <2>1. Remembers(w) /\ OwnOK(w)
    BY DEF SampleInv
  <2>2. Remembers(w)'
    BY <2>1 DEF Remembers, Read
  <2>3. \A s \in Strategy : OwnRuns(w, s) => OwnRuns(w, s)'
    BY <1>1 DEF OwnRuns
  <2> QED
    BY <1>1, <2>1, <2>2, <2>3 DEF OwnOK
<1>3. Shown'
  BY <1>1 DEF SampleInv, Shown, Latest
<1> QED
  BY <1>2, <1>3 DEF SampleInv

LEMMA SampleInitially == ASSUME RegistryInit PROVE SampleInv
<1>1. \A w \in Writer : work[w].stage = "idle" /\ work[w].found = {}
  BY RestIs DEF RegistryInit
<1>2. \A s \in Strategy : runs[s] = << >>
  BY DEF RegistryInit
<1>3. \A w \in Writer, s \in Strategy : Own(w, s) = {} /\ ~Target(w, s)
  BY <1>1, <1>2 DEF Own, Target
<1>4. \A w \in Writer : Remembers(w)
  BY <1>1 DEF Remembers
<1>5. \A w \in Writer : OwnOK(w)
  BY <1>3 DEF OwnOK, OwnRuns
<1>6. Shown
  <2>1. \A s \in Strategy : library[s].locked = FALSE
    BY DEF RegistryInit, NoRow, NewRow
  <2> QED BY <2>1 DEF Shown
<1> QED
  BY <1>4, <1>5, <1>6 DEF SampleInv

(* The two invariants together are inductive.                              *)
RegistryInv == LibraryInv /\ SampleInv

LEMMA RegistryStep == ASSUME RegistryInv, [RegistryNext]_registryVars PROVE RegistryInv'
<1>0. LibraryInv /\ SampleInv
  BY DEF RegistryInv
<1>1. ASSUME NEW w \in Writer, SeedBegin(w) PROVE RegistryInv'
  BY <1>0, <1>1, SeedBeginInv, SeedBeginSample DEF RegistryInv
<1>2. ASSUME NEW w \in Writer, SeedRead(w) PROVE RegistryInv'
  BY <1>0, <1>2, SeedReadInv, SeedReadSample DEF RegistryInv
<1>3. ASSUME NEW w \in Writer, SeedLock(w) PROVE RegistryInv'
  <2>1. w \in Seeder
    BY <1>3 DEF SeedLock
  <2> QED BY <1>0, <1>3, <2>1, SeedLockInv, SeedStaysSample DEF RegistryInv
<1>4. ASSUME NEW w \in Writer, SeedFlushed(w) PROVE RegistryInv'
  <2>1. w \in Seeder
    BY <1>4 DEF SeedFlushed
  <2> QED BY <1>0, <1>4, <2>1, SeedFlushedInv, SeedStaysSample DEF RegistryInv
<1>5. ASSUME NEW w \in Writer, SeedEvidence(w) PROVE RegistryInv'
  BY <1>0, <1>5, SeedEvidenceInv, SeedEvidenceSample DEF RegistryInv
<1>6. ASSUME NEW w \in Writer, SeedCommit(w) PROVE RegistryInv'
  BY <1>0, <1>6, SeedCommitInv, SeedCommitSample DEF RegistryInv
<1>7. ASSUME NEW w \in Writer, TestBegin(w) PROVE RegistryInv'
  BY <1>0, <1>7, TestBeginInv, TestBeginSample DEF RegistryInv
<1>8. ASSUME NEW w \in Writer, TestSkip(w) PROVE RegistryInv'
  BY <1>0, <1>8, TestSkipInv, TestSkipSample DEF RegistryInv
<1>9. ASSUME NEW w \in Writer, TestMeasure(w) PROVE RegistryInv'
  BY <1>0, <1>9, TestMeasureInv, TestMeasureSample DEF RegistryInv
<1>10. ASSUME NEW w \in Writer, TestLock(w) PROVE RegistryInv'
  BY <1>0, <1>10, TestLockInv, TestLockSample DEF RegistryInv
<1>11. ASSUME NEW w \in Writer, TestCommit(w) PROVE RegistryInv'
  <2>1. w \in Tester
    BY <1>11 DEF TestCommit
  <2>2. \A s \in work[w].found : FoundBy(w, s) \in Samples
    BY <1>0, <2>1, FoundFacts
  <2> QED BY <1>0, <1>11, <2>2, TestCommitInv, TestCommitSample DEF RegistryInv
<1>12. ASSUME NEW w \in Writer, Abandon(w) PROVE RegistryInv'
  BY <1>0, <1>12, AbandonInv, AbandonSample DEF RegistryInv
<1>13. ASSUME NEW s \in Strategy, CloseTrades(s) PROVE RegistryInv'
  BY <1>0, <1>13, CloseTradesInv, SampleStays DEF RegistryInv, CloseTrades
<1>14. CASE EditFile
  BY <1>0, <1>14, EditFileInv, SampleStays DEF RegistryInv, EditFile
<1>15. CASE UNCHANGED registryVars
  BY <1>0, <1>15, RegistryStutterInv, SampleStays DEF RegistryInv, registryVars
<1> QED
  BY <1>1, <1>2, <1>3, <1>4, <1>5, <1>6, <1>7, <1>8, <1>9, <1>10, <1>11, <1>12, <1>13, <1>14, <1>15
     DEF RegistryNext

LEMMA RegistryInvAlways == RegistrySpec => []RegistryInv
<1>1. RegistryInit => RegistryInv
  BY LibraryInitially, SampleInitially DEF RegistryInv
<1>2. RegistryInv /\ [RegistryNext]_registryVars => RegistryInv'
  BY RegistryStep
<1> QED
  BY <1>1, <1>2, PTL DEF RegistrySpec

(* Rows, evidence, runs, locks and transactions have their types.          *)
THEOREM RegistryTypeCorrect == RegistrySpec => []RegistryTypeOK
<1>1. RegistryInv => RegistryTypeOK
  BY DEF RegistryInv, LibraryInv
<1> QED
  BY <1>1, RegistryInvAlways, PTL

(* However seed runs overlap, be lost or wait for each other, no entry of  *)
(* the evidence file is counted twice for a strategy: a run looks for what *)
(* is stored only when it has locked every strategy.                       *)
THEOREM EvidenceOnceCorrect == RegistrySpec => []EvidenceCountedOnce
<1>1. RegistryInv => EvidenceCountedOnce
  BY DEF RegistryInv, LibraryInv
<1> QED
  BY <1>1, RegistryInvAlways, PTL

(* Two backtests never wait for each other, nor do two seed runs of which  *)
(* none is to fail anyway, whatever the three orders of the strategies are.*)
THEOREM LikesNeverDeadlockCorrect == RegistrySpec => []LikesNeverDeadlock
<1>1. RegistryInv => LikesNeverDeadlock
  BY NeverDeadlocks DEF RegistryInv
<1> QED
  BY <1>1, RegistryInvAlways, PTL

(* A measured strategy is shown with the class of the sample that is shown *)
(* with it, unless its last writer had read an older row.                  *)
THEOREM StatusFollowsCorrect == RegistrySpec => []StatusFollowsMeasurement
<1>1. ASSUME RegistryInv PROVE StatusFollowsMeasurement
  <2> SUFFICES ASSUME NEW s \in Strategy, library[s].locked, s \notin raced
               PROVE  library[s] = Measured(LatestPerformance(s))
    BY DEF StatusFollowsMeasurement
  <2>1. PICK k \in DOMAIN runs[s] : Latest(s, k) /\ library[s] = Measured(runs[s][k].of)
    BY <1>1 DEF RegistryInv, SampleInv, Shown
  <2>2. \A j \in Performances(s) : j \in Nat
    BY <1>1, RunFacts DEF RegistryInv, Performances
  <2>3. Max(Performances(s)) = k
    <3>1. k \in Performances(s) /\ \A j \in Performances(s) : k >= j
      BY <2>1, <2>2 DEF Latest
    <3>2. \A j \in Performances(s) : (\A i \in Performances(s) : j >= i) => j = k
      BY <2>2, <3>1
    <3> QED
      BY <3>1, <3>2 DEF Max
  <2> QED
    BY <2>1, <2>3 DEF LatestPerformance
<1> QED
  BY <1>1, RegistryInvAlways, PTL

-----------------------------------------------------------------------------
(* The price grid: a purchase is above what was seen, at a price EA takes, *)
(* and a listing that sells is below.                                      *)
LEMMA TickOf ==
    ASSUME NEW p \in Int
    PROVE  /\ p <= 1000 => PriceTick(p) = 50
           /\ p > 1000 /\ p <= 10000 => PriceTick(p) = 100
           /\ p > 10000 /\ p <= 50000 => PriceTick(p) = 250
           /\ p > 50000 /\ p <= 100000 => PriceTick(p) = 500
           /\ p > 100000 => PriceTick(p) = 1000
BY DEF PriceTick

LEMMA RoundedUp ==
    ASSUME NEW q \in Nat, NEW t \in {50, 100, 250, 500, 1000}
    PROVE  LET r == ((q + t - 1) \div t) * t
           IN  /\ r \in Nat /\ q <= r /\ r < q + t /\ r % t = 0
               /\ \A m \in Nat : q <= m * t => r <= m * t
<1>1. CASE t = 50
  BY <1>1
<1>2. CASE t = 100
  BY <1>2
<1>3. CASE t = 250
  BY <1>3
<1>4. CASE t = 500
  BY <1>4
<1>5. CASE t = 1000
  BY <1>5
<1> QED
  BY <1>1, <1>2, <1>3, <1>4, <1>5

LEMMA SnappedUp ==
    ASSUME NEW q \in Nat
    PROVE  SnapUp(q) \in Nat /\ q <= SnapUp(q) /\ OnGrid(SnapUp(q))
<1> PICK t : t = PriceTick(q)
  OBVIOUS
<1> PICK r : r = ((q + t - 1) \div t) * t
  OBVIOUS
<1>1. t \in {50, 100, 250, 500, 1000}
  BY TickOf
<1>2. /\ r \in Nat /\ q <= r /\ r % t = 0
      /\ \A m \in Nat : q <= m * t => r <= m * t
  BY <1>1, RoundedUp
<1>3. PriceTick(r) = t
  <2>1. CASE q <= 1000
    <3>1. t = 50 /\ q <= 20 * t
      BY <2>1, TickOf
    <3>2. r <= 1000
      BY <1>2, <3>1
    <3> QED BY <1>2, <3>1, <3>2, TickOf
  <2>2. CASE q > 1000 /\ q <= 10000
    <3>1. t = 100 /\ q <= 100 * t
      BY <2>2, TickOf
    <3>2. r > 1000 /\ r <= 10000
      BY <1>2, <2>2, <3>1
    <3> QED BY <1>2, <3>1, <3>2, TickOf
  <2>3. CASE q > 10000 /\ q <= 50000
    <3>1. t = 250 /\ q <= 200 * t
      BY <2>3, TickOf
    <3>2. r > 10000 /\ r <= 50000
      BY <1>2, <2>3, <3>1
    <3> QED BY <1>2, <3>1, <3>2, TickOf
  <2>4. CASE q > 50000 /\ q <= 100000
    <3>1. t = 500 /\ q <= 200 * t
      BY <2>4, TickOf
    <3>2. r > 50000 /\ r <= 100000
      BY <1>2, <2>4, <3>1
    <3> QED BY <1>2, <3>1, <3>2, TickOf
  <2>5. CASE q > 100000
    <3>1. t = 1000
      BY <2>5, TickOf
    <3>2. r > 100000
      BY <1>2, <2>5
    <3> QED BY <1>2, <3>1, <3>2, TickOf
  <2> QED
    BY <2>1, <2>2, <2>3, <2>4, <2>5
<1>4. SnapUp(q) = r
  BY DEF SnapUp
<1> QED
  BY <1>2, <1>3, <1>4 DEF OnGrid

LEMMA PaidForFacts ==
    ASSUME NEW p \in Nat
    PROVE  PaidFor(p) \in Nat /\ PaidFor(p) > p /\ OnGrid(PaidFor(p))
<1>1. PriceTick(p) \in {50, 100, 250, 500, 1000}
  BY TickOf
<1> PICK q : q = p + BuySlippage * PriceTick(p)
  OBVIOUS
<1>2. q \in Nat /\ q > p
  BY <1>1 DEF BuySlippage
<1>3. PaidFor(p) = SnapUp(q)
  BY DEF PaidFor
<1> QED
  BY <1>2, <1>3, SnappedUp

LEMMA CeilingFacts ==
    ASSUME NEW p \in Nat
    PROVE  Ceiling(p) \in Int /\ Ceiling(p) < p
<1>1. PriceTick(p) \in {50, 100, 250, 500, 1000}
  BY TickOf
<1> PICK q : q = p - (Undercut + SellSlippage) * PriceTick(p)
  OBVIOUS
<1>2. q \in Int /\ q < p
  BY <1>1 DEF Undercut, SellSlippage
<1>3. Ceiling(p) = (q \div PriceTick(q)) * PriceTick(q)
  BY DEF Ceiling, SnapDown
<1> PICK t : t = PriceTick(q)
  OBVIOUS
<1>4. t \in {50, 100, 250, 500, 1000}
  BY <1>2, TickOf
<1>5. (q \div t) * t \in Int /\ (q \div t) * t <= q
  <2>1. CASE t = 50
    BY <1>2, <2>1
  <2>2. CASE t = 100
    BY <1>2, <2>2
  <2>3. CASE t = 250
    BY <1>2, <2>3
  <2>4. CASE t = 500
    BY <1>2, <2>4
  <2>5. CASE t = 1000
    BY <1>2, <2>5
  <2> QED
    BY <1>4, <2>1, <2>2, <2>3, <2>4, <2>5
<1> QED
  BY <1>2, <1>3, <1>5

LEMMA ProductGrows ==
    ASSUME NEW m \in Nat, NEW n \in Nat, m < n, NEW q \in Nat \ {0}
    PROVE  m * q \in Nat /\ n * q \in Nat /\ m * q < n * q
<1>1. m * q \in Nat /\ n * q \in Nat
  OBVIOUS
<1>2. n * q = m * q + (n - m) * q
  OBVIOUS
<1>3. (n - m) * q >= 1
  OBVIOUS
<1> QED
  BY <1>1, <1>2, <1>3

(* Buying dearer and selling cheaper earns less, with the tax rounded.     *)
LEMMA EarnsLess ==
    ASSUME NEW buy \in Nat, NEW ask \in Nat, ask < buy,
           NEW sell \in Nat, NEW bid \in Nat, sell < bid,
           NEW q \in Nat \ {0}
    PROVE  Profit(buy, sell, q) < Profit(ask, bid, q)
<1> PICK a, b, c, d : a = ask * q /\ b = buy * q /\ c = sell * q /\ d = bid * q
  OBVIOUS
<1>1. a \in Nat /\ b \in Nat /\ c \in Nat /\ d \in Nat /\ a < b /\ c < d
  BY ProductGrows
<1>2. c - (c \div 20) <= d - (d \div 20) /\ c \div 20 \in Int /\ d \div 20 \in Int
  BY <1>1
<1>3. Profit(buy, sell, q) = c - (c \div 20) - b /\ Profit(ask, bid, q) = d - (d \div 20) - a
  BY DEF Profit, TaxOf
<1> PICK x, y : x = c \div 20 /\ y = d \div 20
  OBVIOUS
<1> QED
  BY <1>1, <1>2, <1>3

-----------------------------------------------------------------------------
Order   == [at : 0..MaxTick, limit : Limit \cup {0}, wanted : Lot \cup {0}]
Listing == [at : 0..MaxTick, price : Limit \cup {0}]

(* A purchase answers its order, and the listing came after it.            *)
FairlyBought ==
    /\ decision.at < bought.at
    /\ OnGrid(bought.price) /\ bought.seen < bought.price /\ bought.price <= decision.limit
    /\ bought.quantity \in 1..decision.wanted

ShadowInv ==
    /\ ShadowTypeOK
    /\ stance # "none" => decision.wanted \in Lot
    /\ stance \in {"holding", "listed", "closed"} => FairlyBought
    /\ stance \in {"listed", "closed"} => bought.at <= offer.at
    /\ stance = "closed" =>
          /\ offer.at < sold.at /\ sold.price < sold.seen
          /\ sold.quantity = bought.quantity

LEMMA ShadowFacts ==
    ASSUME ShadowInv
    PROVE  /\ instant \in 0..MaxTick /\ MaxTick \in Nat
           /\ stance \in {"none", "buying", "holding", "listed", "closed"}
           /\ decision \in Order /\ decision.at \in 0..MaxTick /\ decision.at \in Nat
           /\ decision.limit \in Nat /\ decision.wanted \in Nat
           /\ offer \in Listing /\ offer.at \in Nat /\ offer.price \in Nat
           /\ bought \in Fill /\ sold \in Fill
           /\ bought.price \in Nat /\ bought.seen \in Nat /\ bought.quantity \in Nat /\ bought.at \in Nat
           /\ sold.price \in Nat /\ sold.seen \in Nat /\ sold.quantity \in Nat /\ sold.at \in Nat
           /\ stance # "none" => decision.wanted \in Nat \ {0}
<1>1. /\ Limit \subseteq Nat /\ Lot \subseteq Nat \ {0} /\ MaxTick \in Nat
  BY ShadowAssumption
<1>2. /\ instant \in 0..MaxTick
      /\ stance \in {"none", "buying", "holding", "listed", "closed"}
      /\ decision \in Order /\ offer \in Listing /\ bought \in Fill /\ sold \in Fill
  BY DEF ShadowInv, ShadowTypeOK, Order, Listing
<1>3. decision.at \in 0..MaxTick /\ decision.limit \in Limit \cup {0} /\ decision.wanted \in Lot \cup {0}
  BY <1>2 DEF Order
<1>4. stance # "none" => decision.wanted \in Lot
  BY DEF ShadowInv
<1>5. /\ bought.price \in Nat /\ bought.seen \in Nat /\ bought.quantity \in Nat /\ bought.at \in Nat
      /\ sold.price \in Nat /\ sold.seen \in Nat /\ sold.quantity \in Nat /\ sold.at \in Nat
  BY <1>2 DEF Fill
<1>6. decision.at \in Nat /\ decision.limit \in Nat /\ decision.wanted \in Nat
  <2> PICK a, l, m : a = decision.at /\ l = decision.limit /\ m = decision.wanted
    OBVIOUS
  <2>1. a \in Nat
    BY <1>1, <1>3
  <2>2. (l \in Limit \/ l = 0) /\ (m \in Lot \/ m = 0)
    BY <1>3
  <2>3. /\ \A x \in Limit : x \in Nat
        /\ \A x \in Lot : x \in Nat
    BY <1>1
  <2> QED BY <2>1, <2>2, <2>3
<1>7. offer.at \in Nat /\ offer.price \in Nat
  <2>1. offer.at \in 0..MaxTick /\ offer.price \in Limit \cup {0}
    BY <1>2 DEF Listing
  <2> PICK a, p : a = offer.at /\ p = offer.price
    OBVIOUS
  <2>2. a \in Nat
    BY <1>1, <2>1
  <2>3. (p \in Limit \/ p = 0) /\ \A x \in Limit : x \in Nat
    BY <1>1, <2>1
  <2> QED BY <2>2, <2>3
<1> QED
  BY <1>1, <1>2, <1>3, <1>4, <1>5, <1>6, <1>7

LEMMA ShadowInitially == ShadowInit => ShadowInv
<1> SUFFICES ASSUME ShadowInit PROVE ShadowInv
  OBVIOUS
<1>1. MaxTick \in Nat /\ 0 \in 0..MaxTick
  BY ShadowAssumption
<1>2. ShadowTypeOK
  BY <1>1 DEF ShadowInit, ShadowTypeOK, Fill, NoFill, NoOffer
<1> QED
  BY <1>2 DEF ShadowInit, ShadowInv

LEMMA DecideInv == ASSUME ShadowInv, Decide PROVE ShadowInv'
<1>1. PICK limit \in Limit, wanted \in Lot :
         decision' = [at |-> instant, limit |-> limit, wanted |-> wanted]
  BY DEF Decide
<1>2. decision' \in Order /\ decision'.wanted = wanted
  BY <1>1, ShadowFacts DEF Order
<1>3. /\ stance' = "buying" /\ offer' = NoOffer /\ bought' = NoFill /\ sold' = NoFill
      /\ instant' = instant
  BY DEF Decide
<1>4. NoFill \in Fill /\ NoOffer \in Listing
  BY ShadowAssumption DEF NoFill, Fill, NoOffer, Listing
<1>5. ShadowTypeOK'
  BY <1>2, <1>3, <1>4, ShadowFacts DEF ShadowTypeOK, Order, Listing
<1> QED
  BY <1>1, <1>2, <1>3, <1>5 DEF ShadowInv

LEMMA FewerFacts ==
    ASSUME NEW m \in Nat, NEW n \in Nat
    PROVE  /\ Fewer(m, n) \in Nat /\ Fewer(m, n) <= m
           /\ m > 0 /\ n > 0 => Fewer(m, n) > 0
           /\ AtLeastOne(n) \in Nat /\ AtLeastOne(n) > 0
           /\ m > 0 => AtLeastOne(m \div 4) \in Nat /\ AtLeastOne(m \div 4) <= m
BY DEF Fewer, AtLeastOne

LEMMA HoldingInv ==
    ASSUME ShadowInv, stance # "none", NEW seen \in Nat, NEW quantity \in 1..decision.wanted, NEW at \in Nat,
           decision.at < at, PaidFor(seen) <= decision.limit,
           bought' = [price |-> PaidFor(seen), seen |-> seen, quantity |-> quantity, at |-> at, tax |-> 0],
           stance' = "holding", UNCHANGED <<instant, decision, offer, sold>>
    PROVE  ShadowInv'
<1>1. PaidFor(seen) \in Nat /\ PaidFor(seen) > seen /\ OnGrid(PaidFor(seen))
  BY PaidForFacts
<1>2. quantity \in Nat
  BY ShadowFacts
<1>3. /\ bought' \in Fill /\ bought'.price = PaidFor(seen) /\ bought'.seen = seen
      /\ bought'.quantity = quantity /\ bought'.at = at
  BY <1>1, <1>2 DEF Fill
<1>4. ShadowTypeOK'
  BY <1>3, ShadowFacts DEF ShadowTypeOK, Order, Listing
<1>5. decision'.wanted \in Lot
  BY DEF ShadowInv
<1>6. /\ OnGrid(bought'.price) /\ bought'.seen < bought'.price /\ bought'.price <= decision'.limit
      /\ decision'.at < bought'.at /\ bought'.quantity \in 1..decision'.wanted
  BY <1>1, <1>3, ShadowFacts
<1>7. FairlyBought'
  BY <1>6 DEF FairlyBought, OnGrid
<1> QED
  BY <1>4, <1>5, <1>7 DEF ShadowInv

LEMMA BuyFillInv == ASSUME ShadowInv, BuyFill PROVE ShadowInv'
<1>1. PICK at \in 0..instant, seen \in Quote, depth \in Depth \cup {UnknownDepth} :
          LET quantity == IF depth = UnknownDepth
                          THEN AtLeastOne(decision.wanted \div 4)
                          ELSE Fewer(decision.wanted, depth)
          IN  /\ decision.at < at /\ PaidFor(seen) <= decision.limit
              /\ quantity > 0
              /\ bought' = [price |-> PaidFor(seen), seen |-> seen, quantity |-> quantity,
                            at |-> at, tax |-> 0]
  <2>1. PICK at \in 0..instant, seen \in Quote, depth \in Depth \cup {UnknownDepth} :
          LET quantity == IF depth = UnknownDepth
                          THEN AtLeastOne(decision.wanted \div 4)
                          ELSE Fewer(decision.wanted, depth)
          IN  /\ After(at, decision.at)
              /\ PaidFor(seen) <= decision.limit
              /\ quantity > 0
              /\ bought' = [price |-> PaidFor(seen), seen |-> seen, quantity |-> quantity,
                            at |-> at, tax |-> 0]
    BY DEF BuyFill
  <2>2. decision.at < at
    <3> PICK a, d : a = at /\ d = decision.at
      OBVIOUS
    <3>1. a \in Int /\ d \in Nat /\ a > d
      BY <2>1, ShadowFacts DEF After
    <3> QED BY <3>1
  <2> QED BY <2>1, <2>2
<1>2. stance = "buying" /\ stance' = "holding" /\ UNCHANGED <<instant, decision, offer, sold>>
  BY DEF BuyFill
<1> PICK quantity : quantity = IF depth = UnknownDepth
                               THEN AtLeastOne(decision.wanted \div 4)
                               ELSE Fewer(decision.wanted, depth)
  OBVIOUS
<1>3. /\ decision.at < at /\ PaidFor(seen) <= decision.limit /\ quantity > 0
      /\ bought' = [price |-> PaidFor(seen), seen |-> seen, quantity |-> quantity, at |-> at, tax |-> 0]
  BY <1>1
<1>4. seen \in Nat /\ at \in Nat /\ (depth # UnknownDepth => depth \in Nat)
  BY ShadowAssumption, ShadowFacts
<1>5. decision.wanted \in Nat \ {0}
  BY <1>2, ShadowFacts
<1>6. quantity \in 1..decision.wanted
  <2>1. CASE depth = UnknownDepth
    <3> PICK m : m = decision.wanted
      OBVIOUS
    <3>1. m \in Nat /\ m > 0 /\ quantity = AtLeastOne(m \div 4)
      BY <1>5, <2>1
    <3>2. quantity \in Nat /\ quantity <= m
      BY <3>1, FewerFacts
    <3> QED BY <1>3, <3>1, <3>2
  <2>2. CASE depth # UnknownDepth
    <3>1. quantity = Fewer(decision.wanted, depth) /\ depth \in Nat
      BY <1>4, <2>2
    <3>2. quantity \in Nat /\ quantity <= decision.wanted
      BY <1>5, <3>1, FewerFacts
    <3> QED BY <1>3, <1>5, <3>2
  <2> QED BY <2>1, <2>2
<1> QED
  BY <1>2, <1>3, <1>4, <1>6, HoldingInv

LEMMA AcquisitionFillInv == ASSUME ShadowInv, AcquisitionFill PROVE ShadowInv'
<1>1. PICK expected \in Quote, delay \in 0..MaxTick, depth \in Depth :
          /\ PaidFor(expected) <= decision.limit
          /\ bought' = [price |-> PaidFor(expected), seen |-> expected,
                        quantity |-> Fewer(decision.wanted, AtLeastOne(depth)),
                        at |-> decision.at + AtLeastOne(delay), tax |-> 0]
  BY DEF AcquisitionFill
<1>2. stance = "buying" /\ stance' = "holding" /\ UNCHANGED <<instant, decision, offer, sold>>
  BY DEF AcquisitionFill
<1>3. expected \in Nat /\ depth \in Nat /\ delay \in Nat /\ decision.at \in Nat /\ decision.wanted \in Nat \ {0}
  BY <1>2, ShadowAssumption, ShadowFacts
<1>4. AtLeastOne(depth) \in Nat /\ AtLeastOne(depth) > 0
      /\ AtLeastOne(delay) \in Nat /\ AtLeastOne(delay) > 0
  BY <1>3, FewerFacts
<1> PICK quantity, at : quantity = Fewer(decision.wanted, AtLeastOne(depth)) /\ at = decision.at + AtLeastOne(delay)
  OBVIOUS
<1>5. quantity \in 1..decision.wanted
  <2> PICK m, n : m = decision.wanted /\ n = AtLeastOne(depth)
    OBVIOUS
  <2>1. quantity \in Nat /\ quantity <= decision.wanted /\ quantity > 0
    <3>1. m \in Nat /\ n \in Nat /\ m > 0 /\ n > 0 /\ quantity = Fewer(m, n)
      BY <1>3, <1>4
    <3> QED BY <3>1, FewerFacts
  <2> QED BY <1>3, <2>1
<1>6. at \in Nat /\ decision.at < at
  BY <1>3, <1>4
<1>7. /\ PaidFor(expected) <= decision.limit
      /\ bought' = [price |-> PaidFor(expected), seen |-> expected, quantity |-> quantity, at |-> at, tax |-> 0]
  BY <1>1
<1> QED
  BY <1>2, <1>3, <1>5, <1>6, <1>7, HoldingInv

LEMMA PutUpInv == ASSUME ShadowInv, PutUp PROVE ShadowInv'
<1>1. PICK price \in Limit : offer' = [at |-> instant, price |-> price]
  BY DEF PutUp
<1>2. /\ stance \in {"holding", "listed"} /\ stance' = "listed" /\ instant >= bought.at
      /\ UNCHANGED <<instant, decision, bought, sold>>
  BY DEF PutUp
<1>3. offer' \in Listing /\ offer'.at = instant
  BY <1>1, ShadowFacts DEF Listing
<1>4. ShadowTypeOK'
  BY <1>2, <1>3, ShadowFacts DEF ShadowTypeOK, Order, Listing
<1>5. bought'.at <= offer'.at
  <2> PICK a, b : a = instant /\ b = bought.at
    OBVIOUS
  <2>1. a \in Int /\ b \in Nat /\ a >= b
    BY <1>2, ShadowFacts
  <2> QED BY <1>2, <1>3, <2>1
<1>6. FairlyBought'
  BY <1>2 DEF ShadowInv, FairlyBought, OnGrid
<1> QED
  BY <1>2, <1>4, <1>5, <1>6 DEF ShadowInv

LEMMA SellFillInv == ASSUME ShadowInv, SellFill PROVE ShadowInv'
<1>1. PICK at \in 0..instant, seen \in Quote :
          /\ After(at, offer.at)
          /\ offer.price <= Ceiling(seen)
          /\ sold' = [price |-> offer.price, seen |-> seen, quantity |-> bought.quantity, at |-> at,
                      tax |-> TaxOf(offer.price, bought.quantity)]
  BY DEF SellFill
<1>2. stance = "listed" /\ stance' = "closed" /\ UNCHANGED <<instant, decision, offer, bought>>
  BY DEF SellFill
<1>3. seen \in Nat /\ at \in Nat /\ offer.at \in Nat /\ offer.price \in Nat /\ bought.quantity \in Nat
  BY ShadowAssumption, ShadowFacts
<1>4. offer.price < seen
  <2>1. Ceiling(seen) \in Int /\ Ceiling(seen) < seen
    BY <1>3, CeilingFacts
  <2> QED BY <1>1, <1>3, <2>1
<1>5. TaxOf(offer.price, bought.quantity) \in Nat
  <2> PICK m : m = offer.price * bought.quantity
    OBVIOUS
  <2>1. m \in Nat
    BY <1>3
  <2>2. m \div 20 \in Nat
    BY <2>1
  <2> QED BY <2>2 DEF TaxOf
<1>6. /\ sold' \in Fill /\ sold'.price < sold'.seen /\ sold'.quantity = bought.quantity /\ sold'.at = at
  BY <1>1, <1>3, <1>4, <1>5 DEF Fill
<1>7. offer'.at < sold'.at
  BY <1>1, <1>2, <1>3, <1>6 DEF After
<1>8. ShadowTypeOK'
  BY <1>2, <1>6, ShadowFacts DEF ShadowTypeOK, Order, Listing
<1>9. FairlyBought' /\ bought'.at <= offer'.at
  BY <1>2 DEF ShadowInv, FairlyBought, OnGrid
<1> QED
  BY <1>2, <1>6, <1>7, <1>8, <1>9 DEF ShadowInv

LEMMA ShadowStep == ASSUME ShadowInv, [ShadowNext]_shadowVars PROVE ShadowInv'
<1>1. CASE GiveUp
  BY <1>1 DEF ShadowInv, ShadowTypeOK, GiveUp, FairlyBought, OnGrid
<1>2. CASE NextInstant
  <2>1. instant' \in 0..MaxTick
    BY <1>2, ShadowFacts DEF NextInstant
  <2> QED BY <1>2, <2>1 DEF ShadowInv, ShadowTypeOK, NextInstant, FairlyBought, OnGrid
<1>3. CASE UNCHANGED shadowVars
  BY <1>3 DEF ShadowInv, ShadowTypeOK, shadowVars, FairlyBought, OnGrid
<1> QED
  BY <1>1, <1>2, <1>3, DecideInv, BuyFillInv, AcquisitionFillInv, PutUpInv, SellFillInv DEF ShadowNext

LEMMA ShadowInvAlways == ShadowSpec => []ShadowInv
BY ShadowInitially, ShadowStep, PTL DEF ShadowSpec

(* The clock, the order, the listing and the two fills have their types.   *)
THEOREM ShadowTypeCorrect == ShadowSpec => []ShadowTypeOK
<1>1. ShadowInv => ShadowTypeOK
  BY DEF ShadowInv
<1> QED
  BY <1>1, ShadowInvAlways, PTL

(* Whatever is observed, expected or drawn: a purchase is later than its   *)
(* decision, within its limit and dearer than what was observed, a sale is *)
(* later than its listing, and a closed trade earns less than the same     *)
(* trade at the observed prices, at every price of the grid.               *)
THEOREM ShadowConservativeCorrect == ShadowSpec => []ShadowIsConservative
<1>1. ASSUME ShadowInv PROVE ShadowIsConservative
  <2>1. ASSUME stance = "closed"
        PROVE  Profit(bought.price, sold.price, sold.quantity)
                  < Profit(bought.seen, sold.seen, sold.quantity)
    <3>1. /\ bought.seen < bought.price /\ sold.price < sold.seen
          /\ bought.quantity \in 1..decision.wanted /\ sold.quantity = bought.quantity
      BY <1>1, <2>1 DEF ShadowInv, FairlyBought
    <3>2. sold.quantity \in Nat \ {0}
      BY <1>1, <3>1, ShadowFacts
    <3> QED
      BY <1>1, <3>1, <3>2, ShadowFacts, EarnsLess
  <2> QED
    BY <1>1, <2>1 DEF ShadowInv, FairlyBought, ShadowIsConservative
<1> QED
  BY <1>1, ShadowInvAlways, PTL

-----------------------------------------------------------------------------
Counter == {"total", "failed", "used"}

-----------------------------------------------------------------------------
(* What the operators on a batch return.                                   *)

LEMMA WaitingType == Waiting \in Job
BY RecordsAssumption DEF Waiting, Job, Columns, Counters, Zero, HealthStatus

(* A batch with other fields is one still.                                 *)
LEMMA JobCounted ==
    ASSUME NEW j \in Job, NEW m \in Columns, NEW a \in Counters,
           NEW ch \in SUBSET {"status", "total", "failed", "used"}
    PROVE  [j EXCEPT !.mine = m, !.changed = ch, !.added = a] \in Job
BY Zenon DEF Job

LEMMA JobLooked ==
    ASSUME NEW j \in Job, NEW m \in Columns,
           NEW rd \in SUBSET Table, NEW fr \in SUBSET Table, NEW st \in SUBSET Table
    PROVE  [j EXCEPT !.read = rd, !.stale = st, !.fresh = fr, !.mine = m] \in Job
BY Zenon DEF Job

LEMMA JobStale ==
    ASSUME NEW j \in Job, NEW st \in SUBSET Table
    PROVE  [j EXCEPT !.stale = st] \in Job
BY Zenon DEF Job

(* What it does next, and nothing of its session, changes in such a step.  *)
SameSession(j, k) ==
    /\ k.read = j.read /\ k.stale = j.stale /\ k.mine = j.mine
    /\ k.changed = j.changed /\ k.added = j.added

Stage == {"waiting", "request", "count", "blame", "praise", "done"}

LEMMA JobStage ==
    ASSUME NEW j \in Job, NEW s \in Stage
    PROVE  LET k == [j EXCEPT !.stage = s]
           IN  /\ k \in Job /\ SameSession(j, k)
               /\ k.stage = s /\ k.left = j.left /\ k.got = j.got /\ k.last = j.last
<1>1. [j EXCEPT !.stage = s] \in Job
  BY Zenon DEF Job, Stage
<1> QED
  BY <1>1 DEF Job, SameSession

LEMMA JobGot ==
    ASSUME NEW j \in Job, NEW n \in 0..MaxRequests
    PROVE  LET k == [j EXCEPT !.got = n]
           IN  /\ k \in Job /\ SameSession(j, k)
               /\ k.stage = j.stage /\ k.left = j.left /\ k.got = n /\ k.last = j.last
<1>1. [j EXCEPT !.got = n] \in Job
  BY Zenon DEF Job
<1> QED
  BY <1>1 DEF Job, SameSession

LEMMA JobLeft ==
    ASSUME NEW j \in Job, NEW n \in 0..MaxRequests
    PROVE  LET k == [j EXCEPT !.left = n]
           IN  /\ k \in Job /\ SameSession(j, k)
               /\ k.stage = j.stage /\ k.left = n /\ k.got = j.got /\ k.last = j.last
<1>1. [j EXCEPT !.left = n] \in Job
  BY Zenon DEF Job
<1> QED
  BY <1>1 DEF Job, SameSession

LEMMA JobLast ==
    ASSUME NEW j \in Job
    PROVE  LET k == [j EXCEPT !.last = TRUE]
           IN  /\ k \in Job /\ SameSession(j, k)
               /\ k.stage = j.stage /\ k.left = j.left /\ k.got = j.got /\ k.last
<1>1. [j EXCEPT !.last = TRUE] \in Job
  BY Zenon DEF Job
<1> QED
  BY <1>1 DEF Job, SameSession

LEMMA JobStageLast ==
    ASSUME NEW j \in Job, NEW s \in Stage
    PROVE  LET k == [j EXCEPT !.stage = s, !.last = TRUE]
           IN  /\ k \in Job /\ SameSession(j, k)
               /\ k.stage = s /\ k.left = j.left /\ k.got = j.got /\ k.last
<1>1. [j EXCEPT !.stage = s, !.last = TRUE] \in Job
  BY Zenon DEF Job, Stage
<1> QED
  BY <1>1 DEF Job, SameSession

LEMMA LookFields ==
    ASSUME records \in Columns, NEW j \in Job, NEW t \in Table
    PROVE  /\ Look(j, t) \in Job
           /\ Look(j, t).stage = j.stage /\ Look(j, t).left = j.left
           /\ Look(j, t).got = j.got /\ Look(j, t).last = j.last
           /\ Look(j, t).changed = j.changed /\ Look(j, t).added = j.added
           /\ Look(j, t).read = j.read \cup {t}
           /\ t \in j.read => Look(j, t) = j
           /\ t \notin j.read =>
                /\ Look(j, t).stale = j.stale \ {t}
                /\ \A c \in DOMAIN records :
                     Look(j, t).mine[c] = IF c \in ColumnsOf(t) THEN records[c] ELSE j.mine[c]
<1> DEFINE m == [c \in DOMAIN j.mine |-> IF c \in ColumnsOf(t) THEN records[c] ELSE j.mine[c]]
<1>1. DOMAIN j.mine = DOMAIN records /\ m \in Columns
  BY DEF Job, Columns
<1>2. \A c \in DOMAIN records : m[c] = IF c \in ColumnsOf(t) THEN records[c] ELSE j.mine[c]
  BY <1>1
<1>3. CASE t \in j.read
  BY <1>3 DEF Look, Job
<1>4. CASE t \notin j.read
  <2>1. Look(j, t) = [j EXCEPT !.read = j.read \cup {t}, !.stale = j.stale \ {t},
                              !.fresh = j.fresh \cup ({t} \ stored), !.mine = m]
    BY <1>4 DEF Look
  <2> HIDE DEF m
  <2>2. /\ j.fresh \cup ({t} \ stored) \in SUBSET Table /\ j.read \cup {t} \in SUBSET Table
        /\ j.stale \ {t} \in SUBSET Table
    BY DEF Job
  <2>3. Look(j, t) \in Job
    <3>1. [j EXCEPT !.read = j.read \cup {t}, !.stale = j.stale \ {t},
                    !.fresh = j.fresh \cup ({t} \ stored), !.mine = m] \in Job
      BY Zenon, <1>1, <2>2, JobLooked
    <3> QED
      BY Zenon, <2>1, <3>1
  <2>4. /\ Look(j, t).stage = j.stage /\ Look(j, t).left = j.left
        /\ Look(j, t).got = j.got /\ Look(j, t).last = j.last
        /\ Look(j, t).changed = j.changed /\ Look(j, t).added = j.added
        /\ Look(j, t).read = j.read \cup {t} /\ Look(j, t).stale = j.stale \ {t}
        /\ Look(j, t).mine = m
    BY <2>1 DEF Job
  <2> QED
    BY <1>2, <1>4, <2>3, <2>4
<1> QED
  BY <1>3, <1>4

(* A change in memory and its count.                                       *)
LEMMA ChangeFields ==
    ASSUME NEW j \in Job, NEW m \in Columns, NEW a \in Counters
    PROVE  LET k == [Change(j, m) EXCEPT !.added = a]
           IN  /\ k \in Job
               /\ k.stage = j.stage /\ k.left = j.left /\ k.got = j.got /\ k.last = j.last
               /\ k.read = j.read /\ k.stale = j.stale
               /\ k.mine = m /\ k.added = a
               /\ k.changed = j.changed \cup {c \in DOMAIN m : m[c] # j.mine[c]}
<1> DEFINE ch == j.changed \cup {c \in DOMAIN m : m[c] # j.mine[c]}
           k == [j EXCEPT !.mine = m, !.changed = ch, !.added = a]
<1>1. ch \in SUBSET {"status", "total", "failed", "used"}
  BY DEF Job, Columns
<1>2. [Change(j, m) EXCEPT !.added = a] = k
  <2>1. Change(j, m) = [j EXCEPT !.mine = m, !.changed = ch]
    BY Zenon DEF Change
  <2> HIDE DEF ch
  <2> QED
    BY <2>1
<1> HIDE DEF ch
<1>3. k \in Job
  BY Zenon, <1>1, JobCounted
<1>4. /\ k.stage = j.stage /\ k.left = j.left /\ k.got = j.got /\ k.last = j.last
      /\ k.read = j.read /\ k.stale = j.stale
      /\ k.mine = m /\ k.added = a /\ k.changed = ch
  BY DEF Job
<1> HIDE DEF k
<1> QED
  BY <1>2, <1>3, <1>4 DEF ch

LEMMA JobParts ==
    ASSUME NEW j \in Job
    PROVE  /\ j.mine \in Columns /\ j.added \in Counters
           /\ j.changed \subseteq {"status", "total", "failed", "used"}
           /\ j.read \subseteq Table /\ j.stale \subseteq Table
           /\ j.left \in 0..MaxRequests /\ j.got \in 0..MaxRequests
           /\ j.stage \in Stage
BY DEF Job, Stage

(* The health row with another verdict and other counts.                   *)
LEMMA OtherHealth ==
    ASSUME NEW r \in Columns, NEW n \in Nat, NEW f \in Nat, NEW v \in HealthStatus
    PROVE  LET m == [r EXCEPT !.total = n, !.failed = f, !.status = v]
           IN  /\ m \in Columns /\ DOMAIN m = {"status", "total", "failed", "used"}
               /\ m["total"] = n /\ m["failed"] = f /\ m["status"] = v /\ m["used"] = r["used"]
<1>1. [r EXCEPT !.total = n, !.failed = f, !.status = v] \in Columns
  BY Zenon DEF Columns
<1> QED
  BY <1>1 DEF Columns

LEMMA OtherCounts ==
    ASSUME NEW r \in Counters, NEW n \in Nat, NEW f \in Nat
    PROVE  LET m == [r EXCEPT !.total = n, !.failed = f]
           IN  /\ m \in Counters
               /\ m["total"] = n /\ m["failed"] = f /\ m["used"] = r["used"]
<1>1. [r EXCEPT !.total = n, !.failed = f] \in Counters
  BY Zenon DEF Counters
<1> QED
  BY <1>1 DEF Counters

LEMMA UsedFields ==
    ASSUME NEW j \in Job
    PROVE  LET k == Used(j)
           IN  /\ k \in Job
               /\ k.stage = j.stage /\ k.left = j.left /\ k.got = j.got /\ k.last = j.last
               /\ k.read = j.read /\ k.stale = j.stale
               /\ k.mine = [j.mine EXCEPT !.used = j.mine.used + 1]
               /\ k.added = [j.added EXCEPT !.used = j.added.used + 1]
               /\ k.changed = j.changed \cup {"used"}
<1> DEFINE m == [j.mine EXCEPT !.used = j.mine.used + 1]
           a == [j.added EXCEPT !.used = j.added.used + 1]
<1>1. m \in Columns /\ {c \in DOMAIN m : m[c] # j.mine[c]} = {"used"}
  BY JobParts DEF Columns
<1>2. a \in Counters
  BY JobParts DEF Counters
<1>3. Change(j, m).added = j.added /\ "added" \in DOMAIN Change(j, m)
  BY DEF Change, Job
<1>4. Used(j) = [Change(j, m) EXCEPT !.added = a]
  BY <1>3 DEF Used
<1> HIDE DEF m, a
<1>5. Used(j) \in Job /\ Used(j).changed = j.changed \cup {"used"}
  BY <1>1, <1>2, <1>4, ChangeFields
<1> QED
  BY <1>1, <1>2, <1>4, <1>5, ChangeFields DEF m, a

LEMMA BlamedFields ==
    ASSUME NEW j \in Job
    PROVE  LET k == Blamed(j)
           IN  /\ k \in Job
               /\ k.stage = j.stage /\ k.left = j.left /\ k.got = j.got /\ k.last = j.last
               /\ k.read = j.read /\ k.stale = j.stale
               /\ k.mine = [j.mine EXCEPT !.total = j.mine.total + 1, !.failed = j.mine.failed + 1,
                                          !.status = "DEGRADED"]
               /\ k.added = [j.added EXCEPT !.total = j.added.total + 1, !.failed = j.added.failed + 1]
               /\ k.changed = j.changed \cup {"total", "failed"}
                              \cup (IF j.mine.status = "DEGRADED" THEN {} ELSE {"status"})
<1> DEFINE m == [j.mine EXCEPT !.total = j.mine.total + 1, !.failed = j.mine.failed + 1,
                               !.status = "DEGRADED"]
           a == [j.added EXCEPT !.total = j.added.total + 1, !.failed = j.added.failed + 1]
           ch == {"total", "failed"} \cup (IF j.mine.status = "DEGRADED" THEN {} ELSE {"status"})
<1>0. /\ j.mine \in Columns /\ j.added \in Counters /\ "DEGRADED" \in HealthStatus
      /\ j.mine.total + 1 \in Nat /\ j.mine.failed + 1 \in Nat
      /\ j.added.total + 1 \in Nat /\ j.added.failed + 1 \in Nat
      /\ j.mine.total + 1 # j.mine["total"] /\ j.mine.failed + 1 # j.mine["failed"]
  BY JobParts DEF Columns, Counters, HealthStatus
<1>1. /\ m \in Columns /\ DOMAIN m = {"status", "total", "failed", "used"}
      /\ m["total"] = j.mine.total + 1 /\ m["failed"] = j.mine.failed + 1
      /\ m["status"] = "DEGRADED" /\ m["used"] = j.mine["used"]
  BY <1>0, OtherHealth
<1>2. {c \in DOMAIN m : m[c] # j.mine[c]} = ch
  <2> HIDE DEF m
  <2>1. j.mine["status"] = j.mine.status
    BY <1>0 DEF Columns
  <2> QED
    BY <1>0, <1>1, <2>1
<1>3. a \in Counters
  BY <1>0, OtherCounts
<1>4. Change(j, m).added = j.added /\ "added" \in DOMAIN Change(j, m)
  BY DEF Change, Job
<1>5. Blamed(j) = [Change(j, m) EXCEPT !.added = a]
  BY <1>4, JobParts DEF Blamed, Counters
<1> HIDE DEF m, a, ch
<1>6. Blamed(j) \in Job /\ Blamed(j).changed = j.changed \cup ch
  BY <1>1, <1>2, <1>3, <1>5, ChangeFields
<1> QED
  BY <1>1, <1>3, <1>5, <1>6, ChangeFields DEF m, a, ch

LEMMA PraisedFields ==
    ASSUME NEW b \in Batch, NEW j \in Job
    PROVE  /\ Praised(b, j) \in Job
           /\ Praised(b, j).got = j.got /\ Praised(b, j).last = j.last
           /\ Praised(b, j).read = j.read /\ Praised(b, j).stale = j.stale
           /\ Praised(b, j).mine = [j.mine EXCEPT !.total = j.mine.total + 1,
                                                 !.status = VerdictOf(b, j.got)]
           /\ Praised(b, j).added = [j.added EXCEPT !.total = j.added.total + 1]
           /\ Praised(b, j).changed = j.changed \cup {"total"}
                 \cup (IF j.mine.status = VerdictOf(b, j.got) THEN {} ELSE {"status"})
<1> DEFINE verdict == VerdictOf(b, j.got)
           m == [j.mine EXCEPT !.total = j.mine.total + 1, !.status = verdict]
           a == [j.added EXCEPT !.total = j.added.total + 1]
           ch == {"total"} \cup (IF j.mine.status = verdict THEN {} ELSE {"status"})
<1>0. verdict \in HealthStatus
  BY DEF VerdictOf, HealthStatus
<1> HIDE DEF verdict
<1>a. j.mine \in Columns /\ j.mine.total + 1 \in Nat /\ j.mine.total + 1 # j.mine["total"]
  BY JobParts DEF Columns
<1>1. m \in Columns
  <2> DEFINE n == j.mine.total + 1
  <2>1. n \in Nat
    BY <1>a
  <2> HIDE DEF n
  <2>2. [j.mine EXCEPT !.total = n, !.status = verdict] \in Columns
    BY Zenon, <1>0, <1>a, <2>1 DEF Columns
  <2> QED
    BY <2>2 DEF n
<1>2. {c \in DOMAIN m : m[c] # j.mine[c]} = ch
  <2>1. /\ DOMAIN m = {"status", "total", "failed", "used"}
        /\ m["total"] = j.mine.total + 1 /\ m["status"] = verdict
        /\ m["failed"] = j.mine["failed"] /\ m["used"] = j.mine["used"]
        /\ j.mine["status"] = j.mine.status
    BY <1>a DEF Columns
  <2> HIDE DEF m
  <2> QED
    BY <1>a, <2>1
<1>3. a \in Counters
  BY JobParts DEF Counters
<1>4. Change(j, m).added = j.added /\ "added" \in DOMAIN Change(j, m)
  BY DEF Change, Job
<1>5. Praised(b, j) = [Change(j, m) EXCEPT !.added = a]
  BY Zenon, <1>4 DEF Praised, verdict, m, a
<1> HIDE DEF m, a, ch
<1>6. Praised(b, j) \in Job /\ Praised(b, j).changed = j.changed \cup ch
  BY <1>1, <1>2, <1>3, <1>5, ChangeFields
<1> QED
  BY <1>1, <1>3, <1>5, <1>6, ChangeFields DEF m, a, ch, verdict

-----------------------------------------------------------------------------
(* The invariant.                                                          *)

(* What a batch holds: where its session has read a row that nobody else   *)
(* has written since, its columns are the committed ones and what it added.*)
Sound(j) ==
    /\ \A t \in Table \ j.read : ColumnsOf(t) \cap j.changed = {}
    /\ \A c \in Counter \ j.changed : j.added[c] = 0
    /\ \A t \in j.read : \A c \in ColumnsOf(t) \cap Counter :
          /\ j.mine[c] <= recorded[c] + j.added[c]
          /\ t \notin j.stale => j.mine[c] = records[c] + j.added[c]
    /\ "health" \in j.read \ j.stale /\ "status" \notin j.changed =>
          j.mine["status"] = records["status"]
    /\ j.added["failed"] <= j.added["total"]

(* Where it stands: a row is written that was read before, a request that  *)
(* is counted was left, and a batch that ends with a failure writes it.    *)
Staged(j) ==
    /\ j.stage = "count" => "budget" \in j.read
    /\ j.stage \in {"blame", "praise"} => "health" \in j.read
    /\ j.last => j.stage = "blame"
    /\ j.stage = "count" \/ (j.stage = "blame" /\ ~j.last) => j.left > 0
    /\ j.got + j.left <= MaxRequests + (IF j.stage \in {"count", "blame"} THEN 1 ELSE 0)

Balanced ==
    /\ \A c \in Counter : records[c] <= recorded[c] /\ (~crossed => records[c] = recorded[c])
    /\ recorded["failed"] <= recorded["total"]

RecordsInv ==
    /\ RecordsTypeOK
    /\ \A b \in Batch : Sound(batch[b]) /\ Staged(batch[b])
    /\ Balanced
    /\ HealthyWasAnswered

LEMMA ColumnsParts ==
    /\ ColumnsOf("health") = {"status", "total", "failed"}
    /\ ColumnsOf("budget") = {"used"}
    /\ Table = {"health", "budget"}
    /\ \A c \in Counter : \E t \in Table : c \in ColumnsOf(t)
BY DEF ColumnsOf, Table, Counter

LEMMA WaitingSound == Sound(Waiting) /\ Staged(Waiting)
BY RecordsAssumption DEF Sound, Staged, Waiting, Zero, Counter

LEMMA SameSound ==
    ASSUME NEW j, NEW k, Sound(j), SameSession(j, k)
    PROVE  Sound(k)
BY DEF Sound, SameSession

(* Reading a row keeps the rest as it is.                                  *)
LEMMA LookSound ==
    ASSUME records \in Columns, recorded \in Counters, Balanced,
           NEW j \in Job, Sound(j), NEW t \in Table
    PROVE  Sound(Look(j, t))
<1> DEFINE k == Look(j, t)
<1>1. CASE t \in j.read
  <2>1. k = j
    BY <1>1, LookFields
  <2> QED
    BY <2>1
<1>2. CASE t \notin j.read
  <2>1. /\ k.changed = j.changed /\ k.added = j.added
        /\ k.read = j.read \cup {t} /\ k.stale = j.stale \ {t}
        /\ \A c \in DOMAIN records : k.mine[c] = IF c \in ColumnsOf(t) THEN records[c] ELSE j.mine[c]
    BY <1>2, LookFields
  <2>2. \A c \in Counter : c \in DOMAIN records /\ records[c] \in Nat /\ recorded[c] \in Nat
    BY DEF Counter, Columns, Counters
  <2>3. \A c \in ColumnsOf(t) \cap Counter : j.added[c] = 0
    BY <1>2 DEF Sound
  <2>4. "status" \in DOMAIN records
    BY DEF Columns
  <2> HIDE DEF k
  <2>5. \A u \in k.read : \A c \in ColumnsOf(u) \cap Counter :
          /\ k.mine[c] <= recorded[c] + k.added[c]
          /\ u \notin k.stale => k.mine[c] = records[c] + k.added[c]
    <3> TAKE u \in k.read
    <3> TAKE c \in ColumnsOf(u) \cap Counter
    <3>1. CASE u = t
      BY <2>1, <2>2, <2>3, <3>1 DEF Balanced
    <3>2. CASE u # t
      <4>1. u \in j.read /\ c \notin ColumnsOf(t) /\ (u \notin k.stale => u \notin j.stale)
        BY <2>1, <3>2, JobParts, ColumnsParts
      <4>2. k.mine[c] = j.mine[c]
        BY <2>1, <2>2, <4>1
      <4> QED
        BY <2>1, <4>1, <4>2 DEF Sound
    <3> QED
      BY <3>1, <3>2
  <2>6. "health" \in k.read \ k.stale /\ "status" \notin k.changed =>
          k.mine["status"] = records["status"]
    <3>1. CASE t = "health"
      BY <2>1, <2>4, <3>1, ColumnsParts
    <3>2. CASE t # "health"
      BY <2>1, <2>4, <3>2, ColumnsParts DEF Sound
    <3> QED
      BY <3>1, <3>2
  <2>7. \A u \in Table \ k.read : ColumnsOf(u) \cap k.changed = {}
    BY <2>1 DEF Sound
  <2>8. \A c \in Counter \ k.changed : k.added[c] = 0
    BY <2>1 DEF Sound
  <2>9. k.added["failed"] <= k.added["total"]
    BY <2>1 DEF Sound
  <2>10. Sound(k)
    BY <2>5, <2>6, <2>7, <2>8, <2>9 DEF Sound
  <2> QED
    BY <2>10 DEF k
<1> QED
  BY <1>1, <1>2

(* Counting what is written keeps it too.                                  *)
LEMMA GainSound ==
    ASSUME records \in Columns, recorded \in Counters, NEW j \in Job, NEW k \in Job, Sound(j),
           NEW t \in j.read, NEW gain \in [Counter -> {0, 1}],
           k.read = j.read, k.stale = j.stale,
           j.changed \subseteq k.changed, k.changed \subseteq j.changed \cup ColumnsOf(t),
           \A c \in Counter : k.mine[c] = j.mine[c] + gain[c] /\ k.added[c] = j.added[c] + gain[c],
           \A c \in Counter \ k.changed : gain[c] = 0,
           "status" \notin k.changed => k.mine["status"] = j.mine["status"],
           gain["failed"] <= gain["total"]
    PROVE  Sound(k)
<1>1. \A c \in Counter : /\ j.mine[c] \in Nat /\ j.added[c] \in Nat
                         /\ records[c] \in Nat /\ recorded[c] \in Nat /\ gain[c] \in {0, 1}
  BY JobParts DEF Columns, Counters, Counter
<1>2. \A u \in Table \ k.read : ColumnsOf(u) \cap k.changed = {}
  <2>1. \A u \in Table \ {t} : ColumnsOf(u) \cap ColumnsOf(t) = {}
    BY ColumnsParts, JobParts
  <2> QED
    BY <2>1 DEF Sound
<1>3. \A c \in Counter \ k.changed : k.added[c] = 0
  BY <1>1 DEF Sound
<1>4. \A u \in k.read : \A c \in ColumnsOf(u) \cap Counter :
          /\ k.mine[c] <= recorded[c] + k.added[c]
          /\ u \notin k.stale => k.mine[c] = records[c] + k.added[c]
  <2> TAKE u \in k.read
  <2> TAKE c \in ColumnsOf(u) \cap Counter
  <2>1. /\ j.mine[c] <= recorded[c] + j.added[c]
        /\ u \notin k.stale => j.mine[c] = records[c] + j.added[c]
    BY DEF Sound
  <2>2. k.mine[c] = j.mine[c] + gain[c] /\ k.added[c] = j.added[c] + gain[c]
    OBVIOUS
  <2>3. /\ j.mine[c] \in Nat /\ j.added[c] \in Nat
        /\ records[c] \in Nat /\ recorded[c] \in Nat /\ gain[c] \in Nat
    BY <1>1
  <2> HIDE DEF Sound
  <2> QED
    BY <2>1, <2>2, <2>3
<1>5. "health" \in k.read \ k.stale /\ "status" \notin k.changed =>
          k.mine["status"] = records["status"]
  BY DEF Sound
<1>6. k.added["failed"] <= k.added["total"]
  <2>1. j.added["failed"] <= j.added["total"] /\ "failed" \in Counter /\ "total" \in Counter
    BY DEF Sound, Counter
  <2> QED
    BY <1>1, <2>1
<1> QED
  BY <1>2, <1>3, <1>4, <1>5, <1>6 DEF Sound

LEMMA UsedSound ==
    ASSUME records \in Columns, recorded \in Counters,
           NEW j \in Job, Sound(j), "budget" \in j.read
    PROVE  Sound(Used(j))
<1> DEFINE k == Used(j)
           gain == [c \in Counter |-> IF c = "used" THEN 1 ELSE 0]
<1>1. /\ k \in Job /\ k.read = j.read /\ k.stale = j.stale
      /\ k.mine = [j.mine EXCEPT !.used = j.mine.used + 1]
      /\ k.added = [j.added EXCEPT !.used = j.added.used + 1]
      /\ k.changed = j.changed \cup {"used"}
  BY UsedFields
<1>2. /\ \A c \in Counter : k.mine[c] = j.mine[c] + gain[c] /\ k.added[c] = j.added[c] + gain[c]
      /\ k.mine["status"] = j.mine["status"]
  BY <1>1, JobParts DEF Columns, Counters, Counter
<1>3. /\ gain \in [Counter -> {0, 1}] /\ gain["failed"] <= gain["total"]
      /\ \A c \in Counter \ k.changed : gain[c] = 0
  BY <1>1 DEF Counter
<1>4. k.changed \subseteq j.changed \cup ColumnsOf("budget")
  BY <1>1, ColumnsParts
<1> HIDE DEF k, gain
<1>5. Sound(k)
  BY <1>1, <1>2, <1>3, <1>4, GainSound
<1> QED
  BY <1>5 DEF k

LEMMA BlamedSound ==
    ASSUME records \in Columns, recorded \in Counters,
           NEW j \in Job, Sound(j), "health" \in j.read
    PROVE  Sound(Blamed(j))
<1> DEFINE k == Blamed(j)
           gain == [c \in Counter |-> IF c = "used" THEN 0 ELSE 1]
<1>1. /\ k \in Job /\ k.read = j.read /\ k.stale = j.stale
      /\ k.mine = [j.mine EXCEPT !.total = j.mine.total + 1, !.failed = j.mine.failed + 1,
                                 !.status = "DEGRADED"]
      /\ k.added = [j.added EXCEPT !.total = j.added.total + 1, !.failed = j.added.failed + 1]
      /\ k.changed = j.changed \cup {"total", "failed"}
                     \cup (IF j.mine.status = "DEGRADED" THEN {} ELSE {"status"})
  BY BlamedFields
<1>2. /\ \A c \in Counter : k.mine[c] = j.mine[c] + gain[c] /\ k.added[c] = j.added[c] + gain[c]
      /\ "status" \notin k.changed => k.mine["status"] = j.mine["status"]
  BY <1>1, JobParts DEF Columns, Counters, Counter
<1>3. /\ gain \in [Counter -> {0, 1}] /\ gain["failed"] <= gain["total"]
      /\ \A c \in Counter \ k.changed : gain[c] = 0
  BY <1>1 DEF Counter
<1>4. k.changed \subseteq j.changed \cup ColumnsOf("health")
  BY <1>1, ColumnsParts
<1> HIDE DEF k, gain
<1>5. /\ k \in Job /\ k.read = j.read /\ k.stale = j.stale
      /\ j.changed \subseteq k.changed
  BY <1>1
<1>6. PICK t \in j.read : t = "health"
  OBVIOUS
<1>7. k.changed \subseteq j.changed \cup ColumnsOf(t)
  BY <1>4, <1>6
<1>8. Sound(k)
  BY <1>2, <1>3, <1>5, <1>7, GainSound, Zenon
<1> QED
  BY <1>8 DEF k

LEMMA PraisedSound ==
    ASSUME records \in Columns, recorded \in Counters, NEW b \in Batch,
           NEW j \in Job, Sound(j), "health" \in j.read
    PROVE  Sound(Praised(b, j))
<1> DEFINE k == Praised(b, j)
           gain == [c \in Counter |-> IF c = "total" THEN 1 ELSE 0]
           verdict == VerdictOf(b, j.got)
<1>1. /\ k \in Job /\ k.read = j.read /\ k.stale = j.stale
      /\ k.mine = [j.mine EXCEPT !.total = j.mine.total + 1, !.status = verdict]
      /\ k.added = [j.added EXCEPT !.total = j.added.total + 1]
      /\ k.changed = j.changed \cup {"total"} \cup (IF j.mine.status = verdict THEN {} ELSE {"status"})
  BY PraisedFields
<1> HIDE DEF verdict
<1>2. /\ \A c \in Counter : k.mine[c] = j.mine[c] + gain[c] /\ k.added[c] = j.added[c] + gain[c]
      /\ "status" \notin k.changed => k.mine["status"] = j.mine["status"]
  BY <1>1, JobParts DEF Columns, Counters, Counter
<1>3. /\ gain \in [Counter -> {0, 1}] /\ gain["failed"] <= gain["total"]
      /\ \A c \in Counter \ k.changed : gain[c] = 0
  BY <1>1 DEF Counter
<1>4. k.changed \subseteq j.changed \cup ColumnsOf("health")
  BY <1>1, ColumnsParts
<1> HIDE DEF k, gain
<1>5. Sound(k)
  BY <1>1, <1>2, <1>3, <1>4, GainSound
<1> QED
  BY <1>5 DEF k

-----------------------------------------------------------------------------
(* Steps.                                                                  *)

(* A step that commits nothing.                                            *)
LEMMA MoveStep ==
    ASSUME RecordsInv, NEW b \in Batch, NEW k \in Job, Moved(b, k), Sound(k), Staged(k),
           owner' \in [Table -> Batch \cup {"nobody"}]
    PROVE  RecordsInv'
<1>1. /\ batch' = [batch EXCEPT ![b] = k]
      /\ UNCHANGED <<records, stored, recorded, crossed, lastGood>>
  BY DEF Moved
<1>2. RecordsTypeOK'
  BY <1>1 DEF RecordsInv, RecordsTypeOK
<1>3. \A a \in Batch : batch'[a] = IF a = b THEN k ELSE batch[a]
  BY <1>1 DEF RecordsInv, RecordsTypeOK
<1>4. \A j : Sound(j) => Sound(j)'
  BY <1>1 DEF Sound
<1>5. ASSUME NEW a \in Batch
      PROVE  Sound(batch[a])' /\ Staged(batch[a])'
  <2>1. Sound(batch'[a]) /\ Staged(batch'[a])
    BY <1>3 DEF RecordsInv
  <2> QED
    BY <2>1, <1>1 DEF Sound, Staged
<1>6. Balanced' /\ HealthyWasAnswered'
  BY <1>1 DEF RecordsInv, Balanced, HealthyWasAnswered
<1> QED
  BY <1>2, <1>5, <1>6 DEF RecordsInv

(* The types of a commit.                                                  *)
LEMMA CommitType ==
    ASSUME RecordsInv, NEW b \in Batch, NEW j \in Job, Committed(b, j)
    PROVE  /\ RecordsTypeOK'
           /\ \A c \in DOMAIN records : records'[c] = IF c \in j.changed THEN j.mine[c] ELSE records[c]
           /\ \A c \in Counter : recorded'[c] = recorded[c] + j.added[c]
           /\ DOMAIN records = {"status", "total", "failed", "used"}
<1>1. /\ records \in Columns /\ recorded \in Counters
      /\ j.mine \in Columns /\ j.added \in Counters
  BY JobParts DEF RecordsInv, RecordsTypeOK
<1>2. /\ records' = [c \in DOMAIN records |-> IF c \in j.changed THEN j.mine[c] ELSE records[c]]
      /\ recorded' = [c \in DOMAIN recorded |-> recorded[c] + j.added[c]]
  BY DEF Committed
<1>3. DOMAIN records = {"status", "total", "failed", "used"} /\ DOMAIN recorded = Counter
  BY <1>1 DEF Columns, Counters, Counter
<1>4. records' \in Columns /\ recorded' \in Counters
  BY <1>1, <1>2 DEF Columns, Counters
<1>5. stored' \subseteq Table /\ owner' \in [Table -> Batch \cup {"nobody"}]
  BY DEF Committed, RecordsInv, RecordsTypeOK
<1>6. crossed' \in BOOLEAN /\ lastGood' \in BOOLEAN
  BY DEF Committed, RecordsInv, RecordsTypeOK
<1>7. batch' \in [Batch -> Job]
  <2> DEFINE T == {t \in Table : ColumnsOf(t) \cap j.changed # {}}
  <2>1. [Waiting EXCEPT !.stage = "done"] \in Job
    BY WaitingType, JobStage DEF Stage
  <2>2. ASSUME NEW a \in Batch
        PROVE  [batch[a] EXCEPT !.stale = @ \cup T] \in Job
    <3>1. batch[a] \in Job /\ batch[a].stale \cup T \in SUBSET Table
      BY JobParts DEF RecordsInv, RecordsTypeOK
    <3> HIDE DEF T
    <3> QED
      BY Zenon, <3>1, JobStale
  <2>3. batch' = [a \in Batch |-> IF a = b THEN [Waiting EXCEPT !.stage = "done"]
                                 ELSE [batch[a] EXCEPT !.stale = @ \cup T]]
    BY DEF Committed
  <2> HIDE DEF T
  <2> QED
    BY <2>1, <2>2, <2>3
<1> QED
  BY <1>2, <1>3, <1>4, <1>5, <1>6, <1>7 DEF RecordsTypeOK

(* What the other batches hold when one commits.                           *)
LEMMA CommitOthers ==
    ASSUME RecordsInv, NEW b \in Batch, NEW j \in Job, Committed(b, j), NEW a \in Batch \ {b}
    PROVE  Sound(batch[a])' /\ Staged(batch[a])'
<1> DEFINE T == {t \in Table : ColumnsOf(t) \cap j.changed # {}}
           i == batch[a]
           k == batch'[a]
<1>1. i \in Job /\ Sound(i) /\ Staged(i)
  BY DEF RecordsInv, RecordsTypeOK
<1>2. k = [i EXCEPT !.stale = i.stale \cup T]
  BY DEF Committed
<1>3. /\ k.read = i.read /\ k.mine = i.mine /\ k.changed = i.changed /\ k.added = i.added
      /\ k.stale = i.stale \cup T
      /\ k.stage = i.stage /\ k.left = i.left /\ k.got = i.got /\ k.last = i.last
  BY <1>1, <1>2 DEF Job
<1>4. \A t \in Table \ T : \A c \in ColumnsOf(t) : records'[c] = records[c]
  BY CommitType, ColumnsParts
<1>5. \A c \in Counter : /\ recorded'[c] = recorded[c] + j.added[c]
                         /\ j.added[c] \in Nat /\ recorded[c] \in Nat
                         /\ i.mine[c] \in Nat /\ i.added[c] \in Nat
  BY <1>1, JobParts, CommitType DEF RecordsInv, RecordsTypeOK, Counters, Columns, Counter
<1>6. i.read \subseteq Table
  BY <1>1, JobParts
<1> HIDE DEF i, k, T
<1>7. \A t \in k.read : \A c \in ColumnsOf(t) \cap Counter :
          /\ k.mine[c] <= recorded'[c] + k.added[c]
          /\ t \notin k.stale => k.mine[c] = records'[c] + k.added[c]
  <2> TAKE t \in k.read
  <2> TAKE c \in ColumnsOf(t) \cap Counter
  <2>1. /\ i.mine[c] <= recorded[c] + i.added[c]
        /\ t \notin i.stale => i.mine[c] = records[c] + i.added[c]
    BY <1>1, <1>3 DEF Sound
  <2>2. t \notin k.stale => t \notin i.stale /\ records'[c] = records[c]
    BY <1>3, <1>4, <1>6
  <2>3. recorded[c] <= recorded'[c] /\ recorded'[c] \in Nat
    BY <1>5
  <2>4. i.mine[c] <= recorded'[c] + i.added[c]
    BY <1>5, <2>1, <2>3
  <2> QED
    BY <1>3, <2>1, <2>2, <2>4
<1>8. "health" \in k.read \ k.stale /\ "status" \notin k.changed =>
          k.mine["status"] = records'["status"]
  BY <1>1, <1>3, <1>4, <1>6, ColumnsParts DEF Sound
<1>9. /\ \A t \in Table \ k.read : ColumnsOf(t) \cap k.changed = {}
      /\ \A c \in Counter \ k.changed : k.added[c] = 0
      /\ k.added["failed"] <= k.added["total"]
  BY <1>1, <1>3 DEF Sound
<1>10. Staged(k)
  BY <1>1, <1>3 DEF Staged
<1> QED
  BY <1>7, <1>8, <1>9, <1>10 DEF Sound, Staged, k

(* The commit: unless it crosses another, the row becomes what was         *)
(* recorded, and the verdict that of its batch.                            *)
LEMMA CommitStep ==
    ASSUME RecordsInv, NEW b \in Batch, NEW j \in Job, Committed(b, j), Sound(j),
           "health" \in j.read, "total" \in j.changed,
           j.mine["status"] = "HEALTHY" => j.got > 0 /\ ~j.last
    PROVE  RecordsInv'
<1>1. /\ \A c \in DOMAIN records : records'[c] = IF c \in j.changed THEN j.mine[c] ELSE records[c]
      /\ \A c \in Counter : recorded'[c] = recorded[c] + j.added[c]
      /\ DOMAIN records = {"status", "total", "failed", "used"}
      /\ RecordsTypeOK'
  BY CommitType
<1>2. \A c \in Counter : /\ records[c] \in Nat /\ recorded[c] \in Nat
                         /\ j.mine[c] \in Nat /\ j.added[c] \in Nat
  BY JobParts DEF RecordsInv, RecordsTypeOK, Counters, Columns, Counter
<1>3. /\ crossed' = (crossed \/ \E t \in j.stale : ColumnsOf(t) \cap j.changed # {})
      /\ lastGood' = (j.got > 0 /\ ~j.last)
  BY DEF Committed
<1>4. Balanced'
  <2>1. ASSUME NEW c \in Counter
        PROVE  records'[c] <= recorded'[c] /\ (~crossed' => records'[c] = recorded'[c])
    <3>1. c \in DOMAIN records
      BY <1>1 DEF Counter
    <3>2. CASE c \notin j.changed
      <4>1. j.added[c] = 0 /\ records'[c] = records[c]
        BY <1>1, <3>1, <3>2 DEF Sound
      <4>2. records[c] <= recorded[c] /\ (~crossed => records[c] = recorded[c])
        BY DEF RecordsInv, Balanced
      <4>3. recorded'[c] = recorded[c]
        BY <1>1, <1>2, <4>1
      <4>4. ~crossed' => ~crossed
        BY <1>3
      <4> QED
        BY <4>1, <4>2, <4>3, <4>4
    <3>3. CASE c \in j.changed
      <4>1. PICK t \in Table : c \in ColumnsOf(t)
        BY ColumnsParts
      <4>2. t \in j.read
        BY <3>3, <4>1 DEF Sound
      <4>3. ~crossed' => t \notin j.stale /\ ~crossed
        BY <1>3, <3>3, <4>1
      <4>4. /\ j.mine[c] <= recorded[c] + j.added[c]
            /\ ~crossed' => j.mine[c] = records[c] + j.added[c] /\ records[c] = recorded[c]
        BY <4>1, <4>2, <4>3 DEF Sound, RecordsInv, Balanced
      <4>5. records'[c] = j.mine[c]
        BY <1>1, <3>1, <3>3
      <4> QED
        BY <1>1, <1>2, <4>4, <4>5
    <3> QED
      BY <3>2, <3>3
  <2>2. recorded'["failed"] <= recorded'["total"]
    <3>1. /\ recorded["failed"] <= recorded["total"] /\ j.added["failed"] <= j.added["total"]
          /\ "failed" \in Counter /\ "total" \in Counter
      BY DEF Sound, RecordsInv, Balanced, Counter
    <3> QED
      BY <1>1, <1>2, <3>1
  <2> QED
    BY <2>1, <2>2 DEF Balanced
<1>5. HealthyWasAnswered'
  <2> SUFFICES ASSUME records'.status = "HEALTHY", ~crossed'
               PROVE  lastGood'
    BY DEF HealthyWasAnswered
  <2>1. "health" \notin j.stale
    BY <1>3, ColumnsParts
  <2>2. records'["status"] = j.mine["status"]
    BY <1>1, <2>1 DEF Sound
  <2>3. records'["status"] = records'.status
    BY <1>1 DEF RecordsTypeOK, Columns
  <2> QED
    BY <1>3, <2>2, <2>3
<1>6. \A a \in Batch : Sound(batch[a])' /\ Staged(batch[a])'
  <2>1. Sound(batch[b])' /\ Staged(batch[b])'
    <3> DEFINE k == [Waiting EXCEPT !.stage = "done"]
    <3>1. batch'[b] = k
      BY DEF Committed
    <3>2. /\ SameSession(Waiting, k) /\ k.stage = "done"
          /\ k.left = Waiting.left /\ k.got = Waiting.got /\ k.last = Waiting.last
      BY WaitingType, JobStage DEF Stage
    <3>3. /\ k.read = {} /\ k.changed = {} /\ k.added = Zero /\ k.left = 0 /\ k.got = 0 /\ ~k.last
      BY <3>2 DEF Waiting, SameSession
    <3> HIDE DEF k
    <3> QED
      BY <3>1, <3>2, <3>3, RecordsAssumption DEF Sound, Staged, Zero, Counter
  <2> QED
    BY <2>1, CommitOthers
<1> QED
  BY <1>1, <1>4, <1>5, <1>6 DEF RecordsInv

-----------------------------------------------------------------------------
(* Actions.                                                                *)

LEMMA BatchParts ==
    ASSUME RecordsInv, NEW b \in Batch
    PROVE  /\ records \in Columns /\ recorded \in Counters /\ Balanced
           /\ batch[b] \in Job /\ Sound(batch[b]) /\ Staged(batch[b])
           /\ owner \in [Table -> Batch \cup {"nobody"}]
           /\ batch[b].left \in 0..MaxRequests /\ batch[b].got \in 0..MaxRequests
           /\ batch[b].last \in BOOLEAN
BY JobParts DEF RecordsInv, RecordsTypeOK, Job

LEMMA StartStep == ASSUME RecordsInv, NEW b \in Batch, StartBatch(b) PROVE RecordsInv'
<1>1. PICK n \in 0..MaxRequests : Moved(b, [Waiting EXCEPT !.stage = "request", !.left = n])
  BY DEF StartBatch
<1> DEFINE k == [Waiting EXCEPT !.stage = "request", !.left = n]
<1>2. /\ k \in Job /\ SameSession(Waiting, k)
      /\ k.stage = "request" /\ k.left = n /\ k.got = 0 /\ ~k.last
  <2>1. "request" \in Stage
    BY DEF Stage
  <2>2. Waiting.got = 0 /\ ~Waiting.last
    BY DEF Waiting
  <2>3. /\ k \in Job /\ SameSession(Waiting, k)
        /\ k.stage = "request" /\ k.left = n /\ k.got = Waiting.got /\ k.last = Waiting.last
    <3>1. PICK j \in Job, s \in Stage : j = Waiting /\ s = "request"
      BY WaitingType, <2>1
    <3>2. k = [j EXCEPT !.stage = s, !.left = n]
      BY <3>1
    <3>3. [j EXCEPT !.stage = s, !.left = n] \in Job
      BY Zenon DEF Job, Stage
    <3>4. k \in Job
      BY <3>2, <3>3
    <3>5. SameSession(j, k) /\ k.stage = s /\ k.left = n /\ k.got = j.got /\ k.last = j.last
      BY <3>2, <3>3 DEF Job, SameSession
    <3> HIDE DEF k
    <3> QED
      BY <3>1, <3>4, <3>5
  <2> HIDE DEF k
  <2> QED
    BY <2>2, <2>3
<1> HIDE DEF k
<1>3. Sound(k)
  BY <1>2, WaitingSound, SameSound
<1>4. Staged(k)
  BY <1>2, RecordsAssumption DEF Staged
<1>5. owner' \in [Table -> Batch \cup {"nobody"}]
  BY BatchParts DEF StartBatch
<1> QED
  BY <1>1, <1>2, <1>3, <1>4, <1>5, MoveStep DEF k

LEMMA AnsweredStep == ASSUME RecordsInv, NEW b \in Batch, Answered(b) PROVE RecordsInv'
<1> DEFINE i == Look(batch[b], "budget")
           j == [i EXCEPT !.stage = "count"]
<1>1. /\ i \in Job /\ Sound(i) /\ i.left = batch[b].left /\ i.got = batch[b].got
      /\ i.last = batch[b].last /\ "budget" \in i.read
  BY BatchParts, LookFields, LookSound DEF Table
<1>2. /\ batch[b].stage = "request" /\ batch[b].left > 0
      /\ owner' \in [Table -> Batch \cup {"nobody"}]
  BY BatchParts DEF Answered, Requesting
<1>3. /\ batch[b].got + batch[b].left <= MaxRequests /\ ~batch[b].last
      /\ batch[b].got + 1 \in 0..MaxRequests
  BY <1>2, BatchParts, RecordsAssumption DEF Staged
<1>4. \/ Moved(b, [j EXCEPT !.got = j.got + 1])
      \/ \E n \in {1, j.left} : Moved(b, [j EXCEPT !.left = n])
  BY DEF Answered
<1> HIDE DEF i
<1>5. /\ j \in Job /\ SameSession(i, j) /\ j.stage = "count" /\ j.left = i.left
      /\ j.got = i.got /\ j.last = i.last
  BY <1>1, JobStage DEF Stage
<1> HIDE DEF j
<1>6. Sound(j) /\ "budget" \in j.read
  BY <1>1, <1>5, SameSound DEF SameSession
<1>7. ASSUME Moved(b, [j EXCEPT !.got = j.got + 1])
      PROVE  RecordsInv'
  <2> DEFINE k == [j EXCEPT !.got = j.got + 1]
  <2>1. /\ k \in Job /\ SameSession(j, k)
        /\ k.stage = j.stage /\ k.left = j.left /\ k.got = j.got + 1 /\ k.last = j.last
    BY <1>1, <1>3, <1>5, JobGot
  <2> HIDE DEF k
  <2>2. Sound(k) /\ "budget" \in k.read
    BY <1>6, <2>1, SameSound DEF SameSession
  <2>3. Staged(k)
    BY <1>1, <1>2, <1>3, <1>5, <2>1, <2>2, BatchParts, RecordsAssumption DEF Staged
  <2> QED
    BY <1>2, <1>7, <2>1, <2>2, <2>3, MoveStep DEF k
<1>8. ASSUME NEW n \in {1, j.left}, Moved(b, [j EXCEPT !.left = n])
      PROVE  RecordsInv'
  <2> DEFINE k == [j EXCEPT !.left = n]
  <2>0. n \in 0..MaxRequests /\ n > 0 /\ n <= batch[b].left
    BY <1>1, <1>2, <1>5, BatchParts, RecordsAssumption
  <2>1. /\ k \in Job /\ SameSession(j, k)
        /\ k.stage = j.stage /\ k.left = n /\ k.got = j.got /\ k.last = j.last
    BY <1>5, <2>0, JobLeft
  <2> HIDE DEF k
  <2>2. Sound(k) /\ "budget" \in k.read
    BY <1>6, <2>1, SameSound DEF SameSession
  <2>3. Staged(k)
    BY <1>1, <1>2, <1>3, <1>5, <2>0, <2>1, <2>2, BatchParts, RecordsAssumption DEF Staged
  <2> QED
    BY <1>2, <1>8, <2>1, <2>2, <2>3, MoveStep DEF k
<1> QED
  BY <1>4, <1>7, <1>8

LEMMA CountStep == ASSUME RecordsInv, NEW b \in Batch, Count(b) PROVE RecordsInv'
<1> DEFINE j == Used(batch[b])
           k == [j EXCEPT !.stage = "request", !.left = j.left - 1]
<1>1. /\ batch[b].stage = "count" /\ "budget" \in batch[b].read /\ batch[b].left > 0
      /\ batch[b].got + batch[b].left <= MaxRequests + 1 /\ ~batch[b].last
  BY BatchParts DEF Count, Staged
<1>2. /\ j \in Job /\ Sound(j) /\ j.left = batch[b].left /\ j.got = batch[b].got
      /\ j.last = batch[b].last
  BY <1>1, BatchParts, UsedFields, UsedSound
<1>3. Moved(b, k) /\ owner' = [owner EXCEPT !["budget"] = b]
  BY DEF Count
<1> HIDE DEF j
<1>4. PICK n \in 0..MaxRequests : n = j.left - 1
  BY <1>1, <1>2, BatchParts, RecordsAssumption
<1> DEFINE i == [j EXCEPT !.stage = "request"]
         m == [i EXCEPT !.left = n]
<1>i. /\ i \in Job /\ SameSession(j, i)
      /\ i.stage = "request" /\ i.got = j.got /\ i.last = j.last
  BY <1>2, JobStage DEF Stage
<1>m. /\ m \in Job /\ SameSession(i, m)
      /\ m.stage = i.stage /\ m.left = n /\ m.got = i.got /\ m.last = i.last
  <2> HIDE DEF i
  <2> QED
    BY <1>i, JobLeft
<1>k. k = m
  BY <1>4
<1> HIDE DEF i, m
<1>5. /\ k \in Job /\ SameSession(j, k)
      /\ k.stage = "request" /\ k.left = j.left - 1 /\ k.got = j.got /\ k.last = j.last
  BY <1>4, <1>i, <1>m, <1>k DEF SameSession
<1> HIDE DEF k
<1>6. Staged(k)
  BY <1>1, <1>2, <1>5, BatchParts, RecordsAssumption DEF Staged
<1>7. owner' \in [Table -> Batch \cup {"nobody"}]
  BY <1>3, BatchParts
<1> QED
  BY <1>2, <1>3, <1>5, <1>6, <1>7, SameSound, MoveStep

LEMMA HotFailedStep == ASSUME RecordsInv, NEW b \in Batch, HotFailed(b) PROVE RecordsInv'
<1> DEFINE i == Look(batch[b], "health")
           j == [i EXCEPT !.stage = "blame"]
<1>1. /\ i \in Job /\ Sound(i) /\ i.left = batch[b].left /\ i.got = batch[b].got
      /\ i.last = batch[b].last /\ "health" \in i.read
  BY BatchParts, LookFields, LookSound DEF Table
<1>2. /\ batch[b].stage = "request" /\ batch[b].left > 0
      /\ owner' \in [Table -> Batch \cup {"nobody"}]
  BY BatchParts DEF HotFailed, Requesting
<1>3. /\ batch[b].got + batch[b].left <= MaxRequests /\ ~batch[b].last
      /\ batch[b].got + 1 \in 0..MaxRequests
  BY <1>2, BatchParts, RecordsAssumption DEF Staged
<1>4. \/ Moved(b, j)
      \/ Moved(b, [j EXCEPT !.got = j.got + 1])
      \/ Moved(b, [j EXCEPT !.last = TRUE])
  BY DEF HotFailed
<1> HIDE DEF i
<1>5. /\ j \in Job /\ SameSession(i, j) /\ j.stage = "blame" /\ j.left = i.left
      /\ j.got = i.got /\ j.last = i.last
  BY <1>1, JobStage DEF Stage
<1> HIDE DEF j
<1>6. Sound(j) /\ "health" \in j.read
  BY <1>1, <1>5, SameSound DEF SameSession
<1>7. ASSUME Moved(b, j)
      PROVE  RecordsInv'
  <2>1. Staged(j)
    BY <1>1, <1>2, <1>3, <1>5, <1>6, BatchParts, RecordsAssumption DEF Staged
  <2> QED
    BY <1>2, <1>5, <1>6, <1>7, <2>1, MoveStep
<1>8. ASSUME Moved(b, [j EXCEPT !.got = j.got + 1])
      PROVE  RecordsInv'
  <2> DEFINE k == [j EXCEPT !.got = j.got + 1]
  <2>1. /\ k \in Job /\ SameSession(j, k)
        /\ k.stage = j.stage /\ k.left = j.left /\ k.got = j.got + 1 /\ k.last = j.last
    BY <1>1, <1>3, <1>5, JobGot
  <2> HIDE DEF k
  <2>2. Sound(k) /\ "health" \in k.read
    BY <1>6, <2>1, SameSound DEF SameSession
  <2>3. Staged(k)
    BY <1>1, <1>2, <1>3, <1>5, <2>1, <2>2, BatchParts, RecordsAssumption DEF Staged
  <2> QED
    BY <1>2, <1>8, <2>1, <2>2, <2>3, MoveStep DEF k
<1>9. ASSUME Moved(b, [j EXCEPT !.last = TRUE])
      PROVE  RecordsInv'
  <2> DEFINE k == [j EXCEPT !.last = TRUE]
  <2>1. /\ k \in Job /\ SameSession(j, k)
        /\ k.stage = j.stage /\ k.left = j.left /\ k.got = j.got /\ k.last
    BY <1>5, JobLast
  <2> HIDE DEF k
  <2>2. Sound(k) /\ "health" \in k.read
    BY <1>6, <2>1, SameSound DEF SameSession
  <2>3. Staged(k)
    BY <1>1, <1>2, <1>3, <1>5, <2>1, <2>2, BatchParts, RecordsAssumption DEF Staged
  <2> QED
    BY <1>2, <1>9, <2>1, <2>2, <2>3, MoveStep DEF k
<1> QED
  BY <1>4, <1>7, <1>8, <1>9

LEMMA CatalogueFailedStep == ASSUME RecordsInv, NEW b \in Batch, CatalogueFailed(b) PROVE RecordsInv'
<1> DEFINE i == Look(Waiting, "health")
           k == [i EXCEPT !.stage = "blame", !.last = TRUE]
<1>1. /\ i \in Job /\ Sound(i) /\ i.left = 0 /\ i.got = 0 /\ "health" \in i.read
  BY BatchParts, WaitingType, WaitingSound, LookFields, LookSound DEF Table, Waiting
<1>2. /\ Moved(b, k)
      /\ owner' = [t \in Table |-> IF owner[t] = b THEN "nobody" ELSE owner[t]]
  BY DEF CatalogueFailed
<1> HIDE DEF i
<1>3. /\ k \in Job /\ SameSession(i, k)
      /\ k.stage = "blame" /\ k.left = i.left /\ k.got = i.got /\ k.last
  BY <1>1, JobStageLast DEF Stage
<1> HIDE DEF k
<1>4. Sound(k) /\ "health" \in k.read
  BY <1>1, <1>3, SameSound DEF SameSession
<1>5. Staged(k)
  BY <1>1, <1>3, <1>4, RecordsAssumption DEF Staged
<1>6. owner' \in [Table -> Batch \cup {"nobody"}]
  BY <1>2, BatchParts
<1> QED
  BY <1>2, <1>3, <1>4, <1>5, <1>6, MoveStep

LEMMA BlameStep == ASSUME RecordsInv, NEW b \in Batch, Blame(b) PROVE RecordsInv'
<1> DEFINE j == Blamed(batch[b])
           k == [j EXCEPT !.stage = "request", !.left = j.left - 1]
<1>1. /\ batch[b].stage = "blame" /\ "health" \in batch[b].read
      /\ ~batch[b].last => batch[b].left > 0
      /\ batch[b].got + batch[b].left <= MaxRequests + 1
  BY BatchParts DEF Blame, Staged
<1>2. /\ j \in Job /\ Sound(j) /\ j.left = batch[b].left /\ j.got = batch[b].got
      /\ j.last = batch[b].last /\ "health" \in j.read
      /\ "total" \in j.changed
  BY <1>1, BatchParts, BlamedFields, BlamedSound
<1>3. j.mine["status"] = "DEGRADED"
  <2>1. j.mine = [batch[b].mine EXCEPT !.total = batch[b].mine.total + 1,
                                       !.failed = batch[b].mine.failed + 1, !.status = "DEGRADED"]
    BY BatchParts, BlamedFields
  <2> QED
    BY <2>1, BatchParts, JobParts DEF Columns
<1>4. IF j.last THEN Committed(b, j)
      ELSE owner' = [owner EXCEPT !["health"] = b] /\ Moved(b, k)
  BY DEF Blame
<1> HIDE DEF j
<1>5. CASE j.last
  BY <1>2, <1>3, <1>4, <1>5, CommitStep
<1>6. CASE ~j.last
  <2>1. PICK n \in 0..MaxRequests : n = j.left - 1
    BY <1>1, <1>2, <1>6, BatchParts, RecordsAssumption
  <2> DEFINE i == [j EXCEPT !.stage = "request"]
           m == [i EXCEPT !.left = n]
  <2>i. /\ i \in Job /\ SameSession(j, i)
        /\ i.stage = "request" /\ i.got = j.got /\ i.last = j.last
    BY <1>2, JobStage DEF Stage
  <2>m. /\ m \in Job /\ SameSession(i, m)
        /\ m.stage = i.stage /\ m.left = n /\ m.got = i.got /\ m.last = i.last
    <3> HIDE DEF i
    <3> QED
      BY <2>i, JobLeft
  <2>k. k = m
    BY <2>1
  <2> HIDE DEF i, m
  <2>2. /\ k \in Job /\ SameSession(j, k)
        /\ k.stage = "request" /\ k.left = j.left - 1 /\ k.got = j.got /\ k.last = j.last
    BY <2>1, <2>i, <2>m, <2>k DEF SameSession
  <2> HIDE DEF k
  <2>3. Staged(k)
    BY <1>1, <1>2, <1>6, <2>2, BatchParts, RecordsAssumption DEF Staged
  <2>4. owner' \in [Table -> Batch \cup {"nobody"}]
    BY <1>4, <1>6, BatchParts
  <2> QED
    BY <1>2, <1>4, <1>6, <2>2, <2>3, <2>4, SameSound, MoveStep
<1> QED
  BY <1>5, <1>6

LEMMA FinishStep == ASSUME RecordsInv, NEW b \in Batch, Finish(b) PROVE RecordsInv'
<1> DEFINE i == Look(batch[b], "health")
           k == [i EXCEPT !.stage = "praise"]
<1>1. /\ i \in Job /\ Sound(i) /\ i.left = batch[b].left /\ i.got = batch[b].got
      /\ i.last = batch[b].last /\ "health" \in i.read
  BY BatchParts, LookFields, LookSound DEF Table
<1>2. /\ batch[b].stage = "request" /\ Moved(b, k)
      /\ owner' \in [Table -> Batch \cup {"nobody"}]
  BY BatchParts DEF Finish
<1>3. batch[b].got + batch[b].left <= MaxRequests /\ ~batch[b].last
  BY <1>2, BatchParts, RecordsAssumption DEF Staged
<1> HIDE DEF i
<1>4. /\ k \in Job /\ SameSession(i, k)
      /\ k.stage = "praise" /\ k.left = i.left /\ k.got = i.got /\ k.last = i.last
  BY <1>1, JobStage DEF Stage
<1> HIDE DEF k
<1>5. Sound(k) /\ "health" \in k.read
  BY <1>1, <1>4, SameSound DEF SameSession
<1>6. Staged(k)
  BY <1>1, <1>3, <1>4, <1>5, BatchParts, RecordsAssumption DEF Staged
<1> QED
  BY <1>2, <1>4, <1>5, <1>6, MoveStep

LEMMA PraiseStep == ASSUME RecordsInv, NEW b \in Batch, Praise(b) PROVE RecordsInv'
<1> DEFINE j == Praised(b, batch[b])
<1>1. batch[b].stage = "praise" /\ "health" \in batch[b].read /\ ~batch[b].last
  BY BatchParts DEF Praise, Staged
<1>2. /\ j \in Job /\ Sound(j) /\ j.got = batch[b].got /\ j.last = batch[b].last
      /\ "health" \in j.read /\ "total" \in j.changed
  BY <1>1, BatchParts, PraisedFields, PraisedSound
<1>3. j.mine["status"] = VerdictOf(b, batch[b].got)
  <2>1. j.mine = [batch[b].mine EXCEPT !.total = batch[b].mine.total + 1,
                                       !.status = VerdictOf(b, batch[b].got)]
    BY BatchParts, PraisedFields
  <2> QED
    BY <2>1, BatchParts, JobParts DEF Columns
<1>4. j.mine["status"] = "HEALTHY" => j.got > 0 /\ ~j.last
  BY <1>1, <1>2, <1>3 DEF VerdictOf
<1>5. Committed(b, j)
  BY DEF Praise
<1> HIDE DEF j
<1> QED
  BY <1>2, <1>4, <1>5, CommitStep

LEMMA VanishStep == ASSUME RecordsInv, NEW b \in Batch, Vanish(b) PROVE RecordsInv'
<1> DEFINE k == [Waiting EXCEPT !.stage = "done"]
<1>1. /\ Moved(b, k)
      /\ owner' = [t \in Table |-> IF owner[t] = b THEN "nobody" ELSE owner[t]]
  BY DEF Vanish
<1>2. /\ k \in Job /\ SameSession(Waiting, k)
      /\ k.stage = "done" /\ k.left = 0 /\ k.got = 0 /\ ~k.last
  BY WaitingType, JobStage DEF Stage, Waiting
<1> HIDE DEF k
<1>3. Staged(k)
  BY <1>2, RecordsAssumption DEF Staged
<1>4. owner' \in [Table -> Batch \cup {"nobody"}]
  BY <1>1, BatchParts
<1> QED
  BY <1>1, <1>2, <1>3, <1>4, WaitingSound, SameSound, MoveStep

LEMMA RecordsInvInit == RecordsInit => RecordsInv
<1> SUFFICES ASSUME RecordsInit
             PROVE  RecordsInv
  OBVIOUS
<1>1. RecordsTypeOK
  <2>1. records \in Columns /\ recorded \in Counters
    BY DEF RecordsInit, Columns, Counters, Zero, HealthStatus
  <2> QED
    BY <2>1, WaitingType DEF RecordsInit, RecordsTypeOK
<1>2. \A b \in Batch : Sound(batch[b]) /\ Staged(batch[b])
  BY WaitingSound DEF RecordsInit
<1>3. Balanced /\ HealthyWasAnswered
  BY DEF RecordsInit, Balanced, HealthyWasAnswered, Zero, Counter
<1> QED
  BY <1>1, <1>2, <1>3 DEF RecordsInv

LEMMA RecordsInvStep == RecordsInv /\ [RecordsNext]_recordsVars => RecordsInv'
<1> SUFFICES ASSUME RecordsInv, [RecordsNext]_recordsVars
             PROVE  RecordsInv'
  OBVIOUS
<1>1. ASSUME NEW b \in Batch, RecordsStep(b) \/ Vanish(b)
      PROVE  RecordsInv'
  BY <1>1, StartStep, AnsweredStep, CountStep, HotFailedStep, CatalogueFailedStep, BlameStep,
     FinishStep, PraiseStep, VanishStep DEF RecordsStep
<1>2. CASE UNCHANGED recordsVars
  BY <1>2 DEF recordsVars, RecordsInv, RecordsTypeOK, Sound, Staged, Balanced, HealthyWasAnswered
<1> QED
  BY <1>1, <1>2 DEF RecordsNext

LEMMA RecordsInvCorrect == RecordsSpec => []RecordsInv
BY RecordsInvInit, RecordsInvStep, PTL DEF RecordsSpec

(* The rows and every batch keep their types, and counters never fall      *)
(* below zero.                                                             *)
THEOREM RecordsTypeCorrect == RecordsSpec => []RecordsTypeOK
<1>1. RecordsInv => RecordsTypeOK
  BY DEF RecordsInv
<1> QED
  BY <1>1, RecordsInvCorrect, PTL

(* Overlapping batches never invent an increment, and while none writes a  *)
(* row that changed under it the counters are exactly what was recorded.   *)
THEOREM CountersCorrect == RecordsSpec => []CountersOfRecord
<1>1. RecordsInv => CountersOfRecord
  <2> SUFFICES ASSUME RecordsInv
               PROVE  CountersOfRecord
    OBVIOUS
  <2>1. records \in Columns /\ recorded \in Counters
    BY DEF RecordsInv, RecordsTypeOK
  <2>2. /\ records["failed"] = records.failed /\ records["total"] = records.total
        /\ records["failed"] \in Nat /\ records["total"] \in Nat
    BY <2>1 DEF Columns
  <2> QED
    BY <2>2 DEF RecordsInv, Balanced, Counter, CountersOfRecord
<1> QED
  BY <1>1, RecordsInvCorrect, PTL

(* HEALTHY is the word of a batch that had an answer, and of the last.     *)
THEOREM HealthyCorrect == RecordsSpec => []HealthyWasAnswered
<1>1. RecordsInv => HealthyWasAnswered
  BY DEF RecordsInv
<1> QED
  BY <1>1, RecordsInvCorrect, PTL

-----------------------------------------------------------------------------
(* Qualification: a finite set of figures has a least and a greatest one,  *)
(* so that what is computed from figures is a number.                      *)

LEMMA LeastFigure ==
    ASSUME NEW S \in SUBSET Int, IsFiniteSet(S), S # {}
    PROVE  \E m \in S : \A n \in S : m <= n
<1> DEFINE below == [x \in S |-> {y \in S : y < x}]
           sizes == {Cardinality(below[x]) : x \in S}
<1>1. \A x \in S : IsFiniteSet(below[x]) /\ Cardinality(below[x]) \in Nat
  BY FS_Subset, FS_CardinalityType
<1>2. PICK x \in S : \A y \in S : Cardinality(below[x]) <= Cardinality(below[y])
  <2>1. sizes \in SUBSET Nat /\ sizes # {}
    BY <1>1
  <2>2. PICK c \in sizes : \A d \in sizes : c <= d
    <3> HIDE DEF sizes
    <3> QED BY <2>1, LeastPlace
  <2> QED
    BY <2>2
<1>3. ASSUME NEW y \in S, y < x
      PROVE  FALSE
  <2>0. x \in Int /\ y \in Int /\ \A z \in S : z < y => z < x
    BY <1>3
  <2>1. below[y] \in SUBSET below[x] /\ y \in below[x] /\ y \notin below[y]
    <3>1. below[y] = {z \in S : z < y} /\ below[x] = {z \in S : z < x}
      OBVIOUS
    <3> HIDE DEF below
    <3>2. below[y] \in SUBSET below[x]
      BY <2>0, <3>1
    <3>3. y \in below[x] /\ y \notin below[y]
      BY <1>3, <2>0, <3>1
    <3> QED
      BY <3>2, <3>3
  <2>2. Cardinality(below[y]) <= Cardinality(below[x]) /\ Cardinality(below[y]) # Cardinality(below[x])
    <3>1. PICK a : a = below[x]
      OBVIOUS
    <3>2. PICK b : b = below[y]
      OBVIOUS
    <3> HIDE DEF below
    <3>3. b \in SUBSET a /\ b # a /\ IsFiniteSet(a)
      BY <2>1, <1>1, <3>1, <3>2
    <3>4. Cardinality(b) <= Cardinality(a) /\ Cardinality(a) # Cardinality(b)
      BY <3>3, FS_Subset
    <3> QED
      BY <3>1, <3>2, <3>4
  <2> QED
    <3> HIDE DEF below
    <3> QED BY <2>2, <1>1, <1>2
<1> QED
  BY <1>3

LEMMA MinFacts ==
    ASSUME NEW S \in SUBSET Int, IsFiniteSet(S), S # {}
    PROVE  Min(S) \in S /\ \A n \in S : Min(S) <= n
BY LeastFigure DEF Min

LEMMA MaxFacts ==
    ASSUME NEW S \in SUBSET Int, IsFiniteSet(S), S # {}
    PROVE  Max(S) \in S /\ \A n \in S : n <= Max(S)
<1> DEFINE T == {-n : n \in S}
           f == [n \in S |-> -n]
<1>0. \A n \in S : n \in Int /\ -n \in Int
  OBVIOUS
<1>1. T \in SUBSET Int /\ T # {}
  <2>1. \A t \in T : t \in Int
    BY <1>0
  <2>2. T # {}
    OBVIOUS
  <2> QED
    BY <2>1, <2>2
<1>2. IsFiniteSet(T)
  <2>1. f \in Surjection(S, T)
    BY DEF Surjection
  <2> HIDE DEF f, T
  <2> QED BY <2>1, FS_Surjection
<1>3. PICK m \in T : \A n \in T : m <= n
  <2> HIDE DEF T
  <2> QED BY <1>1, <1>2, LeastFigure
<1>4. PICK x \in S : m = -x
  OBVIOUS
<1>5. \A n \in S : m <= -n
  BY <1>3
<1>6. \A n \in S : x >= n
  BY <1>4, <1>5
<1> QED
  BY <1>6 DEF Max

Figures(xs) == /\ IsFiniteSet(DOMAIN xs)
               /\ xs \in [DOMAIN xs -> Int]

LEMMA ValuesFacts ==
    ASSUME NEW xs, Figures(xs)
    PROVE  /\ Values(xs) \in SUBSET Int /\ IsFiniteSet(Values(xs))
           /\ Size(xs) \in Nat
           /\ Size(xs) = 0 <=> DOMAIN xs = {}
           /\ DOMAIN xs # {} => Values(xs) # {}
           /\ \A k \in DOMAIN xs : xs[k] \in Values(xs)
<1>1. xs \in Surjection(DOMAIN xs, Values(xs))
  BY DEF Surjection, Figures, Values
<1>2. IsFiniteSet(Values(xs))
  BY <1>1, FS_Surjection DEF Figures
<1> QED
  BY <1>2, FS_CardinalityType, FS_EmptySet DEF Values, Size, Figures

LEMMA OrderedType ==
    ASSUME NEW xs, Figures(xs)
    PROVE  Ordered(xs) \in [1..Size(xs) -> Int]
<1> SUFFICES ASSUME NEW k \in 1..Size(xs)
             PROVE  Ordered(xs)[k] \in Int
  BY DEF Ordered
<1> DEFINE reached == {v \in Values(xs) : Cardinality({j \in DOMAIN xs : xs[j] <= v}) >= k}
<1>1. DOMAIN xs # {}
  <2>1. Size(xs) \in Nat /\ (Size(xs) = 0 <=> DOMAIN xs = {})
    BY ValuesFacts
  <2>2. Size(xs) # 0
    BY <2>1
  <2> QED
    BY <2>1, <2>2
<1>2. PICK v \in Values(xs) : \A w \in Values(xs) : w <= v
  BY <1>1, ValuesFacts, MaxFacts
<1>3. {j \in DOMAIN xs : xs[j] <= v} = DOMAIN xs
  BY <1>2, ValuesFacts
<1>4. v \in reached
  BY <1>3, ValuesFacts DEF Size
<1>5. IsFiniteSet(reached) /\ reached \in SUBSET Int
  BY ValuesFacts, FS_Subset
<1>6. Min(reached) \in Int
  <2> HIDE DEF reached
  <2> QED BY <1>4, <1>5, MinFacts
<1> QED
  BY <1>6 DEF Ordered

LEMMA MedianType ==
    ASSUME NEW xs, Figures(xs)
    PROVE  Median(xs) \in Int
<1>1. CASE Size(xs) = 0
  BY <1>1 DEF Median, Infinite
<1>2. CASE Size(xs) # 0
  <2>1. PICK n : n = Size(xs)
    OBVIOUS
  <2>2. n \in Nat \ {0}
    BY <1>2, <2>1, ValuesFacts
  <2>3. (n + 1) \div 2 \in 1..n /\ n \div 2 + 1 \in 1..n
    BY <2>2
  <2>4. PICK s : s = Ordered(xs)
    OBVIOUS
  <2>5. s \in [1..n -> Int]
    BY <2>1, <2>4, OrderedType
  <2>6. s[(n + 1) \div 2] \in Int /\ s[n \div 2 + 1] \in Int
    BY <2>3, <2>5
  <2>7. Median(xs) = s[(n + 1) \div 2] + s[n \div 2 + 1]
    BY <1>2, <2>1, <2>4 DEF Median, Middle
  <2> QED
    BY <2>6, <2>7
<1> QED
  BY <1>1, <1>2

LEMMA P95Type ==
    ASSUME NEW xs, Figures(xs)
    PROVE  P95(xs) \in Int
<1>1. CASE Size(xs) = 0
  BY <1>1 DEF P95, Infinite
<1>2. CASE Size(xs) # 0
  <2>1. PICK n : n = Size(xs)
    OBVIOUS
  <2>2. n \in Nat \ {0}
    BY <1>2, <2>1, ValuesFacts
  <2>3. PICK r : r = 19 * (n - 1)
    OBVIOUS
  <2>4. r \in Nat /\ r % 20 \in Nat /\ r \div 20 + 1 \in 1..n
    BY <2>2, <2>3
  <2>5. r % 20 # 0 => r \div 20 + 2 \in 1..n
    BY <2>2, <2>3
  <2>6. PICK s : s = Ordered(xs)
    OBVIOUS
  <2>7. s \in [1..n -> Int]
    BY <2>1, <2>6, OrderedType
  <2>8. P95(xs) = s[r \div 20 + 1] * (20 - (r % 20))
                      + (IF r % 20 = 0 THEN 0 ELSE s[r \div 20 + 2] * (r % 20))
    BY <1>2, <2>1, <2>3, <2>6 DEF P95, Interpolated
  <2>9. s[r \div 20 + 1] \in Int /\ (r % 20 # 0 => s[r \div 20 + 2] \in Int)
    BY <2>4, <2>5, <2>7
  <2> QED
    BY <2>4, <2>8, <2>9
<1> QED
  BY <1>1, <1>2

-----------------------------------------------------------------------------
(* The order of the keys is strict and total, so that every eligible       *)
(* provider has a place of its own in the ranking.                         *)
IsKey(x) == x[1] \in Int /\ x[2] \in Int /\ x[3] \in Int /\ x[4] \in Int

LEMMA PrecedesMeans ==
    ASSUME NEW x, NEW y
    PROVE  Precedes(x, y) <=>
               \/ x[1] < y[1]
               \/ x[1] = y[1] /\ x[2] < y[2]
               \/ x[1] = y[1] /\ x[2] = y[2] /\ x[3] < y[3]
               \/ x[1] = y[1] /\ x[2] = y[2] /\ x[3] = y[3] /\ x[4] < y[4]
<1>1. \A k \in 1..4 : k = 1 \/ k = 2 \/ k = 3 \/ k = 4
  OBVIOUS
<1>2. /\ \A j \in 1..(1 - 1) : FALSE
      /\ \A j \in 1..(2 - 1) : j = 1
      /\ \A j \in 1..(3 - 1) : j = 1 \/ j = 2
      /\ \A j \in 1..(4 - 1) : j = 1 \/ j = 2 \/ j = 3
  OBVIOUS
<1>3. 1 \in 1..(2 - 1) /\ 1 \in 1..(3 - 1) /\ 2 \in 1..(3 - 1)
      /\ 1 \in 1..(4 - 1) /\ 2 \in 1..(4 - 1) /\ 3 \in 1..(4 - 1)
  OBVIOUS
<1>4. ASSUME Precedes(x, y)
      PROVE  \/ x[1] < y[1]
             \/ x[1] = y[1] /\ x[2] < y[2]
             \/ x[1] = y[1] /\ x[2] = y[2] /\ x[3] < y[3]
             \/ x[1] = y[1] /\ x[2] = y[2] /\ x[3] = y[3] /\ x[4] < y[4]
  <2>1. PICK k \in 1..4 : x[k] < y[k] /\ \A j \in 1..(k - 1) : x[j] = y[j]
    BY <1>4 DEF Precedes
  <2> QED
    BY <2>1, <1>1, <1>3
<1>5. ASSUME x[1] < y[1]
      PROVE  Precedes(x, y)
  BY <1>5, <1>2 DEF Precedes
<1>6. ASSUME x[1] = y[1], x[2] < y[2]
      PROVE  Precedes(x, y)
  BY <1>6, <1>2 DEF Precedes
<1>7. ASSUME x[1] = y[1], x[2] = y[2], x[3] < y[3]
      PROVE  Precedes(x, y)
  BY <1>7, <1>2 DEF Precedes
<1>8. ASSUME x[1] = y[1], x[2] = y[2], x[3] = y[3], x[4] < y[4]
      PROVE  Precedes(x, y)
  BY <1>8, <1>2 DEF Precedes
<1> QED
  BY <1>4, <1>5, <1>6, <1>7, <1>8

LEMMA PrecedesTotal ==
    ASSUME NEW x, NEW y, IsKey(x), IsKey(y), x[4] # y[4]
    PROVE  Precedes(x, y) \/ Precedes(y, x)
BY PrecedesMeans DEF IsKey

LEMMA PrecedesStrict ==
    ASSUME NEW x, NEW y, IsKey(x), IsKey(y), Precedes(x, y)
    PROVE  ~Precedes(y, x)
BY PrecedesMeans DEF IsKey

LEMMA PrecedesTransitive ==
    ASSUME NEW x, NEW y, NEW z, IsKey(x), IsKey(y), IsKey(z), Precedes(x, y), Precedes(y, z)
    PROVE  Precedes(x, z)
BY PrecedesMeans DEF IsKey

LEMMA PrecedesNotItself ==
    ASSUME NEW x, IsKey(x)
    PROVE  ~Precedes(x, x)
BY PrecedesMeans DEF IsKey

IsKeys(key) == /\ IsFiniteSet(DOMAIN key)
               /\ \A p \in DOMAIN key : IsKey(key[p]) /\ key[p][4] = p

LEMMA InOrderFacts ==
    ASSUME NEW key, IsKeys(key)
    PROVE  LET order == InOrder(key)
               n     == Cardinality(DOMAIN key)
           IN  /\ n \in Nat
               /\ order \in [1..n -> DOMAIN key]
               /\ \A p \in DOMAIN key : \E k \in 1..n : order[k] = p
               /\ \A i, j \in 1..n : i < j => Precedes(key[order[i]], key[order[j]])
<1> DEFINE D == DOMAIN key
           before == [p \in D |-> {q \in D : Precedes(key[q], key[p])}]
           rank   == [p \in D |-> Cardinality(before[p])]
<1>1. PICK n : n = Cardinality(D)
  OBVIOUS
<1>2. n \in Nat /\ IsFiniteSet(D)
  BY <1>1, FS_CardinalityType DEF IsKeys
<1>3. \A p \in D : /\ before[p] = {q \in D : Precedes(key[q], key[p])}
                   /\ rank[p] = Cardinality(before[p])
  OBVIOUS
<1>4. \A p \in D : IsKey(key[p]) /\ key[p][4] = p
  BY DEF IsKeys
<1> HIDE DEF before, rank, D
<1>5. ASSUME NEW p \in D
      PROVE  rank[p] \in 0..(n - 1)
  <2>1. p \notin before[p] /\ before[p] \in SUBSET D /\ p \in D
    BY <1>3, <1>4, PrecedesNotItself
  <2>2. PICK b : b = before[p]
    OBVIOUS
  <2>3. b \in SUBSET D /\ b # D
    BY <2>1, <2>2
  <2>4. Cardinality(b) <= n /\ Cardinality(b) # n /\ IsFiniteSet(b)
    BY <2>3, <1>1, <1>2, FS_Subset
  <2>5. Cardinality(b) \in Nat
    BY <2>4, FS_CardinalityType
  <2>6. rank[p] = Cardinality(b)
    BY <2>2, <1>3
  <2> QED
    BY <2>4, <2>5, <2>6, <1>2
<1>6. ASSUME NEW p \in D, NEW q \in D, Precedes(key[p], key[q])
      PROVE  rank[p] < rank[q]
  <2>1. PICK a : a = before[p]
    OBVIOUS
  <2>2. PICK b : b = before[q]
    OBVIOUS
  <2>3. a \in SUBSET b
    BY <2>1, <2>2, <1>3, <1>4, <1>6, PrecedesTransitive
  <2>4. p \in b /\ p \notin a
    BY <2>1, <2>2, <1>3, <1>4, <1>6, PrecedesNotItself
  <2>5. b \in SUBSET D
    BY <2>2, <1>3
  <2>6. IsFiniteSet(b)
    BY <2>5, <1>2, FS_Subset
  <2>7. Cardinality(a) <= Cardinality(b) /\ Cardinality(a) # Cardinality(b) /\ IsFiniteSet(a)
    BY <2>3, <2>4, <2>6, FS_Subset
  <2>8. Cardinality(a) \in Nat /\ Cardinality(b) \in Nat
    BY <2>6, <2>7, FS_CardinalityType
  <2>9. rank[p] = Cardinality(a) /\ rank[q] = Cardinality(b)
    BY <2>1, <2>2, <1>3
  <2> QED
    BY <2>7, <2>8, <2>9
<1>7. ASSUME NEW p \in D, NEW q \in D, rank[p] = rank[q]
      PROVE  p = q
  <2>1. ASSUME p # q
        PROVE  FALSE
    <3>1. Precedes(key[p], key[q]) \/ Precedes(key[q], key[p])
      BY <2>1, <1>4, PrecedesTotal
    <3>2. rank[p] \in Int /\ rank[q] \in Int
      BY <1>2, <1>5
    <3> QED
      BY <3>1, <3>2, <1>6, <1>7
  <2> QED
    BY <2>1
<1>8. rank \in Injection(D, 0..(n - 1))
  <2>1. rank \in [D -> 0..(n - 1)]
    BY <1>5 DEF rank
  <2> QED
    BY <2>1, <1>7 DEF Injection, IsInjective
<1>9. \A k \in 0..(n - 1) : \E p \in D : rank[p] = k
  <2>1. IsFiniteSet(0..(n - 1)) /\ Cardinality(0..(n - 1)) = n
    BY <1>2, FS_Interval
  <2>2. rank \in Surjection(D, 0..(n - 1))
    BY <2>1, <1>1, <1>8, FS_Injection
  <2> QED
    BY <2>2 DEF Surjection
<1>10. PICK order : order = InOrder(key)
  OBVIOUS
<1>11. order = [k \in 1..n |->
                  CHOOSE p \in D : Cardinality({q \in D : Precedes(key[q], key[p])}) = k - 1]
  BY <1>1, <1>10 DEF InOrder, D
<1>12. \A k \in 1..n : order[k] \in D /\ rank[order[k]] = k - 1
  <2> TAKE k \in 1..n
  <2>1. k - 1 \in 0..(n - 1)
    BY <1>2
  <2>2. PICK p \in D : rank[p] = k - 1
    BY <2>1, <1>9
  <2>3. Cardinality({q \in D : Precedes(key[q], key[p])}) = k - 1
    BY <2>2, <1>3
  <2>4. /\ order[k] \in D
        /\ Cardinality({q \in D : Precedes(key[q], key[order[k]])}) = k - 1
    BY <2>3, <1>11, Zenon
  <2> QED
    BY <2>4, <1>3
<1>13. order \in [1..n -> D]
  BY <1>11, <1>12
<1>14. ASSUME NEW p \in D
       PROVE  \E k \in 1..n : order[k] = p
  <2>1. rank[p] + 1 \in 1..n /\ rank[p] \in Int
    BY <1>5, <1>2
  <2>2. order[rank[p] + 1] \in D /\ rank[order[rank[p] + 1]] = rank[p]
    BY <2>1, <1>12
  <2> QED
    BY <2>1, <2>2, <1>7
<1>15. ASSUME NEW i \in 1..n, NEW j \in 1..n, i < j
       PROVE  Precedes(key[order[i]], key[order[j]])
  <2>1. /\ order[i] \in D /\ order[j] \in D
        /\ rank[order[i]] = i - 1 /\ rank[order[j]] = j - 1
    BY <1>12
  <2>2. order[i] # order[j]
    BY <2>1, <1>15, <1>2
  <2>3. ~Precedes(key[order[j]], key[order[i]])
    <3>1. ASSUME Precedes(key[order[j]], key[order[i]])
          PROVE  FALSE
      <4>1. rank[order[j]] < rank[order[i]]
        BY <2>1, <3>1, <1>6
      <4> QED
        BY <4>1, <2>1, <1>15, <1>2
    <3> QED
      BY <3>1
  <2> QED
    BY <2>1, <2>2, <2>3, <1>4, PrecedesTotal
<1> QED
  BY <1>1, <1>2, <1>10, <1>13, <1>14, <1>15 DEF D

-----------------------------------------------------------------------------
(* The pair that the two loops over a ranking find.                        *)
LEMMA IndependentSymmetric ==
    ASSUME NEW p, NEW q
    PROVE  (Independent(p, q) <=> Independent(q, p)) /\ ~Independent(p, p)
BY DEF Independent

LEMMA ProviderPairFacts ==
    ASSUME NEW D, NEW n \in Nat, NEW order \in [1..n -> D]
    PROVE  \/ /\ ProviderPair(order) = NoPair
              /\ \A i, j \in 1..n : ~Independent(order[i], order[j])
           \/ \E m \in 1..n, f \in 1..n :
                 /\ ProviderPair(order) = <<order[m], order[f]>>
                 /\ Independent(order[m], order[f])
                 /\ \A i \in 1..n : (\E j \in 1..n : Independent(order[i], order[j])) => m <= i
                 /\ \A j \in 1..n : Independent(order[m], order[j]) => f <= j
<1> DEFINE later   == [i \in DOMAIN order |-> {k \in (i + 1)..Len(order) : Independent(order[i], order[k])}]
           primary == {i \in DOMAIN order : later[i] # {}}
<1>1. DOMAIN order = 1..n /\ Len(order) = n
  <2>1. order \in Seq(D)
    BY SeqDef
  <2>2. Len(order) \in Nat /\ DOMAIN order = 1..Len(order)
    BY <2>1, LenProperties
  <2> QED
    BY <2>2
<1>2. \A i \in 1..n : later[i] = {k \in (i + 1)..n : Independent(order[i], order[k])}
  BY <1>1
<1>3. /\ primary = {i \in 1..n : later[i] # {}}
      /\ ProviderPair(order) = IF primary = {} THEN NoPair
                               ELSE <<order[Min(primary)], order[Min(later[Min(primary)])]>>
  BY <1>1 DEF ProviderPair
<1> HIDE DEF later, primary
<1>4. \A i \in 1..n, j \in 1..n : i < j /\ Independent(order[i], order[j]) => i \in primary /\ j \in later[i]
  BY <1>2, <1>3
<1>5. \A i \in 1..n, j \in 1..n : Independent(order[i], order[j]) => i \in primary \/ j \in primary
  BY <1>4, IndependentSymmetric
<1>6. CASE primary = {}
  BY <1>3, <1>5, <1>6
<1>7. CASE primary # {}
  <2>1. IsFiniteSet(primary) /\ primary \in SUBSET Int /\ primary \in SUBSET (1..n)
    <3>1. IsFiniteSet(1..n)
      BY FS_Interval
    <3>2. primary \in SUBSET (1..n)
      BY <1>3
    <3>3. IsFiniteSet(primary)
      BY <3>1, <3>2, FS_Subset
    <3>4. \A i \in 1..n : i \in Int
      OBVIOUS
    <3> QED
      BY <3>2, <3>3, <3>4
  <2>2. PICK m : m = Min(primary)
    OBVIOUS
  <2>3. m \in primary /\ \A i \in primary : m <= i
    BY <2>1, <2>2, <1>7, MinFacts
  <2>4. m \in 1..n /\ later[m] # {}
    BY <2>3, <1>3
  <2>5. PICK L : L = later[m]
    OBVIOUS
  <2>6. L = {k \in (m + 1)..n : Independent(order[m], order[k])}
    BY <2>4, <2>5, <1>2
  <2>7. IsFiniteSet(L) /\ L \in SUBSET Int /\ L # {}
    <3>1. IsFiniteSet((m + 1)..n)
      BY <2>4, FS_Interval
    <3>2. L \in SUBSET ((m + 1)..n)
      BY <2>6
    <3> QED
      BY <3>1, <3>2, <2>4, <2>5, FS_Subset
  <2>8. PICK f : f = Min(L)
    OBVIOUS
  <2>9. f \in L /\ \A k \in L : f <= k
    BY <2>7, <2>8, MinFacts
  <2>10. f \in 1..n /\ Independent(order[m], order[f])
    BY <2>4, <2>6, <2>9
  <2>11. ProviderPair(order) = <<order[m], order[f]>>
    BY <1>3, <1>7, <2>2, <2>5, <2>8
  <2>12. ASSUME NEW i \in 1..n, NEW j \in 1..n, Independent(order[i], order[j])
         PROVE  m <= i
    <3>1. i # j
      BY <2>12, IndependentSymmetric
    <3>2. CASE i < j
      BY <3>2, <2>12, <1>4, <2>3
    <3>3. CASE j < i
      <4>1. Independent(order[j], order[i])
        BY <2>12, IndependentSymmetric
      <4>2. j \in primary
        BY <4>1, <3>3, <1>4
      <4> QED
        BY <4>2, <3>3, <2>3, <2>4
    <3> QED
      BY <3>1, <3>2, <3>3
  <2>13. ASSUME NEW j \in 1..n, Independent(order[m], order[j])
         PROVE  f <= j
    <3>1. Independent(order[j], order[m])
      BY <2>13, IndependentSymmetric
    <3>2. m <= j
      BY <3>1, <2>4, <2>12
    <3>3. m # j
      BY <2>13, IndependentSymmetric
    <3>4. j \in L
      BY <3>2, <3>3, <2>4, <2>5, <2>13, <1>4
    <3> QED
      BY <3>4, <2>9
  <2> QED
    BY <2>4, <2>10, <2>11, <2>12, <2>13
<1> QED
  BY <1>6, <1>7

-----------------------------------------------------------------------------
(* What the reports of the tested providers give.                          *)
LEMMA QuotesOf ==
    ASSUME QualificationTypeOK, NEW p \in DOMAIN reports
    PROVE  /\ IsFiniteSet(DOMAIN Priced(p))
           /\ \A k \in DOMAIN Priced(p) : /\ Priced(p)[k].stamped \in BOOLEAN
                                          /\ Priced(p)[k].age \in Int
                                          /\ Priced(p)[k].error \in Int
                                          /\ Priced(p)[k].latency \in Int
           /\ Figures(reports[p].delays)
<1>1. reports[p].quotes \in Quotes /\ reports[p].delays \in Seq(Int)
  BY QualificationAssumption DEF QualificationTypeOK
<1>2. PICK cards \in SUBSET (1..Basket) : reports[p].quotes \in [cards -> Quoted]
  BY <1>1 DEF Quotes
<1>3. DOMAIN Priced(p) = cards /\ \A k \in cards : Priced(p)[k] \in Quoted
  BY <1>2 DEF Priced
<1>4. IsFiniteSet(cards)
  <2>1. IsFiniteSet(1..Basket)
    BY QualificationAssumption, FS_Interval
  <2> QED
    BY <2>1, FS_Subset
<1>5. \A q \in Quoted : q.stamped \in BOOLEAN /\ q.age \in Int /\ q.error \in Int /\ q.latency \in Int
  BY QualificationAssumption
<1>6. Figures(reports[p].delays)
  <2>1. PICK d : d = reports[p].delays
    OBVIOUS
  <2>2. Len(d) \in Nat /\ d \in [1..Len(d) -> Int]
    BY <1>1, <2>1, LenProperties
  <2>3. IsFiniteSet(1..Len(d))
    BY <2>2, FS_Interval
  <2>4. DOMAIN d = 1..Len(d)
    BY <2>2
  <2>5. Figures(d)
    BY <2>2, <2>3, <2>4 DEF Figures
  <2> QED
    BY <2>1, <2>5
<1> QED
  BY <1>3, <1>4, <1>5, <1>6

LEMMA AgesFacts ==
    ASSUME QualificationTypeOK, NEW p \in DOMAIN reports
    PROVE  Figures(Ages(p)) /\ DOMAIN Ages(p) = Stamped(p)
           /\ \A k \in Stamped(p) : Priced(p)[k].age <= Ages(p)[k]
<1>1. Stamped(p) \in SUBSET DOMAIN Priced(p)
  BY DEF Stamped
<1>2. IsFiniteSet(Stamped(p))
  BY <1>1, QuotesOf, FS_Subset
<1>3. \A k \in Stamped(p) : Priced(p)[k].age \in Int
  BY <1>1, QuotesOf
<1>4. DOMAIN Ages(p) = Stamped(p)
      /\ \A k \in Stamped(p) : Ages(p)[k] = IF Priced(p)[k].age < 0 THEN 0 ELSE Priced(p)[k].age
  BY DEF Ages
<1>5. \A k \in Stamped(p) : Ages(p)[k] \in Int /\ Priced(p)[k].age <= Ages(p)[k]
  BY <1>3, <1>4
<1>6. Ages(p) \in [Stamped(p) -> Int]
  BY <1>3 DEF Ages
<1> QED
  BY <1>2, <1>4, <1>5, <1>6 DEF Figures

LEMMA RankKeyFacts ==
    ASSUME QualificationTypeOK, NEW p \in DOMAIN reports, NEW role
    PROVE  IsKey(RankKey(p, role)) /\ RankKey(p, role)[4] = p
<1>1. p \in Int
  <2>1. p \in Candidate
    BY DEF QualificationTypeOK
  <2>2. \A q \in Candidate : q \in Nat
    BY QualificationAssumption
  <2> QED
    BY <2>1, <2>2
<1>2. Accuracy(p) \in Int
  <2>1. PICK xs : xs = [k \in DOMAIN Priced(p) |-> Priced(p)[k].error]
    OBVIOUS
  <2>2. Figures(xs)
    BY <2>1, QuotesOf DEF Figures
  <2> QED
    BY <2>1, <2>2, MedianType DEF Accuracy
<1>3. Latency(p) \in Int
  <2>1. PICK xs : xs = [k \in DOMAIN Priced(p) |-> Priced(p)[k].latency]
    OBVIOUS
  <2>2. Figures(xs)
    BY <2>1, QuotesOf DEF Figures
  <2> QED
    BY <2>1, <2>2, P95Type DEF Latency
<1>4. Freshness(p) \in Int
  <2>1. PICK xs : xs = IF Stamped(p) # {} THEN Ages(p) ELSE reports[p].delays
    OBVIOUS
  <2>2. Figures(xs)
    BY <2>1, QuotesOf, AgesFacts
  <2> QED
    BY <2>1, <2>2, P95Type DEF Freshness
<1> QED
  BY <1>1, <1>2, <1>3, <1>4 DEF RankKey, IsKey

LEMMA HotIsFresh ==
    ASSUME QualificationTypeOK, NEW p \in DOMAIN reports, Supports(p, "hot_reference"),
           \A k \in DOMAIN Priced(p) : Priced(p)[k].stamped
    PROVE  \A k \in DOMAIN Priced(p) : Priced(p)[k].age <= MaxAge
<1>1. FreshnessProven(p) /\ DOMAIN Priced(p) # {}
  BY DEF Supports
<1>2. Stamped(p) = DOMAIN Priced(p)
  BY DEF Stamped
<1>3. Largest(Ages(p)) <= MaxAge
  BY <1>1, <1>2 DEF FreshnessProven
<1>4. PICK xs : xs = Ages(p)
  OBVIOUS
<1>5. Figures(xs) /\ DOMAIN xs = DOMAIN Priced(p)
      /\ \A k \in DOMAIN Priced(p) : Priced(p)[k].age <= xs[k]
  BY <1>2, <1>4, AgesFacts
<1>6. /\ Values(xs) \in SUBSET Int /\ IsFiniteSet(Values(xs)) /\ Values(xs) # {}
      /\ \A k \in DOMAIN xs : xs[k] \in Values(xs)
  BY <1>1, <1>5, ValuesFacts
<1>7. PICK V : V = Values(xs)
  OBVIOUS
<1>8. Max(V) \in Int /\ \A v \in V : v <= Max(V) /\ v \in Int
  BY <1>6, <1>7, MaxFacts
<1>9. Max(V) <= MaxAge
  BY <1>3, <1>4, <1>7 DEF Largest
<1>10. \A k \in DOMAIN Priced(p) : Priced(p)[k].age \in Int
  BY QuotesOf
<1> QED
  BY <1>5, <1>6, <1>7, <1>8, <1>9, <1>10, QualificationAssumption

-----------------------------------------------------------------------------
(* The property follows from the types in every state.                     *)
LEMMA KeysFacts ==
    ASSUME QualificationTypeOK, NEW role
    PROVE  /\ IsKeys(Keys(role))
           /\ DOMAIN Keys(role) = Eligible(role)
           /\ \A p \in Eligible(role) : p \in DOMAIN reports /\ Supports(p, role)
<1>1. Eligible(role) \in SUBSET Candidate
      /\ \A p \in Eligible(role) : p \in DOMAIN reports /\ Supports(p, role)
  BY DEF Eligible, Supports
<1>2. IsFiniteSet(Eligible(role))
  BY <1>1, QualificationAssumption, FS_Subset
<1>3. DOMAIN Keys(role) = Eligible(role)
      /\ \A p \in Eligible(role) : Keys(role)[p] = RankKey(p, role)
  BY DEF Keys
<1>4. \A p \in Eligible(role) : IsKey(Keys(role)[p]) /\ Keys(role)[p][4] = p
  BY <1>1, <1>3, RankKeyFacts
<1> QED
  BY <1>1, <1>2, <1>3, <1>4 DEF IsKeys

LEMMA PairIsBest ==
    ASSUME NEW key, IsKeys(key), NEW chosen, chosen = ProviderPair(InOrder(key))
    PROVE  IF \A p, q \in DOMAIN key : ~Independent(p, q) THEN chosen = NoPair
           ELSE /\ chosen # NoPair
                /\ {chosen[1], chosen[2]} \subseteq DOMAIN key
                /\ Independent(chosen[1], chosen[2])
                /\ \A p \in DOMAIN key \ {chosen[1]} :
                      (\E q \in DOMAIN key : Independent(p, q)) => Precedes(key[chosen[1]], key[p])
                /\ \A p \in DOMAIN key \ {chosen[2]} :
                      Independent(chosen[1], p) => Precedes(key[chosen[2]], key[p])
<1>1. PICK n : n = Cardinality(DOMAIN key)
  OBVIOUS
<1>2. PICK order : order = InOrder(key)
  OBVIOUS
<1>3. PICK D : D = DOMAIN key
  OBVIOUS
<1>4. /\ n \in Nat
      /\ order \in [1..n -> D]
      /\ \A p \in D : \E k \in 1..n : order[k] = p
      /\ \A i, j \in 1..n : i < j => Precedes(key[order[i]], key[order[j]])
  BY <1>1, <1>2, <1>3, InOrderFacts
<1>5. CASE /\ chosen = NoPair
           /\ \A i, j \in 1..n : ~Independent(order[i], order[j])
  BY <1>3, <1>4, <1>5
<1>6. CASE \E m \in 1..n, f \in 1..n :
              /\ chosen = <<order[m], order[f]>>
              /\ Independent(order[m], order[f])
              /\ \A i \in 1..n : (\E j \in 1..n : Independent(order[i], order[j])) => m <= i
              /\ \A j \in 1..n : Independent(order[m], order[j]) => f <= j
  <2>1. PICK m \in 1..n, f \in 1..n :
              /\ chosen = <<order[m], order[f]>>
              /\ Independent(order[m], order[f])
              /\ \A i \in 1..n : (\E j \in 1..n : Independent(order[i], order[j])) => m <= i
              /\ \A j \in 1..n : Independent(order[m], order[j]) => f <= j
    BY <1>6
  <2>2. chosen[1] = order[m] /\ chosen[2] = order[f] /\ chosen # NoPair
    BY <2>1 DEF NoPair
  <2>3. order[m] \in D /\ order[f] \in D
    BY <1>4
  <2>4. ASSUME NEW p \in D, p # order[m], NEW q \in D, Independent(p, q)
        PROVE  Precedes(key[order[m]], key[p])
    <3>1. PICK i \in 1..n : order[i] = p
      BY <1>4
    <3>2. PICK j \in 1..n : order[j] = q
      BY <1>4
    <3>3. m <= i /\ m # i
      BY <2>1, <2>4, <3>1, <3>2
    <3> QED
      BY <3>1, <3>3, <1>4
  <2>5. ASSUME NEW p \in D, p # order[f], Independent(order[m], p)
        PROVE  Precedes(key[order[f]], key[p])
    <3>1. PICK j \in 1..n : order[j] = p
      BY <1>4
    <3>2. f <= j /\ f # j
      BY <2>1, <2>5, <3>1
    <3> QED
      BY <3>1, <3>2, <1>4
  <2> QED
    BY <1>3, <2>1, <2>2, <2>3, <2>4, <2>5
<1>7. \/ /\ chosen = NoPair
         /\ \A i, j \in 1..n : ~Independent(order[i], order[j])
      \/ \E m \in 1..n, f \in 1..n :
            /\ chosen = <<order[m], order[f]>>
            /\ Independent(order[m], order[f])
            /\ \A i \in 1..n : (\E j \in 1..n : Independent(order[i], order[j])) => m <= i
            /\ \A j \in 1..n : Independent(order[m], order[j]) => f <= j
  <2>1. n \in Nat /\ order \in [1..n -> D] /\ chosen = ProviderPair(order)
    BY <1>2, <1>4
  <2>2. \/ /\ ProviderPair(order) = NoPair
           /\ \A i, j \in 1..n : ~Independent(order[i], order[j])
        \/ \E m \in 1..n, f \in 1..n :
              /\ ProviderPair(order) = <<order[m], order[f]>>
              /\ Independent(order[m], order[f])
              /\ \A i \in 1..n : (\E j \in 1..n : Independent(order[i], order[j])) => m <= i
              /\ \A j \in 1..n : Independent(order[m], order[j]) => f <= j
    BY <2>1, ProviderPairFacts, Zenon
  <2> QED
    BY <2>1, <2>2
<1> QED
  BY <1>5, <1>6, <1>7

LEMMA BestOfReports == ASSUME QualificationTypeOK PROVE BestIndependentPair
<1> SUFFICES ASSUME NEW role \in {"hot_reference", "reference"}
             PROVE  \E key \in {Keys(role)} : \E chosen \in {ProviderPair(InOrder(key))} :
            IF \A p, q \in DOMAIN key : ~Independent(p, q) THEN chosen = NoPair
            ELSE /\ chosen # NoPair
                 /\ {chosen[1], chosen[2]} \subseteq DOMAIN key
                 /\ Independent(chosen[1], chosen[2])
                 /\ \A p \in DOMAIN key \ {chosen[1]} :
                       (\E q \in DOMAIN key : Independent(p, q)) => Precedes(key[chosen[1]], key[p])
                 /\ \A p \in DOMAIN key \ {chosen[2]} :
                       Independent(chosen[1], p) => Precedes(key[chosen[2]], key[p])
                 /\ role = "hot_reference" =>
                       \A p \in {chosen[1], chosen[2]} :
                           LET quotes == {reports[p].quotes[k] : k \in DOMAIN reports[p].quotes}
                           IN  (\A q \in quotes : q.stamped) => \A q \in quotes : q.age <= MaxAge
  BY DEF BestIndependentPair
<1>1. PICK key : key = Keys(role)
  OBVIOUS
<1>2. PICK chosen : chosen = ProviderPair(InOrder(key))
  OBVIOUS
<1>3. IsKeys(key)
      /\ \A p \in DOMAIN key : p \in DOMAIN reports /\ Supports(p, role)
  BY <1>1, KeysFacts
<1>4. IF \A p, q \in DOMAIN key : ~Independent(p, q) THEN chosen = NoPair
      ELSE /\ chosen # NoPair
           /\ {chosen[1], chosen[2]} \subseteq DOMAIN key
           /\ Independent(chosen[1], chosen[2])
           /\ \A p \in DOMAIN key \ {chosen[1]} :
                 (\E q \in DOMAIN key : Independent(p, q)) => Precedes(key[chosen[1]], key[p])
           /\ \A p \in DOMAIN key \ {chosen[2]} :
                 Independent(chosen[1], p) => Precedes(key[chosen[2]], key[p])
  BY <1>2, <1>3, PairIsBest
<1>5. ASSUME role = "hot_reference", NEW p \in DOMAIN key
      PROVE  LET quotes == {reports[p].quotes[k] : k \in DOMAIN reports[p].quotes}
             IN  (\A q \in quotes : q.stamped) => \A q \in quotes : q.age <= MaxAge
  BY <1>3, <1>5, HotIsFresh DEF Priced
<1> QED
  BY <1>1, <1>2, <1>4, <1>5

-----------------------------------------------------------------------------
LEMMA QualificationTypeStep ==
    QualificationTypeOK /\ [QualificationNext]_qualificationVars => QualificationTypeOK'
<1> SUFFICES ASSUME QualificationTypeOK, [QualificationNext]_qualificationVars
             PROVE  QualificationTypeOK'
  OBVIOUS
<1>1. CASE UNCHANGED qualificationVars
  BY <1>1 DEF qualificationVars, QualificationTypeOK
<1>2. ASSUME NEW p \in Candidate, Evaluate(p)
      PROVE  QualificationTypeOK'
  <2>1. PICK quotes \in Quotes, delays \in Delays :
            reports' = [q \in DOMAIN reports \cup {p} |->
                         IF q = p THEN [quotes |-> quotes, delays |-> delays] ELSE reports[q]]
    BY <1>2 DEF Evaluate
  <2>2. PICK x : x = [quotes |-> quotes, delays |-> delays]
    OBVIOUS
  <2>3. x \in [quotes : Quotes, delays : Delays]
    BY <2>2
  <2>4. DOMAIN reports' = DOMAIN reports \cup {p}
        /\ \A q \in DOMAIN reports' : reports'[q] = IF q = p THEN x ELSE reports[q]
    BY <2>1, <2>2
  <2>5. \A q \in DOMAIN reports' : reports'[q] \in [quotes : Quotes, delays : Delays]
    BY <2>3, <2>4 DEF QualificationTypeOK
  <2>6. upstream' \in Provenance
    BY <1>2 DEF Evaluate, QualificationTypeOK
  <2> QED
    BY <2>4, <2>5, <2>6 DEF QualificationTypeOK, Quotes
<1> QED
  BY <1>1, <1>2 DEF QualificationNext

(* Reports are kept for candidates, with the quotes and delays obtained.   *)
THEOREM QualificationTypeCorrect == QualificationSpec => []QualificationTypeOK
<1>1. QualificationInit => QualificationTypeOK
  BY DEF QualificationInit, QualificationTypeOK
<1> QED
  BY <1>1, QualificationTypeStep, PTL DEF QualificationSpec

(* Whatever quotes the providers give, the selection finds a pair of       *)
(* independent qualified providers whenever there is one, and the best by  *)
(* the ranking; a hot pair is as fresh as its stamps claim.                *)
THEOREM BestPairCorrect == QualificationSpec => []BestIndependentPair
BY QualificationTypeCorrect, BestOfReports, PTL
=============================================================================
