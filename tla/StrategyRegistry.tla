-------------------------- MODULE StrategyRegistry --------------------------
(***************************************************************************)
(* The strategy library under its two writers: the seed script, which      *)
(* classifies strategies by the evidence of a file                         *)
(* (services/strategy_research.py), and the backtest task or script, which *)
(* measures them on closed shadow trades (services/strategy_backtesting.py)*)
(* Both run one long READ COMMITTED transaction over all strategies: they  *)
(* read rows first, lock a row when its UPDATE or INSERT is flushed, and   *)
(* write only the columns that differ from what they read.                 *)
(***************************************************************************)
EXTENDS Integers, Sequences, FiniteSets, FiniteSetsExt

CONSTANTS Strategy,         \* rows of strategy_library, by slug
          Seeder, Tester,   \* processes that may run the two transactions
          FileOrder,        \* the strategies as config/strategies.yaml lists them
          SlugOrder,        \* the strategies in the order of their slugs
          KeyOrder,         \* and of their primary keys
          SeedSource,       \* entries of config/strategy_research_seed.yaml
          Contradicting,    \* those whose direction is contradicts or negative
          Quality,          \* quality_score of each entry, in hundredths
          Editions,         \* successive contents of that file
          Samples,          \* closed shadow trades: number, wins, net profit
          MaxWork           \* bound: transactions begun

ASSUME RegistryAssumption ==
    /\ \A order \in {FileOrder, SlugOrder, KeyOrder} :
          /\ order \in Seq(Strategy)
          /\ \A s \in Strategy : \E k \in DOMAIN order : order[k] = s
          /\ \A j, k \in DOMAIN order : order[j] = order[k] => j = k
    /\ Contradicting \subseteq SeedSource
    /\ Quality \in [SeedSource -> Nat]
    /\ Editions \in Seq(SUBSET SeedSource) /\ Editions # << >>
    /\ Samples \subseteq [n : Nat, wins : Nat, profit : Int]
    /\ [n |-> 0, wins |-> 0, profit |-> 0] \in Samples
    /\ Seeder \cap Tester = {}
    /\ {"nobody", "undone"} \cap (Seeder \cup Tester) = {}
    /\ MaxWork \in Nat

VARIABLES library,   \* committed rows of strategy_library
          evidence,  \* committed strategy_evidence: rows of each source
          runs,      \* backtest runs with their snapshots, by finished_at; by "nobody"
                     \* once committed, "undone" once rolled back
          holder,    \* who holds the row (or the inserted slug)
          work,      \* transactions under way
          closed,    \* closed shadow trades of each strategy
          edition,   \* the content of the seed file
          raced,     \* strategies written last by someone who read an older row
          begun      \* transactions begun so far

registryVars == <<library, evidence, runs, holder, work, closed, edition, raced, begun>>

Writer == Seeder \cup Tester

Class     == {"INCONCLUSIVE", "PLAUSIBLE", "STRONG", "PROVEN", "OUTDATED"}
Viability == {"source_only", "mixed_evidence", "insufficient", "negative",
              "viable", "promising", "mixed"}
NoRow     == [class |-> "none", viability |-> "none", locked |-> FALSE]
NewRow    == [class |-> "INCONCLUSIVE", viability |-> "source_only", locked |-> FALSE]
LibraryRow       == [class : Class, viability : Viability, locked : BOOLEAN]
AtRest      == [stage |-> "idle", at |-> 1, read |-> [s \in Strategy |-> NoRow],
              stale |-> {}, found |-> {}, added |-> [s \in Strategy |-> {}]]

RegistryTypeOK ==
    /\ library \in [Strategy -> LibraryRow \cup {NoRow}]
    /\ evidence \in [Strategy -> [SeedSource -> Nat]]
    /\ runs \in [Strategy -> Seq([of : Samples, by : Writer \cup {"nobody", "undone"}])]
    /\ holder \in [Strategy -> Writer \cup {"nobody"}]
    /\ work \in [Writer -> [stage : {"idle", "read", "lock", "store"}, at : Nat \ {0},
                             read : [Strategy -> LibraryRow \cup {NoRow}],
                             stale : SUBSET Strategy, found : SUBSET Strategy,
                             added : [Strategy -> SUBSET SeedSource]]]
    /\ closed \in [Strategy -> Samples]
    /\ edition \in DOMAIN Editions
    /\ raced \subseteq Strategy
    /\ begun \in 0..MaxWork

\* An older file may have brought some strategies already.
RegistryInit ==
    /\ library  \in [Strategy -> {NoRow, NewRow}]
    /\ evidence = [s \in Strategy |-> [e \in SeedSource |-> 0]]
    /\ runs     = [s \in Strategy |-> << >>]
    /\ holder   = [s \in Strategy |-> "nobody"]
    /\ work     = [w \in Writer |-> AtRest]
    /\ closed   = [s \in Strategy |-> [n |-> 0, wins |-> 0, profit |-> 0]]
    /\ edition  = 1
    /\ raced    = {}
    /\ begun    = 0

(***************************************************************************)
(* The two classifications.                                                *)
(***************************************************************************)
\* EvidenceRows of the evidence table that speak for a strategy, or against it.
EvidenceRows(ev, sources) == MapThenSumSet(LAMBDA e : ev[e], sources)

\* _classify: what a strategy is by its evidence alone.
Qualitative(ev) ==
    LET for     == SeedSource \ Contradicting
        quality == MapThenSumSet(LAMBDA e : ev[e] * Quality[e], for)
    IN  [class     |-> IF EvidenceRows(ev, for) >= 3 /\ quality >= 200 THEN "STRONG"
                       ELSE IF EvidenceRows(ev, for) > 0 THEN "PLAUSIBLE" ELSE "INCONCLUSIVE",
         viability |-> IF EvidenceRows(ev, Contradicting) > 0 THEN "mixed_evidence" ELSE "source_only",
         locked    |-> FALSE]

\* _classify_measured: what a strategy is by its closed trades.
Measured(m) ==
    LET is(class, viability) == [class |-> class, viability |-> viability, locked |-> TRUE]
    IN  CASE m.n < 10                     -> is("INCONCLUSIVE", "insufficient")
          [] m.n >= 20 /\ m.profit < 0    -> is("OUTDATED", "negative")
          [] m.n >= 50 /\ 100 * m.wins >= 58 * m.n /\ m.profit > 0
                                          -> is("PROVEN", "viable")
          [] /\ m.n >= 25 /\ 100 * m.wins >= 54 * m.n /\ m.profit > 0
             /\ ~(m.n >= 50 /\ 100 * m.wins >= 58 * m.n)
                                          -> is("STRONG", "promising")
          [] OTHER                        -> is("INCONCLUSIVE", "mixed")

\* An UPDATE carries the columns in which the object differs from what was read.
Written(now, read, new) ==
    [c \in DOMAIN new |-> IF new[c] = read[c] THEN now[c] ELSE new[c]]

-----------------------------------------------------------------------------
(***************************************************************************)
(* Row locks and the end of a transaction.                                 *)
(***************************************************************************)
Held(w)  == {s \in Strategy : holder[s] = w}

\* What a seed run flushes: every row it has read and not written yet.
Read(w) == {FileOrder[k] : k \in 1..(work[w].at - 1)}

\* A flush writes no row that the file does not change (faulty variant of Due).
DueNew(w) == {s \in Read(w) \ Held(w) : work[w].read[s] = NoRow}

Due(w) == Read(w) \ Held(w)

\* The rows of a flush are updated in the order of their keys before a new one
\* is inserted.
Flushes(w) ==
    LET old == {s \in Due(w) : work[w].read[s] # NoRow}
    IN  IF old = {} THEN CHOOSE s \in Due(w) : TRUE
        ELSE KeyOrder[Min({k \in DOMAIN KeyOrder : KeyOrder[k] \in old})]

\* The backtests of one process do not sort by slug (faulty variant of Visit).
VisitUnsorted(w) == IF w = CHOOSE v \in Tester : TRUE THEN FileOrder ELSE SlugOrder

\* The order in which a backtest comes to the rows.
Visit(w) == SlugOrder

\* The row w is about to write.
Goal(w) == IF w \in Tester THEN Visit(w)[work[w].at] ELSE Flushes(w)

\* w waits for v: v holds the row that w is about to write.
Waits(w, v) ==
    /\ work[w].stage = "lock" /\ v # w
    /\ w \in Seeder => Due(w) # {}
    /\ holder[Goal(w)] = v

Begin(w, read) ==
    /\ work[w].stage = "idle"
    /\ begun < MaxWork
    /\ begun' = begun + 1
    /\ work' = [work EXCEPT ![w] = [AtRest EXCEPT !.stage = "read", !.read = read]]
    /\ UNCHANGED <<library, evidence, runs, holder, closed, edition, raced>>

\* The UPDATE or INSERT of the row w came to: it waits for the holder.
Lock(w) ==
    /\ work[w].stage = "lock"
    /\ holder[Goal(w)] = "nobody"
    /\ holder' = [holder EXCEPT ![Goal(w)] = w]

\* A commit releases the rows and makes older reads of them stale.
Release(w) ==
    /\ holder' = [s \in Strategy |-> IF holder[s] = w THEN "nobody" ELSE holder[s]]
    /\ work' = [v \in Writer |->
                   IF v = w THEN AtRest
                   ELSE IF work[v].stage = "idle" THEN work[v]
                   ELSE [work[v] EXCEPT !.stale = @ \cup Held(w)]]

\* The runs of w, signed over.
Signed(w, to) ==
    [s \in Strategy |-> [k \in DOMAIN runs[s] |->
        IF runs[s][k].by = w THEN [runs[s][k] EXCEPT !.by = to] ELSE runs[s][k]]]

\* A worker is lost, a unique key fails, or the database chooses a victim
\* among transactions that wait for each other.
Abandon(w) ==
    /\ work[w].stage # "idle"
    /\ holder' = [s \in Strategy |-> IF holder[s] = w THEN "nobody" ELSE holder[s]]
    /\ work' = [work EXCEPT ![w] = AtRest]
    /\ runs' = Signed(w, "undone")
    /\ UNCHANGED <<library, evidence, closed, edition, raced, begun>>

(***************************************************************************)
(* The seed script: the strategies are read in the order of the file; a    *)
(* missing one is inserted at once, in a flush that also writes what was   *)
(* read so far, the others are written at the end. Then the evidence is    *)
(* read and added.                                                         *)
(***************************************************************************)
SeedBegin(w) == w \in Seeder /\ Begin(w, AtRest.read)

SeedRead(w) ==
    /\ w \in Seeder
    /\ work[w].stage = "read" /\ work[w].at <= Len(FileOrder)
    /\ LET s == FileOrder[work[w].at]
       IN  work' = [work EXCEPT ![w].at = @ + 1, ![w].read[s] = library[s], ![w].stale = @ \ {s},
                                ![w].stage = IF library[s] = NoRow \/ work[w].at = Len(FileOrder)
                                             THEN "lock" ELSE "read"]
    /\ UNCHANGED <<library, evidence, runs, holder, closed, edition, raced, begun>>

\* An insert whose slug was committed meanwhile fails: only Abandon is left.
SeedLock(w) ==
    /\ w \in Seeder
    /\ Due(w) # {}
    /\ Lock(w)
    /\ work[w].read[Goal(w)] = NoRow => library[Goal(w)] = NoRow
    /\ UNCHANGED <<library, evidence, runs, work, closed, edition, raced, begun>>

\* The flush is over.
SeedFlushed(w) ==
    /\ w \in Seeder
    /\ work[w].stage = "lock" /\ Due(w) = {}
    /\ work' = [work EXCEPT ![w].stage = "read"]
    /\ UNCHANGED <<library, evidence, runs, holder, closed, edition, raced, begun>>

\* The mark of a measured row is not looked at (faulty variant of Reseeded).
ReseededAlways(now, read, ev) ==
    IF now = NoRow THEN Qualitative(ev)
    ELSE [Written(now, IF read = NoRow THEN NewRow ELSE read, Qualitative(ev))
             EXCEPT !.locked = now.locked]

\* What the classification by evidence leaves of a row: nothing is changed
\* when the row was measured by the time it was read.
Reseeded(now, read, ev) ==
    LET before == IF read = NoRow THEN NewRow ELSE read
    IN  IF before.locked THEN now
        ELSE IF now = NoRow THEN Qualitative(ev)
        ELSE [Written(now, before, Qualitative(ev)) EXCEPT !.locked = now.locked]

\* The row that the loop over the file ends with. Its variable keeps the object,
\* as it was read, alive.
LastOfFile == FileOrder[Len(FileOrder)]

\* All rows, which are locked by now, are selected again; that gives new objects
\* for all but the last. Then entries of the file that are not stored yet are
\* found for each strategy.
SeedEvidence(w) ==
    /\ w \in Seeder
    /\ work[w].stage = "read" /\ work[w].at > Len(FileOrder)
    /\ work' = [work EXCEPT ![w].stage = "store",
                            ![w].read = [library EXCEPT ![LastOfFile] = work[w].read[LastOfFile]],
                            ![w].stale = @ \cap {LastOfFile},
                            ![w].added = [s \in Strategy |->
                                {e \in Editions[edition] : evidence[s][e] = 0}]]
    /\ UNCHANGED <<library, evidence, runs, holder, closed, edition, raced, begun>>

SeedCommit(w) ==
    /\ w \in Seeder
    /\ work[w].stage = "store"
    /\ LET read == work[w].read
           with(s) == [e \in SeedSource |->
                          evidence[s][e] + (IF e \in work[w].added[s] THEN 1 ELSE 0)]
       IN  /\ evidence' = [s \in Strategy |-> with(s)]
           /\ library' = [s \in Strategy |-> Reseeded(library[s], read[s], with(s))]
           /\ raced' = raced \cup {s \in work[w].stale : ~read[s].locked}
    /\ Release(w)
    /\ UNCHANGED <<runs, closed, edition, begun>>

(***************************************************************************)
(* The backtests: all rows are read at once; a strategy is measured when   *)
(* its closed trades outnumber the sample of its latest run.               *)
(***************************************************************************)
TestBegin(w) == w \in Tester /\ Begin(w, library)

\* The latest run w can see, by finished_at.
LatestRun(s, w) ==
    LET seen == {k \in DOMAIN runs[s] : runs[s][k].by \in {w, "nobody"}}
    IN  IF seen = {} THEN -1 ELSE runs[s][Max(seen)].of.n

Measuring(w) == /\ w \in Tester
                /\ work[w].stage = "read"
                /\ work[w].at <= Len(SlugOrder)

TestSkip(w) ==
    /\ Measuring(w)
    /\ \/ work[w].read[Goal(w)] = NoRow
       \/ LatestRun(Goal(w), w) >= closed[Goal(w)].n
    /\ work' = [work EXCEPT ![w].at = @ + 1]
    /\ UNCHANGED <<library, evidence, runs, holder, closed, edition, raced, begun>>

TestMeasure(w) ==
    LET s == Goal(w)
    IN  /\ Measuring(w)
        /\ work[w].read[s] # NoRow
        /\ LatestRun(s, w) < closed[s].n
        /\ runs' = [runs EXCEPT ![s] = Append(@, [of |-> closed[s], by |-> w])]
        /\ work' = IF closed[s].n = 0 THEN [work EXCEPT ![w].at = @ + 1]
                   ELSE [work EXCEPT ![w].stage = "lock"]
        /\ UNCHANGED <<library, evidence, holder, closed, edition, raced, begun>>

TestLock(w) ==
    /\ w \in Tester
    /\ Lock(w)
    /\ work' = [work EXCEPT ![w].stage = "read", ![w].at = @ + 1,
                            ![w].found = @ \cup {Goal(w)}]
    /\ UNCHANGED <<library, evidence, runs, closed, edition, raced, begun>>

\* The sample w measured s on.
FoundBy(w, s) == runs[s][Max({k \in DOMAIN runs[s] : runs[s][k].by = w})].of

TestCommit(w) ==
    /\ w \in Tester
    /\ work[w].stage = "read" /\ work[w].at > Len(SlugOrder)
    /\ library' = [s \in Strategy |->
                      IF s \notin work[w].found THEN library[s]
                      ELSE Written(library[s], work[w].read[s], Measured(FoundBy(w, s)))]
    /\ runs' = Signed(w, "nobody")
    /\ raced' = (raced \ work[w].found) \cup (work[w].found \cap work[w].stale)
    /\ Release(w)
    /\ UNCHANGED <<evidence, closed, edition, begun>>

(***************************************************************************)
(* What the two read: shadow trades get closed, the file gets longer.      *)
(***************************************************************************)
CloseTrades(s) ==
    /\ \E m \in Samples : m.n > closed[s].n /\ closed' = [closed EXCEPT ![s] = m]
    /\ UNCHANGED <<library, evidence, runs, holder, work, edition, raced, begun>>

EditFile ==
    /\ edition < Len(Editions)
    /\ edition' = edition + 1
    /\ UNCHANGED <<library, evidence, runs, holder, work, closed, raced, begun>>

RegistryNext ==
    \/ \E w \in Writer : \/ SeedBegin(w) \/ SeedRead(w) \/ SeedLock(w) \/ SeedFlushed(w)
                         \/ SeedEvidence(w) \/ SeedCommit(w)
                         \/ TestBegin(w) \/ TestSkip(w) \/ TestMeasure(w)
                         \/ TestLock(w) \/ TestCommit(w) \/ Abandon(w)
    \/ \E s \in Strategy : CloseTrades(s)
    \/ EditFile

RegistrySpec == RegistryInit /\ [][RegistryNext]_registryVars

-----------------------------------------------------------------------------
(***************************************************************************)
(* Correctness.                                                            *)
(***************************************************************************)
\* The sample of the latest performance snapshot, as recognition reads it.
Performances(s)      == {k \in DOMAIN runs[s] : runs[s][k].by = "nobody" /\ runs[s][k].of.n > 0}
LatestPerformance(s) == runs[s][Max(Performances(s))].of

\* A measured strategy is shown with the class of the sample that is shown
\* with it, unless the last writer had read an older row: a reseeding leaves
\* the measurement alone, also one that was committed while it ran, but for
\* the strategy the file ends with; a backtest replaces all of it.
StatusFollowsMeasurement ==
    \A s \in Strategy : library[s].locked /\ s \notin raced =>
        library[s] = Measured(LatestPerformance(s))

\* However seed runs overlap, no entry of the file is counted twice: every
\* run has locked all strategies before it looks for what is stored.
EvidenceCountedOnce ==
    \A s \in Strategy, e \in SeedSource : evidence[s][e] <= 1

\* w is about to insert a strategy that was committed since it looked for it.
Outrun(w) == w \in Seeder /\ work[w].read[Goal(w)] = NoRow /\ library[Goal(w)] # NoRow

\* Two backtests never wait for each other, nor do two seed runs unless one of
\* them is to fail anyway, its insert outrun: only a seed run and a backtest,
\* which visit the strategies in different orders, can.
LikesNeverDeadlock ==
    \A w, v \in Writer :
        Waits(w, v) /\ Waits(v, w) => (w \in Seeder) # (v \in Seeder) \/ Outrun(w) \/ Outrun(v)

=============================================================================
