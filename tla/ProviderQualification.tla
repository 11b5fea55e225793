------------------------ MODULE ProviderQualification ------------------------
(***************************************************************************)
(* The qualification of price providers (validation/evaluate.py) and the   *)
(* choice of two independent ones for a role (validation/select.py). Each  *)
(* evaluation pairs a provider's quotes with a manual benchmark and makes  *)
(* the report that later selections and gates read.                        *)
(***************************************************************************)
EXTENDS Integers, Sequences, FiniteSets, FiniteSetsExt

CONSTANTS Candidate,   \* providers, numbered in the order of their keys
          Authorized,  \* those whose terms allow automation
          PcMarket,    \* those with a distinct PC market
          Provenance,  \* where the data of each may come from, or "unknown"
          Basket,      \* number of benchmark cards; the first are fodder
          Fodder,      \* how many of them are
          MinPriced,   \* priced cards required, and of the fodder
          MinFodder,
          MaxAge,      \* seconds a hot quote may be old (300 in the code)
          MinEvents,   \* observed propagations required (5 in the code)
          Quoted,      \* quotes that may be obtained for a card
          Delays       \* series of propagation delays that may be observed

ASSUME QualificationAssumption ==
    /\ Candidate \subseteq Nat /\ IsFiniteSet(Candidate)
    /\ Authorized \subseteq Candidate /\ PcMarket \subseteq Candidate
    /\ Basket \in Nat \ {0} /\ Fodder \in 0..Basket
    /\ MinPriced \in Nat /\ MinFodder \in Nat /\ MaxAge \in Nat /\ MinEvents \in Nat \ {0}
    /\ Quoted \subseteq [stamped : BOOLEAN, age : Int, error : Nat, latency : Nat, skewed : BOOLEAN]
    /\ Delays \subseteq Seq(Int)

VARIABLES upstream,  \* where the data of each provider comes from
          reports    \* the observations of each provider tested, the priced cards'

qualificationVars == <<upstream, reports>>

NoPair   == << >>
Infinite == 100000000
Quotes   == UNION {[cards -> Quoted] : cards \in SUBSET (1..Basket)}

QualificationTypeOK ==
    /\ upstream \in Provenance
    /\ DOMAIN reports \subseteq Candidate
    /\ \A p \in DOMAIN reports : reports[p] \in [quotes : Quotes, delays : Delays]

QualificationInit == upstream \in Provenance /\ reports = << >>

\* pair_observations and evaluate_provider: a report on a provider.
Evaluate(p) ==
    /\ p \notin DOMAIN reports
    /\ \E quotes \in Quotes, delays \in Delays :
          reports' = [q \in DOMAIN reports \cup {p} |->
                         IF q = p THEN [quotes |-> quotes, delays |-> delays] ELSE reports[q]]
    /\ UNCHANGED upstream

QualificationNext == \E p \in Candidate : Evaluate(p)

QualificationSpec == QualificationInit /\ [][QualificationNext]_qualificationVars

-----------------------------------------------------------------------------
\* Figures are kept by the card, or the event, they were measured on.
Values(xs) == {xs[k] : k \in DOMAIN xs}
Size(xs)   == Cardinality(DOMAIN xs)

Priced(p)  == reports[p].quotes
Stamped(p) == {k \in DOMAIN Priced(p) : Priced(p)[k].stamped}

\* Ages are never negative: a stamp after the observation counts as fresh.
Ages(p) == [k \in Stamped(p) |-> IF Priced(p)[k].age < 0 THEN 0 ELSE Priced(p)[k].age]

\* In ascending order: the k-th is the least that k figures do not exceed.
Ordered(xs) ==
    [k \in 1..Size(xs) |->
        Min({v \in Values(xs) : Cardinality({j \in DOMAIN xs : xs[j] <= v}) >= k})]
Largest(xs) == Max(Values(xs))

\* percentile(xs, 95), in twentieths, interpolated between neighbours.
Interpolated(sorted, rank) ==
    sorted[rank \div 20 + 1] * (20 - (rank % 20))
        + (IF rank % 20 = 0 THEN 0 ELSE sorted[rank \div 20 + 2] * (rank % 20))
P95(xs) == IF Size(xs) = 0 THEN Infinite ELSE Interpolated(Ordered(xs), 19 * (Size(xs) - 1))

\* median(xs), doubled.
Middle(sorted, n) == sorted[(n + 1) \div 2] + sorted[n \div 2 + 1]
Median(xs) == IF Size(xs) = 0 THEN Infinite ELSE Middle(Ordered(xs), Size(xs))

\* The benchmark is complete: enough priced cards, in each category, taken at
\* about the same time.
FullBenchmark(p) ==
    /\ p \in PcMarket
    /\ Size(Priced(p)) >= MinPriced
    /\ Cardinality((1..Fodder) \cap DOMAIN Priced(p)) >= MinFodder
    /\ \A k \in DOMAIN Priced(p) : ~Priced(p)[k].skewed

\* By the stamps when every priced quote has one, else by propagation.
FreshnessProven(p) ==
    IF Stamped(p) # {} /\ Stamped(p) = DOMAIN Priced(p) THEN Largest(Ages(p)) <= MaxAge
    ELSE Len(reports[p].delays) >= MinEvents /\ Largest(reports[p].delays) <= MaxAge

\* The price roles of a report; the others are what the profile declares.
Supports(p, role) ==
    /\ p \in DOMAIN reports
    /\ p \in Authorized
    /\ FullBenchmark(p) /\ DOMAIN Priced(p) # {}
    /\ role = "hot_reference" => FreshnessProven(p)

-----------------------------------------------------------------------------
\* _rank_key.
Accuracy(p)  == Median([k \in DOMAIN Priced(p) |-> Priced(p)[k].error])
Freshness(p) == P95(IF Stamped(p) # {} THEN Ages(p) ELSE reports[p].delays)
Latency(p)   == P95([k \in DOMAIN Priced(p) |-> Priced(p)[k].latency])
RankKey(p, role) ==
    IF role = "hot_reference" THEN <<Freshness(p), Accuracy(p), Latency(p), p>>
    ELSE <<Accuracy(p), Freshness(p), Latency(p), p>>

Precedes(x, y) == \E k \in 1..4 : x[k] < y[k] /\ \A j \in 1..(k - 1) : x[j] = y[j]

\* rank_providers_for_role.
Eligible(role) == {p \in Candidate : Supports(p, role)}
Keys(role)     == [p \in Eligible(role) |-> RankKey(p, role)]
InOrder(key) ==
    [k \in 1..Cardinality(DOMAIN key) |->
        CHOOSE p \in DOMAIN key : Cardinality({q \in DOMAIN key : Precedes(key[q], key[p])}) = k - 1]

Independent(p, q) == "unknown" \notin {upstream[p], upstream[q]} /\ upstream[p] # upstream[q]

\* Only the first of the ranking is tried as primary (faulty variant).
ProviderPairOfFirst(order) ==
    LET later == {k \in 2..Len(order) : Independent(order[1], order[k])}
    IN  IF later = {} THEN NoPair ELSE <<order[1], order[Min(later)]>>

\* select_provider_pair: the first provider of the ranking that has an
\* independent one after it, with the first of those.
ProviderPair(order) ==
    LET later   == [i \in DOMAIN order |-> {k \in (i + 1)..Len(order) : Independent(order[i], order[k])}]
        primary == {i \in DOMAIN order : later[i] # {}}
    IN  IF primary = {} THEN NoPair
        ELSE <<order[Min(primary)], order[Min(later[Min(primary)])]>>

-----------------------------------------------------------------------------
\* A pair is chosen whenever two independent providers qualify, however the
\* others rank; nobody who has an independent partner ranks before the primary,
\* and no other partner of the primary before the fallback; a hot pair whose
\* quotes are all stamped has none that is older than the limit.
BestIndependentPair ==
    \A role \in {"hot_reference", "reference"} :
        \E key \in {Keys(role)} : \E chosen \in {ProviderPair(InOrder(key))} :
            IF \A p, q \in DOMAIN key : ~Independent(p, q) THEN chosen = NoPair
            ELSE /\ chosen # NoPair
                 /\ {chosen[1], chosen[2]} \subseteq DOMAIN key
                 /\ Independent(chosen[1], chosen[2])
                 /\ \A p \in DOMAIN key \ {chosen[1]} :
                       (\E q \in DOMAIN key : Independent(p, q)) => Precedes(key[chosen[1]], key[p])
                 /\ \A p \in DOMAIN key \ {chosen[2]} :
                       Independent(chosen[1], p) => Precedes(key[chosen[2]], key[p])
                 /\ role = "hot_reference" =>
                       \A p \in {chosen[1], chosen[2]} :
                           LET quotes == {reports[p].quotes[k] : k \in DOMAIN reports[p].quotes}
                           IN  (\A q \in quotes : q.stamped) => \A q \in quotes : q.age <= MaxAge

=============================================================================
