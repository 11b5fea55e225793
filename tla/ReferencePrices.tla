--------------------------- MODULE ReferencePrices ---------------------------
(***************************************************************************)
(* Reference prices of a card.  Collectors fetch what a provider quotes    *)
(* for it, judge the quote and append an observation; nothing is ever      *)
(* changed or deleted.  Parse.bot quotes PC and PlayStation in one         *)
(* response, and a quote far from the last valid one of its series is kept *)
(* but not believed; other providers' quotes are valid as they come.       *)
(* The catalogue and the hot set are collected by different tasks, so two  *)
(* retrievals of one card may overlap: each judges by what is committed    *)
(* and commits later.                                                      *)
(*                                                                         *)
(* Three readers use the rows: discovery joins the latest of each card,    *)
(* the pages show the latest valid one, and the consensus takes the latest *)
(* valid one of every provider known at a cutoff.                          *)
(*                                                                         *)
(* Cards do not interact, so there is one.                            *)
(***************************************************************************)
EXTENDS Integers, FiniteSets

CONSTANTS
  Judging,       \* providers whose quotes are judged (Parse.bot)
  Trusting,      \* providers whose quotes are not (FUT-DB), for PC only
  Price,         \* quotes
  Worker,        \* tasks that may collect
  MaxPolls,      \* bound on retrievals
  MaxTime        \* bound on the cutoffs that readers ask about

Source == Judging \cup Trusting
Platform == {"pc", "playstation"}

ASSUME ReferenceAssumption ==
  /\ Judging \cap Trusting = {}
  /\ Price \subseteq Nat
  /\ MaxPolls \in Nat
  /\ MaxTime \in Nat

VARIABLES
  observation,   \* the committed rows of reference_price_observations
  clock,         \* the last time stamped; retrievals and insertions have microseconds,
                 \* so no two have the same
  polls,         \* number of retrievals
  poll,          \* worker -> the retrieval it processes
  raced          \* history: <<source, platform>> of which two retrievals overlapped

vars == <<observation, clock, polls, poll, raced>>

NoQuote == -1
Quality == {"VALID", "SUSPECT", "QUARANTINED"}
Observation ==
  [source : Source, platform : Platform, price : Price, quality : Quality,
   observed : Nat, inserted : Nat]

Idle == [step |-> "idle"]

Init ==
  /\ observation = {}
  /\ clock = 0
  /\ polls = 0
  /\ poll = [w \in Worker |-> Idle]
  /\ raced = {}

-----------------------------------------------------------------------------
(* Judging a quote.                                                        *)

Series(source, platform) ==
  {o \in observation : o.source = source /\ o.platform = platform}

ValidOf(rows) == {o \in rows : o.quality = "VALID"}

Newest(rows) == {o \in rows : \A p \in rows : p.observed <= o.observed}

(* The price is at least n times the other, or the other way round.        *)
Apart(n, p, q) == p >= n * q \/ q >= n * p

(* Faulty variant: compared with the last observation, valid or not.       *)
PreviousOfAny(source, platform) == Newest(Series(source, platform))

(* The last valid observation of a series, if there is one.                *)
Previous(source, platform) == Newest(ValidOf(Series(source, platform)))

(* Faulty variant: without a previous price a quote is suspect.            *)
JudgmentWithoutTrust(price, previous) ==
  IF price <= 0 \/ (\E p \in previous : p.price > 0 /\ Apart(100, price, p.price))
  THEN "QUARANTINED"
  ELSE IF previous = {} \/ (\E p \in previous : p.price > 0 /\ Apart(10, price, p.price))
  THEN "SUSPECT"
  ELSE "VALID"

(* Faulty variant: a status the readers do not know.                       *)
JudgmentStale(price, previous) ==
  IF price <= 0 THEN "QUARANTINED"
  ELSE IF \E p \in previous : p.price > 0 /\ Apart(10, price, p.price) THEN "STALE"
  ELSE "VALID"

(* Ten times off the last valid price is suspect, a hundred times not even *)
(* that; the first price of a series is believed.                          *)
Judgment(price, previous) ==
  IF price <= 0 \/ (\E p \in previous : p.price > 0 /\ Apart(100, price, p.price))
  THEN "QUARANTINED"
  ELSE IF \E p \in previous : p.price > 0 /\ Apart(10, price, p.price)
  THEN "SUSPECT"
  ELSE "VALID"

QualityOf(source, platform, price) ==
  IF source \in Judging THEN Judgment(price, Previous(source, platform)) ELSE "VALID"

-----------------------------------------------------------------------------
(* One retrieval.                                                          *)

Busy == {w \in Worker : poll[w].step # "idle"}

(* Faulty variant: the retrieval takes the time the provider states.       *)
FetchWithProviderTime(w, source, quote) ==
  /\ poll[w].step = "idle"
  /\ polls < MaxPolls
  /\ source \in Trusting => quote["playstation"] = NoQuote
  /\ polls' = polls + 1
  /\ clock' = clock + 1
  /\ \E stated \in 1..clock' :
       poll' = [poll EXCEPT ![w] = [step |-> "fetched", source |-> source, observed |-> stated,
                                    quote |-> quote]]
  /\ raced' = raced \cup (IF \E v \in Busy : poll[v].source = source
                          THEN {source} \X Platform ELSE {})
  /\ UNCHANGED observation

(* The response arrives and gets its time; a quote may be missing.         *)
Fetch(w, source, quote) ==
  /\ poll[w].step = "idle"
  /\ polls < MaxPolls
  /\ source \in Trusting => quote["playstation"] = NoQuote
  /\ polls' = polls + 1
  /\ clock' = clock + 1
  /\ poll' = [poll EXCEPT ![w] = [step |-> "fetched", source |-> source, observed |-> clock',
                                  quote |-> quote]]
  /\ raced' = raced \cup (IF \E v \in Busy : poll[v].source = source
                          THEN {source} \X Platform ELSE {})
  /\ UNCHANGED observation

(* Faulty variant: inserted_at is the time of the retrieval.               *)
RowsStampedEarly(w) ==
  {[source |-> poll[w].source, platform |-> platform, price |-> poll[w].quote[platform],
    quality |-> QualityOf(poll[w].source, platform, poll[w].quote[platform]),
    observed |-> poll[w].observed, inserted |-> poll[w].observed] :
     platform \in {p \in Platform : poll[w].quote[p] # NoQuote}}

(* The rows a retrieval makes, judged and inserted now.                    *)
RowsOf(w) ==
  {[source |-> poll[w].source, platform |-> platform, price |-> poll[w].quote[platform],
    quality |-> QualityOf(poll[w].source, platform, poll[w].quote[platform]),
    observed |-> poll[w].observed, inserted |-> clock'] :
     platform \in {p \in Platform : poll[w].quote[p] # NoQuote}}

(* Judged by what others have committed, flushed, not yet committed.       *)
Judge(w) ==
  /\ poll[w].step = "fetched"
  /\ clock' = clock + 1
  /\ poll' = [poll EXCEPT ![w] = [step |-> "judged", source |-> @.source,
                                  observed |-> @.observed, rows |-> RowsOf(w)]]
  /\ UNCHANGED <<observation, polls, raced>>

Commit(w) ==
  /\ poll[w].step = "judged"
  /\ observation' = observation \cup poll[w].rows
  /\ poll' = [poll EXCEPT ![w] = Idle]
  /\ UNCHANGED <<clock, polls, raced>>

(* A savepoint or the whole task rolls back, or the worker is lost.        *)
Abandon(w) ==
  /\ poll[w].step # "idle"
  /\ poll' = [poll EXCEPT ![w] = Idle]
  /\ UNCHANGED <<observation, clock, polls, raced>>

Quotes == [Platform -> Price \cup {NoQuote}]

Next ==
  \E w \in Worker :
    \/ \E source \in Source, quote \in Quotes : Fetch(w, source, quote)
    \/ Judge(w)
    \/ Commit(w)
    \/ Abandon(w)

Spec == Init /\ [][Next]_vars

-----------------------------------------------------------------------------
(* The readers.                                                            *)

(* Discovery: the rows whose time is that of the card's latest PC row.     *)
Inputs ==
  {o \in observation : \E latest \in Newest({p \in observation : p.platform = "pc"}) :
                         o.observed = latest.observed}

(* The pages: the latest valid PC row.                                     *)
LatestReference == Newest(ValidOf({o \in observation : o.platform = "pc"}))

(* What was known at a cutoff of one segment, for backtests and consensus. *)
KnownAt(platform, cutoff) ==
  ValidOf({o \in observation : o.platform = platform /\ o.inserted <= cutoff})

(* The consensus takes of every provider the row inserted last.            *)
ConsensusOf(platform, cutoff) ==
  {o \in KnownAt(platform, cutoff) :
     \A p \in KnownAt(platform, cutoff) : p.source = o.source => p.inserted <= o.inserted}

(* The questions that point-in-time readers ask, and those no retrieval    *)
(* under way can still add to: a row is stamped when it is flushed and     *)
(* becomes visible when it is committed, so a cutoff in between is open.   *)
Question == Platform \X (0..MaxTime)

Pending(w) == IF poll[w].step = "judged" THEN poll[w].rows ELSE {}

Settled ==
  {q \in Question :
     /\ q[2] <= clock
     /\ \A w \in Worker : \A o \in Pending(w) : q[2] < o.inserted}

Known == UNION {{q} \X KnownAt(q[1], q[2]) : q \in Question}

Reads == INSTANCE PointInTime WITH answer <- Known, settled <- Settled

-----------------------------------------------------------------------------
(* Properties.                                                             *)

Poll ==
  {Idle}
    \cup [step : {"fetched"}, source : Source, observed : Nat, quote : Quotes]
    \cup [step : {"judged"}, source : Source, observed : Nat, rows : SUBSET Observation]

TypeOK ==
  /\ observation \subseteq Observation
  /\ clock \in Nat
  /\ polls \in 0..MaxPolls
  /\ poll \in [Worker -> Poll]
  /\ raced \subseteq Source \X Platform

Level(source, platform) == Newest(ValidOf(Series(source, platform)))

(* The price a judged series shows (its latest valid one) never changes    *)
(* tenfold in one step: neither one wild quote nor a run of them moves the *)
(* level, unless retrievals overlapped and judged by the same past.        *)
LevelMovesByDegrees ==
  [][\A source \in Judging, platform \in Platform :
       <<source, platform>> \notin raced' =>
         \A o \in Level(source, platform), p \in Level(source, platform)' :
           ~Apart(10, o.price, p.price)]_vars

(* Whatever overlaps: a positive quote is disbelieved only on the word of  *)
(* a valid one of the same series, known by then and that far away.        *)
DoubtHasAnchor ==
  \A o \in observation :
    o.quality # "VALID" /\ o.price > 0 =>
      \E p \in ValidOf(Series(o.source, o.platform)) :
        /\ p.inserted <= o.inserted
        /\ Apart(IF o.quality = "SUSPECT" THEN 10 ELSE 100, o.price, p.price)

(* The pages show the row observed last, the consensus takes the one       *)
(* inserted last.  They agree, and the consensus does at every cutoff,     *)
(* unless retrievals from the provider overlapped.                         *)
ReadersAgree ==
  /\ \A o \in LatestReference :
       <<o.source, "pc">> \notin raced => o \in ConsensusOf("pc", clock)
  /\ \A platform \in Platform, cutoff \in 0..clock :
       \A o \in ConsensusOf(platform, cutoff) :
         <<o.source, platform>> \notin raced =>
           \A p \in KnownAt(platform, cutoff) : p.source = o.source => p.observed <= o.observed

(* "Only observations actually inserted/retrieved by cutoff may            *)
(* participate" (features/point_in_time.py): what was known at a cutoff is *)
(* the same whenever it is asked, from the moment on that every retrieval  *)
(* stamped by then has committed or rolled back.                           *)
ReadsSettle == Reads!Spec

(* "Build the broadest practical PC candidate input set": only PC prices   *)
(* are ranked.  The code joins by card and time alone, and a Parse.bot     *)
(* response has the PC and the PlayStation price at the same time.         *)
OnlyPCRanked == \A o \in Inputs : o.platform = "pc"
=============================================================================
