------------------------ MODULE FeedCollectionProofs ------------------------
(***************************************************************************)
(* Proofs about the collection of a feed, for every number of pollers, any *)
(* window and any set of malformed items: type correctness, that the       *)
(* stored ETag never runs ahead of the stored items, and that polls that   *)
(* claim completeness have missed nothing silently.                        *)
(*                                                                         *)
(* The second rests on two facts about the polls under way: what a poll    *)
(* holds is complete together with the items stored meanwhile, because     *)
(* items are only ever added; and a poll that was answered 304 writes no   *)
(* ETag, because the one it would write is the one it read.                *)
(*                                                                         *)
(* The third needs more, because columns of the state may come from        *)
(* different polls: of the row and of every row a poll has read, both the  *)
(* version and the time of the last success can be relied on; and what a   *)
(* response does not show, though it is not younger than its stamp, is     *)
(* excused.  A complete window then reaches back to a time all older items *)
(* of which were dealt with.                                               *)
(***************************************************************************)
EXTENDS FeedCollection, SequenceTheorems, TLAPS

(* What parses of a version is among the items published.                  *)
LEMMA ParsedInRange ==
  ASSUME NEW v \in Version
  PROVE  Parsed(v) \subseteq 1..MaxItems
  BY FeedAssumption DEF Parsed, Window, Version

(* The gap status is one of three words.                                   *)
LEMMA GapType ==
  ASSUME NEW v, NEW previous, NEW at
  PROVE  Gap(v, previous, at) \in {"UNKNOWN_COVERAGE", "COMPLETE_WINDOW", "POSSIBLE_GAP"}
  BY DEF Gap

(* An UPDATE yields a row, and writes the ETag only when it differs from   *)
(* the one that was read.                                                  *)
LEMMA MergeType ==
  ASSUME state \in FeedState, NEW read \in FeedState, NEW written \in FeedState
  PROVE  /\ Merge(read, written) \in FeedState
         /\ Merge(read, written).etag = IF written.etag # read.etag
                                        THEN written.etag ELSE state.etag
  BY DEF Merge, FeedState

-----------------------------------------------------------------------------
(* Type correctness.                                                       *)

(* A poll leaves its row and everything else typed.                        *)
LEMMA RejectType ==
  ASSUME TypeOK, NEW p \in Poller, Reject(p)
  PROVE  TypeOK'
<1>1. state' \in FeedState
  BY DEF TypeOK, Reject, FeedState
<1>2. poll' \in [Poller -> Poll]
  BY DEF TypeOK, Reject, Poll
<1> QED
  BY <1>1, <1>2 DEF TypeOK, Reject

(* The commit of a poll that succeeded leaves everything it writes typed.  *)
LEMMA SucceedType ==
  ASSUME TypeOK, NEW p \in Poller, NEW written \in FeedState,
         poll[p].seen \in FeedState, Succeed(p, written)
  PROVE  /\ state' \in FeedState
         /\ poll' \in [Poller -> Poll]
         /\ runs' \subseteq {"success"}
<1>1. state' \in FeedState
  BY MergeType DEF TypeOK, Succeed
<1>2. poll' \in [Poller -> Poll]
  BY DEF TypeOK, Succeed, Poll
<1> QED
  BY <1>1, <1>2 DEF TypeOK, Succeed

(* What a poll of each kind holds.                                         *)
LEMMA PollFields ==
  ASSUME TypeOK, NEW p \in Poller
  PROVE  /\ poll[p].step = "started" => poll[p].seen \in FeedState
         /\ poll[p].step \in {"answered", "received", "ingested"} =>
              poll[p].seen \in FeedState /\ poll[p].version \in Version
         /\ poll[p].step \in {"answered", "received"} => poll[p].code \in {200, 304}
         /\ poll[p].step \in {"received", "ingested"} => poll[p].at \in 1..MaxTime
         /\ poll[p].step = "ingested" => poll[p].fresh \subseteq 1..MaxItems
  BY DEF TypeOK, Poll, Idle

LEMMA InitType == Init => TypeOK
<1> SUFFICES ASSUME Init PROVE TypeOK
  OBVIOUS
<1>1. state \in FeedState
  BY FeedAssumption DEF Init, FeedState, Never, NoTag
<1>2. poll \in [Poller -> Poll]
  BY DEF Init, Poll
<1>3. feed \in Seq(1..MaxTime) /\ Len(feed) <= MaxItems
  BY FeedAssumption DEF Init
<1>4. now \in 1..MaxTime
  BY FeedAssumption DEF Init
<1>5. stamp \in 0..MaxTime
  BY FeedAssumption DEF Init, Never
<1>6. first \in Version \cup {NoTag} /\ claimed \in BOOLEAN
  BY DEF Init
<1>7. /\ events \subseteq 1..MaxItems /\ raw \subseteq Version
      /\ runs \subseteq {"success"} /\ excused \subseteq 1..MaxItems
  BY DEF Init
<1> QED
  BY <1>1, <1>2, <1>3, <1>4, <1>5, <1>6, <1>7 DEF TypeOK

LEMMA StepType == TypeOK /\ [Next]_vars => TypeOK'
<1> SUFFICES ASSUME TypeOK, [Next]_vars PROVE TypeOK'
  OBVIOUS
<1>1. CASE Tick
  BY <1>1, FeedAssumption DEF Tick, TypeOK, tables, history
<1>2. CASE Publish
  <2>1. feed' \in Seq(1..MaxTime) /\ Len(feed') <= MaxItems
    BY <1>2, FeedAssumption DEF TypeOK, Publish
  <2>2. Len(feed) + 1 \in 1..MaxItems
    BY <1>2, FeedAssumption DEF TypeOK, Publish
  <2>3. excused' = excused \/ excused' = excused \cup {Len(feed) + 1}
    BY <1>2, Zenon DEF Publish
  <2>4. excused' \subseteq 1..MaxItems
    BY <2>2, <2>3 DEF TypeOK
  <2> QED
    BY <1>2, <2>1, <2>4 DEF TypeOK, Publish, tables
<1>3. ASSUME NEW p \in Poller, Start(p)
      PROVE  TypeOK'
  <2>1. poll' \in [Poller -> Poll]
    BY <1>3 DEF TypeOK, Start, Poll
  <2> QED
    BY <1>3, <2>1 DEF TypeOK, Start, tables, history
<1>4. ASSUME NEW p \in Poller, Answer(p)
      PROVE  TypeOK'
  <2>1. Len(feed) \in Version
    BY FeedAssumption DEF TypeOK, Version
  <2>2. poll' \in [Poller -> Poll]
    BY <1>4, <2>1, PollFields DEF TypeOK, Answer, Poll
  <2> QED
    BY <1>4, <2>2 DEF TypeOK, Answer, tables, history
<1>5. ASSUME NEW p \in Poller, Receive(p)
      PROVE  TypeOK'
  <2>1. poll' \in [Poller -> Poll]
    BY <1>5, PollFields DEF TypeOK, Receive, Poll
  <2> QED
    BY <1>5, <2>1, FeedAssumption DEF TypeOK, Receive, tables
<1>6. ASSUME NEW p \in Poller, Ingest(p)
      PROVE  TypeOK'
  <2> DEFINE held == [step |-> "ingested", code |-> 200, version |-> poll[p].version,
                      at |-> poll[p].at,
                      seen |-> IF poll[p].seen.row THEN poll[p].seen ELSE state,
                      tied |-> poll[p].version \in raw,
                      fresh |-> Parsed(poll[p].version) \ events]
  <2>1. held \in Poll
    BY <1>6, PollFields, ParsedInRange DEF TypeOK, Ingest, Poll
  <2>2. poll' = [poll EXCEPT ![p] = held]
    BY <1>6 DEF Ingest
  <2>3. poll' \in [Poller -> Poll]
    BY <2>1, <2>2 DEF TypeOK
  <2> QED
    BY <1>6, <2>3 DEF TypeOK, Ingest, tables, history
<1>7. ASSUME NEW p \in Poller, Commit(p)
      PROVE  TypeOK'
  <2> DEFINE a == poll[p]
             gap == Gap(a.version, a.seen.success, a.at)
             written == [row |-> TRUE, etag |-> a.version, success |-> a.at, gap |-> gap]
  <2>1. /\ a.step = "ingested"
        /\ events' = events \cup a.fresh
        /\ raw' = raw \cup {a.version}
        /\ first' = IF first = NoTag THEN a.version ELSE first
        /\ claimed' \in BOOLEAN
        /\ Succeed(p, written)
    BY <1>7 DEF Commit
  <2>2. /\ a.seen \in FeedState /\ a.version \in Version /\ a.at \in 1..MaxTime
        /\ a.fresh \subseteq 1..MaxItems
    BY <2>1, PollFields
  <2>3. gap \in {"UNKNOWN_COVERAGE", "COMPLETE_WINDOW", "POSSIBLE_GAP"}
    BY GapType
  <2> HIDE DEF gap
  <2>4. written \in FeedState
    BY <2>2, <2>3, FeedAssumption DEF FeedState
  <2>5. /\ state' \in FeedState
        /\ poll' \in [Poller -> Poll]
        /\ runs' \subseteq {"success"}
    BY <2>1, <2>2, <2>4, SucceedType
  <2>6. UNCHANGED <<now, feed, stamp, excused>>
    BY <2>1 DEF Succeed
  <2> QED
    BY <2>1, <2>2, <2>5, <2>6 DEF TypeOK
<1>8. ASSUME NEW p \in Poller, CommitNotModified(p)
      PROVE  TypeOK'
  <2> DEFINE a == poll[p]
             written == [a.seen EXCEPT !.etag = a.version, !.success = a.at]
  <2>1. /\ a.step = "received"
        /\ Succeed(p, written)
        /\ UNCHANGED <<events, raw, first, claimed>>
    BY <1>8 DEF CommitNotModified
  <2>2. a.seen \in FeedState /\ a.version \in Version /\ a.at \in 1..MaxTime
    BY <2>1, PollFields
  <2>3. written \in FeedState
    <3> DEFINE s == a.seen
               v == a.version
               t == a.at
    <3>1. /\ s \in FeedState /\ v \in Version \cup {NoTag}
          /\ t \in 0..MaxTime
      BY <2>2, FeedAssumption
    <3> HIDE DEF s, v, t
    <3>2. [s EXCEPT !.etag = v, !.success = t] \in FeedState
      BY <3>1 DEF FeedState
    <3> QED
      BY <3>2 DEF s, v, t
  <2>4. /\ state' \in FeedState
        /\ poll' \in [Poller -> Poll]
        /\ runs' \subseteq {"success"}
    BY <2>1, <2>2, <2>3, SucceedType
  <2>5. UNCHANGED <<now, feed, stamp, excused>>
    BY <2>1 DEF Succeed
  <2> QED
    BY <2>1, <2>4, <2>5 DEF TypeOK
<1>9. ASSUME NEW p \in Poller, Collide(p) \/ Fail(p)
      PROVE  TypeOK'
  BY <1>9, RejectType DEF Collide, Fail
<1>10. ASSUME NEW p \in Poller, Die(p)
       PROVE  TypeOK'
  <2>1. poll' \in [Poller -> Poll]
    BY <1>10 DEF TypeOK, Die, Poll
  <2> QED
    BY <1>10, <2>1 DEF TypeOK, Die, tables, history
<1>11. CASE UNCHANGED vars
  BY <1>11 DEF TypeOK, vars, tables, history
<1> QED
  BY <1>1, <1>2, <1>3, <1>4, <1>5, <1>6, <1>7, <1>8, <1>9, <1>10, <1>11 DEF Next, Step

(* Every variable keeps its type, and every poll under way holds what its  *)
(* step says it holds (collect_futzip_feed).                               *)
THEOREM TypeCorrect == Spec => []TypeOK
  BY InitType, StepType, PTL DEF Spec

-----------------------------------------------------------------------------
(* The ETag and the stored items.                                          *)

(* What a poll is about to store, with what is stored, is all that parses. *)
HeldComplete ==
  \A p \in Poller : poll[p].step = "ingested" =>
    Parsed(poll[p].version) \subseteq poll[p].fresh \cup events

(* "Not modified" is said of the version whose ETag the poll read.         *)
UnmodifiedKnown ==
  \A p \in Poller : poll[p].step \in {"answered", "received"} /\ poll[p].code = 304 =>
    poll[p].seen.etag = poll[p].version

EtagInv == EtagNeverAhead /\ HeldComplete /\ UnmodifiedKnown

LEMMA InitEtag == Init => EtagInv
  BY DEF Init, EtagInv, EtagNeverAhead, HeldComplete, UnmodifiedKnown, Idle

(* A poll that ends without a commit touches no ETag and no item.          *)
LEMMA AbandonEtag ==
  ASSUME TypeOK, EtagInv, NEW p \in Poller, Reject(p) \/ Die(p)
  PROVE  EtagInv'
<1>1. state'.etag = state.etag /\ events' = events
  BY DEF TypeOK, FeedState, Reject, Die, tables
<1>2. poll' = [poll EXCEPT ![p] = Idle]
  BY DEF Reject, Die
<1>3. EtagNeverAhead'
  BY <1>1 DEF EtagInv, EtagNeverAhead, Parsed, Window
<1>4. HeldComplete'
  BY <1>1, <1>2 DEF TypeOK, EtagInv, HeldComplete, Parsed, Window, Idle
<1>5. UnmodifiedKnown'
  BY <1>2 DEF TypeOK, EtagInv, UnmodifiedKnown, Idle
<1> QED
  BY <1>3, <1>4, <1>5 DEF EtagInv

LEMMA StepEtag == TypeOK /\ EtagInv /\ [Next]_vars => EtagInv'
<1> SUFFICES ASSUME TypeOK, EtagInv, [Next]_vars PROVE EtagInv'
  OBVIOUS
<1>1. CASE Tick \/ Publish \/ UNCHANGED vars
  <2>1. UNCHANGED <<state, events, poll>>
    BY <1>1 DEF Tick, Publish, vars, tables
  <2> QED
    BY <2>1 DEF EtagInv, EtagNeverAhead, HeldComplete, UnmodifiedKnown, Parsed, Window
<1>2. ASSUME NEW p \in Poller, Start(p)
      PROVE  EtagInv'
  <2>1. UNCHANGED <<state, events>>
    BY <1>2 DEF Start, tables
  <2>2. poll' = [poll EXCEPT ![p] = [step |-> "started", seen |-> state]]
    BY <1>2 DEF Start
  <2>3. EtagNeverAhead'
    BY <2>1 DEF EtagInv, EtagNeverAhead, Parsed, Window
  <2>4. HeldComplete'
    BY <2>1, <2>2 DEF TypeOK, EtagInv, HeldComplete, Parsed, Window
  <2>5. UnmodifiedKnown'
    BY <2>2 DEF TypeOK, EtagInv, UnmodifiedKnown
  <2> QED
    BY <2>3, <2>4, <2>5 DEF EtagInv
<1>3. ASSUME NEW p \in Poller, Answer(p)
      PROVE  EtagInv'
  <2>1. UNCHANGED <<state, events>>
    BY <1>3 DEF Answer, tables
  <2>2. PICK code \in {200, 304} :
          /\ code = 304 => poll[p].seen.etag = Len(feed)
          /\ poll' = [poll EXCEPT ![p] =
                        [step |-> "answered", seen |-> poll[p].seen, code |-> code,
                         version |-> Len(feed)]]
    BY <1>3 DEF Answer
  <2>3. EtagNeverAhead'
    BY <2>1 DEF EtagInv, EtagNeverAhead, Parsed, Window
  <2>4. HeldComplete'
    BY <2>1, <2>2 DEF TypeOK, EtagInv, HeldComplete, Parsed, Window
  <2>5. UnmodifiedKnown'
    BY <2>2 DEF TypeOK, EtagInv, UnmodifiedKnown
  <2> QED
    BY <2>3, <2>4, <2>5 DEF EtagInv
<1>4. ASSUME NEW p \in Poller, Receive(p)
      PROVE  EtagInv'
  <2>1. UNCHANGED <<state, events>>
    BY <1>4 DEF Receive, tables
  <2>2. /\ poll[p].step = "answered"
        /\ poll' = [poll EXCEPT ![p] =
                      [step |-> "received", seen |-> poll[p].seen, code |-> poll[p].code,
                       version |-> poll[p].version, at |-> now]]
    BY <1>4 DEF Receive
  <2>3. EtagNeverAhead'
    BY <2>1 DEF EtagInv, EtagNeverAhead, Parsed, Window
  <2>4. HeldComplete'
    BY <2>1, <2>2 DEF TypeOK, EtagInv, HeldComplete, Parsed, Window
  <2>5. UnmodifiedKnown'
    BY <2>2 DEF TypeOK, EtagInv, UnmodifiedKnown
  <2> QED
    BY <2>3, <2>4, <2>5 DEF EtagInv
<1>5. ASSUME NEW p \in Poller, Ingest(p)
      PROVE  EtagInv'
  <2> DEFINE held == [step |-> "ingested", code |-> 200, version |-> poll[p].version,
                      at |-> poll[p].at,
                      seen |-> IF poll[p].seen.row THEN poll[p].seen ELSE state,
                      tied |-> poll[p].version \in raw,
                      fresh |-> Parsed(poll[p].version) \ events]
  <2>1. UNCHANGED <<state, events>> /\ poll' = [poll EXCEPT ![p] = held]
    BY <1>5 DEF Ingest, tables
  <2>2. /\ held.step = "ingested"
        /\ Parsed(held.version) \subseteq held.fresh \cup events
    BY DEF Parsed, Window
  <2> HIDE DEF held
  <2>3. EtagNeverAhead'
    BY <2>1 DEF EtagInv, EtagNeverAhead, Parsed, Window
  <2>4. HeldComplete'
    BY <2>1, <2>2 DEF TypeOK, EtagInv, HeldComplete, Parsed, Window
  <2>5. UnmodifiedKnown'
    BY <2>1, <2>2 DEF TypeOK, EtagInv, UnmodifiedKnown
  <2> QED
    BY <2>3, <2>4, <2>5 DEF EtagInv
<1>6. ASSUME NEW p \in Poller, Commit(p)
      PROVE  EtagInv'
  <2> DEFINE a == poll[p]
             gap == Gap(a.version, a.seen.success, a.at)
             written == [row |-> TRUE, etag |-> a.version, success |-> a.at, gap |-> gap]
  <2>1. /\ a.step = "ingested"
        /\ events' = events \cup a.fresh
        /\ state' = Merge(a.seen, written)
        /\ poll' = [poll EXCEPT ![p] = Idle]
    BY <1>6 DEF Commit, Succeed
  <2>2. /\ a.seen \in FeedState /\ a.version \in Version /\ a.at \in 1..MaxTime
        /\ Parsed(a.version) \subseteq a.fresh \cup events
    BY <2>1, PollFields DEF EtagInv, HeldComplete
  <2>3. gap \in {"UNKNOWN_COVERAGE", "COMPLETE_WINDOW", "POSSIBLE_GAP"}
    BY GapType
  <2> HIDE DEF gap
  <2>4. written \in FeedState
    BY <2>2, <2>3, FeedAssumption DEF FeedState
  <2>5. state'.etag = a.version \/ state'.etag = state.etag
    BY <2>1, <2>2, <2>4, MergeType DEF TypeOK
  <2>6. EtagNeverAhead'
    BY <2>1, <2>2, <2>5 DEF EtagInv, EtagNeverAhead, Parsed, Window
  <2>7. HeldComplete'
    BY <2>1 DEF TypeOK, EtagInv, HeldComplete, Parsed, Window, Idle
  <2>8. UnmodifiedKnown'
    BY <2>1 DEF TypeOK, EtagInv, UnmodifiedKnown, Idle
  <2> QED
    BY <2>6, <2>7, <2>8 DEF EtagInv
<1>7. ASSUME NEW p \in Poller, CommitNotModified(p)
      PROVE  EtagInv'
  <2> DEFINE a == poll[p]
             written == [a.seen EXCEPT !.etag = a.version, !.success = a.at]
  <2>1. /\ a.step = "received" /\ a.code = 304
        /\ state' = Merge(a.seen, written)
        /\ poll' = [poll EXCEPT ![p] = Idle]
        /\ events' = events
    BY <1>7 DEF CommitNotModified, Succeed
  <2>2. a.seen \in FeedState /\ a.seen.etag = a.version
    BY <2>1, PollFields DEF EtagInv, UnmodifiedKnown
  <2>3. written.etag = a.seen.etag
    BY <2>2 DEF FeedState
  <2>4. state'.etag = state.etag
    BY <2>1, <2>3 DEF Merge, TypeOK, FeedState
  <2>5. EtagNeverAhead'
    BY <2>1, <2>4 DEF EtagInv, EtagNeverAhead, Parsed, Window
  <2>6. HeldComplete'
    BY <2>1 DEF TypeOK, EtagInv, HeldComplete, Parsed, Window, Idle
  <2>7. UnmodifiedKnown'
    BY <2>1 DEF TypeOK, EtagInv, UnmodifiedKnown, Idle
  <2> QED
    BY <2>5, <2>6, <2>7 DEF EtagInv
<1>8. ASSUME NEW p \in Poller, Collide(p) \/ Fail(p) \/ Die(p)
      PROVE  EtagInv'
  BY <1>8, AbandonEtag DEF Collide, Fail
<1> QED
  BY <1>1, <1>2, <1>3, <1>4, <1>5, <1>6, <1>7, <1>8 DEF Next, Step

(* However polls overlap, fail and die, the version whose ETag is stored   *)
(* has all its items that parse stored (ingest_futzip_feed in one          *)
(* transaction with its raw response and feed state).                      *)
THEOREM EtagCorrect == Spec => []EtagNeverAhead
<1>1. Spec => [](TypeOK /\ EtagInv)
  BY InitType, StepType, InitEtag, StepEtag, PTL DEF Spec
<1>2. TypeOK /\ EtagInv => EtagNeverAhead
  BY DEF EtagInv
<1> QED
  BY <1>1, <1>2, PTL

-----------------------------------------------------------------------------
(* No silent gap.                                                          *)

Covered == events \cup Malformed \cup excused

(* As long as the polls claim completeness: nothing after the first        *)
(* version is missed up to version v, or up to time t.                     *)
UpTo(v) == claimed /\ first # NoTag => \A j \in (first + 1)..v : j \in Covered

ByTime(t) ==
  claimed /\ first # NoTag =>
    \A j \in (first + 1)..Len(feed) : feed[j] <= t => j \in Covered

(* A feed state, the row or one that a poll has read, can be relied on.    *)
Reliable(s) ==
  /\ UpTo(s.etag) /\ ByTime(s.success)
  /\ s.success <= stamp
  /\ first = NoTag => s.etag = NoTag /\ s.success = Never

(* The items are in the order of their times, which have passed.           *)
FeedOrdered ==
  /\ \A i, j \in 1..Len(feed) : i <= j => feed[i] <= feed[j]
  /\ \A j \in 1..Len(feed) : feed[j] <= now

(* Whatever a response under way or stamped does not show, and is not      *)
(* younger than its stamp, is excused.                                     *)
ShownOrExcused(a) ==
  /\ a.step # "idle" => Reliable(a.seen)
  /\ a.step \in {"answered", "received", "ingested"} => a.version <= Len(feed)
  /\ a.step = "answered" => \A j \in (a.version + 1)..Len(feed) : j \in excused
  /\ a.step \in {"received", "ingested"} =>
       /\ a.at <= stamp
       /\ \A j \in (a.version + 1)..Len(feed) : feed[j] <= a.at => j \in excused

GapInv ==
  /\ FeedOrdered
  /\ stamp <= now
  /\ Reliable(state)
  /\ \A p \in Poller : ShownOrExcused(poll[p])

(* The same of the next state, for a feed state or a poll of either.       *)
NextUpTo(v) == claimed' /\ first' # NoTag => \A j \in (first' + 1)..v : j \in Covered'

NextByTime(t) ==
  claimed' /\ first' # NoTag =>
    \A j \in (first' + 1)..Len(feed') : feed'[j] <= t => j \in Covered'

NextReliable(s) ==
  /\ NextUpTo(s.etag) /\ NextByTime(s.success)
  /\ s.success <= stamp'
  /\ first' = NoTag => s.etag = NoTag /\ s.success = Never

NextShown(a) ==
  /\ a.step # "idle" => NextReliable(a.seen)
  /\ a.step \in {"answered", "received", "ingested"} => a.version <= Len(feed')
  /\ a.step = "answered" => \A j \in (a.version + 1)..Len(feed') : j \in excused'
  /\ a.step \in {"received", "ingested"} =>
       /\ a.at <= stamp'
       /\ \A j \in (a.version + 1)..Len(feed') : feed'[j] <= a.at => j \in excused'

LEMMA NextGapInv ==
  ASSUME FeedOrdered', stamp' <= now', NextReliable(state'),
         \A p \in Poller : NextShown(poll'[p])
  PROVE  GapInv'
BY DEF GapInv, Reliable, UpTo, ByTime, ShownOrExcused,
       NextReliable, NextUpTo, NextByTime, NextShown

LEMMA GapTypes ==
  ASSUME TypeOK
  PROVE  /\ now \in Nat /\ stamp \in Nat /\ Len(feed) \in Nat
         /\ \A j \in 1..Len(feed) : feed[j] \in Nat /\ feed[j] >= 1
         /\ first \in Nat \cup {NoTag}
         /\ \A s \in FeedState : s.etag \in Nat \cup {NoTag} /\ s.success \in Nat
         /\ \A p \in Poller :
              /\ poll[p].step # "idle" => poll[p].seen \in FeedState
              /\ poll[p].step \in {"answered", "received", "ingested"} =>
                   poll[p].version \in Nat
              /\ poll[p].step \in {"received", "ingested"} => poll[p].at \in Nat
<1>1. now \in Nat /\ stamp \in Nat /\ Len(feed) \in Nat /\ first \in Nat \cup {NoTag}
  BY FeedAssumption DEF TypeOK, Version
<1>2. \A j \in 1..Len(feed) : feed[j] \in Nat /\ feed[j] >= 1
  <2> TAKE j \in 1..Len(feed)
  <2>1. feed[j] \in 1..MaxTime
    BY ElementOfSeq DEF TypeOK
  <2> QED BY <2>1, FeedAssumption
<1>3. \A s \in FeedState : s.etag \in Nat \cup {NoTag} /\ s.success \in Nat
  BY FeedAssumption DEF FeedState, Version
<1>4. ASSUME NEW p \in Poller
      PROVE  /\ poll[p].step # "idle" => poll[p].seen \in FeedState
             /\ poll[p].step \in {"answered", "received", "ingested"} =>
                  poll[p].version \in Nat
             /\ poll[p].step \in {"received", "ingested"} => poll[p].at \in Nat
  <2>1. poll[p].step \in {"idle", "started", "answered", "received", "ingested"}
    BY DEF TypeOK, Poll, Idle
  <2> QED BY <2>1, PollFields, FeedAssumption DEF Version
<1> QED
  BY <1>1, <1>2, <1>3, <1>4

(* What can be relied on stays so while items are stored and excused and   *)
(* the first version is fixed: nothing was read before there was one.      *)
LEMMA StayReliable ==
  ASSUME TypeOK, NEW s \in FeedState, Reliable(s),
         first' = first \/ (first = NoTag /\ first' \in Nat),
         claimed' => claimed, events \subseteq events', excused \subseteq excused',
         feed' = feed, stamp' \in Nat, stamp <= stamp'
  PROVE  NextReliable(s)
<1>1. /\ s.etag \in Nat \cup {NoTag} /\ s.success \in Nat /\ stamp \in Nat
      /\ first \in Nat \cup {NoTag}
      /\ \A j \in 1..Len(feed) : feed[j] \in Nat /\ feed[j] >= 1
  BY GapTypes
<1>2. Covered \subseteq Covered'
  BY DEF Covered
<1>3. s.success <= stamp' /\ (first = NoTag => s.etag = NoTag /\ s.success = Never)
  BY <1>1 DEF Reliable
<1>4. CASE first' = first
  <2>1. NextUpTo(s.etag)
    <3> SUFFICES ASSUME claimed', first' # NoTag, NEW j \in (first' + 1)..s.etag
                 PROVE  j \in Covered'
      BY DEF NextUpTo
    <3>1. j \in Covered
      BY <1>4 DEF Reliable, UpTo
    <3> QED BY <1>2, <3>1
  <2>2. NextByTime(s.success)
    <3> SUFFICES ASSUME claimed', first' # NoTag, NEW j \in (first' + 1)..Len(feed'),
                        feed'[j] <= s.success
                 PROVE  j \in Covered'
      BY DEF NextByTime
    <3>1. j \in Covered
      BY <1>4 DEF Reliable, ByTime
    <3> QED BY <1>2, <3>1
  <2> QED BY <1>3, <1>4, <2>1, <2>2 DEF NextReliable
<1>5. CASE first = NoTag /\ first' \in Nat
  <2>1. s.etag = NoTag /\ s.success = Never /\ first' # NoTag
    BY <1>3, <1>5 DEF NoTag
  <2>a. \A v \in Nat : \A n \in Nat : \A j \in (v + 1)..n : j \in 1..n
    OBVIOUS
  <2>b. \A v \in Nat : (v + 1)..-1 = {}
    OBVIOUS
  <2>2. NextUpTo(s.etag)
    <3>1. (first' + 1)..s.etag = {}
      BY <1>5, <2>1, <2>b, Zenon DEF NoTag
    <3> QED BY <3>1, Zenon DEF NextUpTo
  <2>3. NextByTime(s.success)
    <3>1. \A j \in (first' + 1)..Len(feed') : ~(feed'[j] <= s.success)
      <4> SUFFICES ASSUME NEW j \in (first' + 1)..Len(feed) PROVE ~(feed[j] <= s.success)
        OBVIOUS
      <4>1. Len(feed) \in Nat
        BY GapTypes
      <4>2. j \in 1..Len(feed)
        BY <1>5, <2>a, <4>1, Zenon
      <4> QED BY <1>1, <2>1, <4>2 DEF Never
    <3> QED BY <3>1 DEF NextByTime
  <2> QED BY <1>3, <2>1, <2>2, <2>3 DEF NextReliable
<1> QED
  BY <1>4, <1>5

LEMMA StayShown ==
  ASSUME TypeOK, NEW p \in Poller, ShownOrExcused(poll[p]),
         first' = first \/ (first = NoTag /\ first' \in Nat),
         claimed' => claimed, events \subseteq events', excused \subseteq excused',
         feed' = feed, stamp' \in Nat, stamp <= stamp'
  PROVE  NextShown(poll[p])
<1>1. poll[p].step # "idle" => NextReliable(poll[p].seen)
  BY GapTypes, StayReliable DEF ShownOrExcused
<1>2. poll[p].step \in {"received", "ingested"} => poll[p].at <= stamp'
  BY GapTypes DEF ShownOrExcused
<1> QED
  BY <1>1, <1>2 DEF ShownOrExcused, NextShown

(* A publication is excused when it is not younger than the last stamp.    *)
LEMMA PublishGap ==
  ASSUME TypeOK, GapInv, Publish
  PROVE  GapInv'
<1> DEFINE n == Len(feed)
<1>1. /\ n \in Nat /\ Len(feed') = n + 1 /\ feed'[n + 1] = now
      /\ \A j \in 1..n : feed'[j] = feed[j]
  BY DEF Publish, TypeOK
<1>2. /\ UNCHANGED <<now, state, events, poll, stamp, first, claimed>>
      /\ excused \subseteq excused'
      /\ stamp = now => n + 1 \in excused'
      /\ \A p \in Poller : poll[p].step = "answered" => n + 1 \in excused'
  BY DEF Publish, tables
<1>a. /\ now \in Nat /\ stamp \in Nat /\ stamp <= now
      /\ \A j \in 1..n : feed[j] \in Nat /\ feed[j] <= now
      /\ first \in Nat \cup {NoTag}
  BY GapTypes DEF GapInv, FeedOrdered
<1> HIDE DEF n
<1>3. FeedOrdered'
  <2>1. \A j \in 1..(n + 1) : j \in 1..n \/ j = n + 1
    BY <1>1
  <2>2. \A i, j \in 1..(n + 1) : i <= j => feed'[i] <= feed'[j]
    <3> SUFFICES ASSUME NEW i \in 1..(n + 1), NEW j \in 1..(n + 1), i <= j
                 PROVE  feed'[i] <= feed'[j]
      OBVIOUS
    <3>1. CASE j \in 1..n
      <4>1. i \in 1..n
        BY <1>1, <3>1
      <4> QED BY <1>1, <3>1, <4>1 DEF GapInv, FeedOrdered, n
    <3>2. CASE j = n + 1
      BY <1>1, <1>a, <2>1, <3>2
    <3> QED BY <2>1, <3>1, <3>2
  <2>3. \A j \in 1..(n + 1) : feed'[j] <= now'
    BY <1>1, <1>2, <1>a, <2>1
  <2> QED BY <1>1, <2>2, <2>3 DEF FeedOrdered
<1>4. ASSUME NEW s \in FeedState, Reliable(s)
      PROVE  NextReliable(s)
  <2>1. s.success \in Nat /\ s.success <= stamp
    BY <1>4, GapTypes DEF Reliable
  <2>2. Covered \subseteq Covered'
    BY <1>2 DEF Covered
  <2>3. NextUpTo(s.etag)
    BY <1>2, <1>4, <2>2 DEF Reliable, UpTo, NextUpTo
  <2>4. NextByTime(s.success)
    <3> SUFFICES ASSUME claimed, first # NoTag, NEW j \in (first + 1)..(n + 1),
                        feed'[j] <= s.success
                 PROVE  j \in Covered'
      BY <1>1, <1>2 DEF NextByTime
    <3>1. first \in Nat
      BY <1>a
    <3>2. CASE j \in (first + 1)..n
      <4>1. j \in 1..n
        BY <1>1, <3>1, <3>2
      <4>2. feed[j] <= s.success
        BY <1>1, <4>1
      <4> QED BY <1>4, <2>2, <3>2, <4>2 DEF Reliable, ByTime, n
    <3>3. CASE j = n + 1
      <4>1. stamp = now
        BY <1>1, <1>a, <2>1, <3>3
      <4> QED BY <1>2, <3>3, <4>1 DEF Covered
    <3> QED BY <1>1, <3>1, <3>2, <3>3
  <2> QED BY <1>2, <1>4, <2>1, <2>3, <2>4 DEF Reliable, NextReliable
<1>5. ASSUME NEW p \in Poller
      PROVE  NextShown(poll[p])
  <2> DEFINE a == poll[p]
  <2>1. /\ ShownOrExcused(a)
        /\ a.step # "idle" => a.seen \in FeedState
        /\ a.step \in {"answered", "received", "ingested"} => a.version \in Nat
        /\ a.step \in {"received", "ingested"} => a.at \in Nat
    BY GapTypes DEF GapInv
  <2>2. a.step # "idle" => NextReliable(a.seen)
    BY <1>4, <2>1 DEF ShownOrExcused
  <2>3. a.step = "answered" => n + 1 \in excused'
    BY <1>2
  <2> HIDE DEF a
  <2>4. a.step \in {"answered", "received", "ingested"} => a.version <= Len(feed')
    BY <1>1, <2>1 DEF ShownOrExcused, n
  <2>5. a.step = "answered" => \A j \in (a.version + 1)..Len(feed') : j \in excused'
    <3> SUFFICES ASSUME a.step = "answered", NEW j \in (a.version + 1)..(n + 1)
                 PROVE  j \in excused'
      BY <1>1
    <3>1. j \in (a.version + 1)..n \/ j = n + 1
      BY <1>1, <2>1
    <3> QED BY <1>2, <2>1, <2>3, <3>1 DEF ShownOrExcused, n
  <2>6. ASSUME a.step \in {"received", "ingested"}
        PROVE  /\ a.at <= stamp'
               /\ \A j \in (a.version + 1)..Len(feed') : feed'[j] <= a.at => j \in excused'
    <3>1. a.at <= stamp /\ a.at \in Nat /\ a.version \in Nat
      BY <2>1, <2>6 DEF ShownOrExcused
    <3>2. ASSUME NEW j \in (a.version + 1)..(n + 1), feed'[j] <= a.at
          PROVE  j \in excused'
      <4>1. CASE j \in (a.version + 1)..n
        <5>1. j \in 1..n
          BY <1>1, <3>1, <4>1
        <5>2. feed[j] <= a.at
          BY <1>1, <3>2, <5>1
        <5> QED BY <1>2, <2>1, <2>6, <4>1, <5>2 DEF ShownOrExcused, n
      <4>2. CASE j = n + 1
        <5>1. stamp = now
          BY <1>1, <1>a, <3>1, <3>2, <4>2
        <5> QED BY <1>2, <4>2, <5>1
      <4> QED BY <1>1, <3>1, <4>1, <4>2
    <3> QED BY <1>1, <1>2, <3>1, <3>2
  <2> QED BY <2>2, <2>4, <2>5, <2>6 DEF NextShown, a
<1>6. NextReliable(state')
  BY <1>2, <1>4 DEF GapInv, TypeOK
<1> QED
  BY <1>2, <1>3, <1>5, <1>6, <1>a, NextGapInv

(* A step of one poll that publishes nothing.                              *)
LEMMA PollGap ==
  ASSUME TypeOK, GapInv, NEW p \in Poller, NEW x, poll' = [poll EXCEPT ![p] = x],
         NextShown(x), NextReliable(state'),
         first' = first \/ (first = NoTag /\ first' \in Nat),
         claimed' => claimed, events \subseteq events', excused \subseteq excused',
         UNCHANGED <<feed, now>>, stamp' \in {stamp, now}
  PROVE  GapInv'
<1>1. stamp' \in Nat /\ stamp <= stamp' /\ stamp' <= now
  BY GapTypes DEF GapInv
<1>2. FeedOrdered'
  BY DEF GapInv, FeedOrdered
<1>3. \A q \in Poller : NextShown(poll'[q])
  <2> TAKE q \in Poller
  <2>1. CASE q = p
    BY <2>1 DEF TypeOK
  <2>2. CASE q # p
    <3>1. ShownOrExcused(poll[q]) /\ feed' = feed
      BY DEF GapInv
    <3>2. NextShown(poll[q])
      BY <1>1, <3>1, StayShown
    <3>3. poll'[q] = poll[q]
      BY <2>2 DEF TypeOK
    <3> QED BY <3>2, <3>3
  <2> QED BY <2>1, <2>2
<1> QED
  BY <1>1, <1>2, <1>3, NextGapInv

(* A step that only touches polls and stamps.                              *)
LEMMA QuietGap ==
  ASSUME TypeOK, GapInv, NEW p \in Poller, NEW x, poll' = [poll EXCEPT ![p] = x],
         NextShown(x), UNCHANGED <<now, feed, state, events, raw, runs, first, claimed, excused>>,
         stamp' \in {stamp, now}
  PROVE  GapInv'
<1>1. stamp' \in Nat /\ stamp <= stamp'
  BY GapTypes DEF GapInv
<1>2. NextReliable(state')
  BY <1>1, StayReliable DEF GapInv, TypeOK
<1> QED
  BY <1>2, PollGap

LEMMA AbandonGap ==
  ASSUME TypeOK, GapInv, NEW p \in Poller, Reject(p) \/ Die(p)
  PROVE  GapInv'
<1>1. /\ poll' = [poll EXCEPT ![p] = Idle]
      /\ UNCHANGED <<now, feed, events, stamp, first, claimed, excused>>
  BY DEF Reject, Die, tables, history
<1>2. NextShown(Idle)
  BY DEF NextShown, Idle
<1>3. NextReliable(state)
  BY <1>1, GapTypes, StayReliable DEF GapInv, TypeOK
<1>4. state'.etag = state.etag /\ state'.success = state.success
  BY DEF TypeOK, FeedState, Reject, Die, tables
<1>5. NextReliable(state')
  BY <1>3, <1>4 DEF NextReliable
<1> QED
  BY <1>1, <1>2, <1>5, PollGap

LEMMA RequestGap ==
  ASSUME TypeOK, GapInv, NEW p \in Poller, Start(p) \/ Answer(p) \/ Receive(p) \/ Ingest(p)
  PROVE  GapInv'
<1>a. /\ now \in Nat /\ stamp \in Nat /\ stamp <= now /\ Len(feed) \in Nat
      /\ \A j \in 1..Len(feed) : feed[j] \in Nat
  BY GapTypes DEF GapInv
<1>b. /\ ShownOrExcused(poll[p])
      /\ poll[p].step # "idle" => poll[p].seen \in FeedState
      /\ poll[p].step \in {"answered", "received", "ingested"} => poll[p].version \in Nat
      /\ poll[p].step \in {"received", "ingested"} => poll[p].at \in Nat
  BY GapTypes DEF GapInv
<1>1. CASE Start(p)
  <2> DEFINE x == [step |-> "started", seen |-> state]
  <2>1. /\ poll' = [poll EXCEPT ![p] = x]
        /\ UNCHANGED <<now, feed, state, events, raw, runs, stamp, first, claimed, excused>>
    BY <1>1 DEF Start, tables, history
  <2>2. NextReliable(state)
    BY <1>a, <2>1, StayReliable DEF GapInv, TypeOK
  <2>3. NextShown(x)
    BY <2>2 DEF NextShown
  <2> HIDE DEF x
  <2> QED BY <2>1, <2>3, QuietGap
<1>2. CASE Answer(p)
  <2>1. PICK code \in {200, 304} :
          /\ poll[p].step = "started"
          /\ poll' = [poll EXCEPT ![p] =
                        [step |-> "answered", seen |-> poll[p].seen, code |-> code,
                         version |-> Len(feed)]]
          /\ UNCHANGED <<now, feed, state, events, raw, runs, stamp, first, claimed, excused>>
    BY <1>2 DEF Answer, tables, history
  <2> DEFINE x == [step |-> "answered", seen |-> poll[p].seen, code |-> code,
                   version |-> Len(feed)]
  <2>2. NextReliable(poll[p].seen)
    BY <1>a, <1>b, <2>1, StayReliable DEF ShownOrExcused
  <2>3. NextShown(x)
    BY <1>a, <2>1, <2>2 DEF NextShown
  <2>4. poll' = [poll EXCEPT ![p] = x]
    BY <2>1
  <2>5. UNCHANGED <<now, feed, state, events, raw, runs, stamp, first, claimed, excused>>
    BY <2>1
  <2> HIDE DEF x
  <2> QED BY <2>3, <2>4, <2>5, QuietGap
<1>3. CASE Receive(p)
  <2> DEFINE x == [step |-> "received", seen |-> poll[p].seen, code |-> poll[p].code,
                   version |-> poll[p].version, at |-> now]
  <2>1. /\ poll[p].step = "answered"
        /\ poll' = [poll EXCEPT ![p] = x]
        /\ stamp' = now
        /\ UNCHANGED <<now, feed, state, events, raw, runs, first, claimed, excused>>
    BY <1>3 DEF Receive, tables
  <2>2. NextReliable(poll[p].seen)
    BY <1>a, <1>b, <2>1, StayReliable DEF ShownOrExcused
  <2>3. NextShown(x)
    BY <1>a, <1>b, <2>1, <2>2 DEF NextShown, ShownOrExcused
  <2> HIDE DEF x
  <2> QED BY <2>1, <2>3, QuietGap
<1>4. CASE Ingest(p)
  <2> DEFINE seen == IF poll[p].seen.row THEN poll[p].seen ELSE state
             x == [step |-> "ingested", code |-> 200, version |-> poll[p].version,
                   at |-> poll[p].at, seen |-> seen, tied |-> poll[p].version \in raw,
                   fresh |-> Parsed(poll[p].version) \ events]
  <2>1. /\ poll[p].step = "received"
        /\ poll' = [poll EXCEPT ![p] = x]
        /\ UNCHANGED <<now, feed, state, events, raw, runs, stamp, first, claimed, excused>>
    BY <1>4 DEF Ingest, tables, history
  <2>2. NextReliable(poll[p].seen) /\ NextReliable(state)
    BY <1>a, <1>b, <2>1, StayReliable DEF ShownOrExcused, GapInv, TypeOK
  <2>3. NextReliable(seen)
    BY <2>2
  <2> HIDE DEF seen
  <2>4. NextShown(x)
    BY <1>a, <1>b, <2>1, <2>3 DEF NextShown, ShownOrExcused
  <2> HIDE DEF x
  <2> QED BY <2>1, <2>4, QuietGap
<1> QED
  BY <1>1, <1>2, <1>3, <1>4

(* Which columns of the row a commit writes.                               *)
LEMMA MergeColumns ==
  ASSUME state \in FeedState, NEW read \in FeedState, NEW written \in FeedState
  PROVE  /\ Merge(read, written).etag \in {written.etag, state.etag}
         /\ Merge(read, written).success \in {written.success, state.success}
  BY DEF Merge, FeedState

(* The items a version does not show any more are older than the oldest    *)
(* one it shows: if that one was there at the last success, so were they.  *)
LEMMA OlderThanShown ==
  ASSUME TypeOK, FeedOrdered, NEW v \in Version, v <= Len(feed),
         NEW t \in Nat, NEW k \in Parsed(v), feed[k] <= t,
         NEW j \in 1..v, j \notin Window(v)
  PROVE  feed[j] <= t
<1>1. k \in 1..v /\ k > v - WindowSize /\ ~(j > v - WindowSize)
  BY DEF Parsed, Window
<1>2. v \in Nat /\ WindowSize \in Nat /\ Len(feed) \in Nat
  BY FeedAssumption, GapTypes DEF Version
<1>3. j \in 1..Len(feed) /\ k \in 1..Len(feed) /\ j <= k
  BY <1>1, <1>2
<1>4. feed[j] <= feed[k] /\ feed[j] \in Nat /\ feed[k] \in Nat
  BY <1>3, GapTypes DEF FeedOrdered
<1> QED
  BY <1>4

LEMMA CommitGap ==
  ASSUME TypeOK, EtagInv, GapInv, NEW p \in Poller, Commit(p)
  PROVE  GapInv'
<1> DEFINE a == poll[p]
           gap == Gap(a.version, a.seen.success, a.at)
           written == [row |-> TRUE, etag |-> a.version, success |-> a.at, gap |-> gap]
<1>1. /\ a.step = "ingested"
      /\ events' = events \cup a.fresh
      /\ first' = IF first = NoTag THEN a.version ELSE first
      /\ claimed' = (claimed /\ (first = NoTag \/ gap = "COMPLETE_WINDOW"))
      /\ state' = Merge(a.seen, written)
      /\ poll' = [poll EXCEPT ![p] = Idle]
      /\ UNCHANGED <<now, feed, stamp, excused>>
  BY DEF Commit, Succeed
<1>2. /\ a.seen \in FeedState /\ a.version \in Version /\ a.at \in 1..MaxTime
      /\ Parsed(a.version) \subseteq events'
  BY <1>1, PollFields DEF EtagInv, HeldComplete
<1>3. /\ Reliable(a.seen) /\ a.version <= Len(feed) /\ a.at <= stamp
      /\ \A j \in (a.version + 1)..Len(feed) : feed[j] <= a.at => j \in excused
  BY <1>1 DEF GapInv, ShownOrExcused
<1>4. /\ a.version \in Nat /\ a.at \in Nat /\ a.seen.success \in Nat
      /\ Len(feed) \in Nat /\ stamp \in Nat /\ first \in Nat \cup {NoTag}
      /\ \A j \in 1..Len(feed) : feed[j] \in Nat
  BY <1>1, <1>2, GapTypes
<1>5. gap \in {"UNKNOWN_COVERAGE", "COMPLETE_WINDOW", "POSSIBLE_GAP"}
      /\ (gap = "COMPLETE_WINDOW" =>
            \E k \in Parsed(a.version) : feed[k] <= a.seen.success)
  BY GapType DEF Gap
<1> HIDE DEF gap
<1>6. written \in FeedState /\ state \in FeedState
  BY <1>2, <1>5, FeedAssumption DEF FeedState, TypeOK
<1>7. state'.etag \in {a.version, state.etag} /\ state'.success \in {a.at, state.success}
  BY <1>1, <1>2, <1>6, MergeColumns
<1> HIDE DEF a, written
<1>8. /\ first' = first \/ (first = NoTag /\ first' \in Nat)
      /\ claimed' => claimed
      /\ events \subseteq events' /\ excused \subseteq excused'
      /\ stamp' \in Nat /\ stamp <= stamp' /\ first' # NoTag
  <2>1. NoTag \notin Nat
    BY DEF NoTag
  <2>2. first' = first \/ (first = NoTag /\ first' \in Nat)
    BY <1>1, <1>4
  <2>3. first' # NoTag
    BY <1>1, <1>4, <2>1
  <2>4. claimed' => claimed
    BY <1>1, Zenon
  <2>5. stamp' \in Nat /\ stamp <= stamp'
    BY <1>1, <1>4
  <2>6. events \subseteq events' /\ excused \subseteq excused'
    BY <1>1
  <2> QED BY <2>2, <2>3, <2>4, <2>5, <2>6
<1>9. NextReliable(state)
  BY <1>1, <1>6, <1>8, StayReliable DEF GapInv
<1>10. NextUpTo(a.version)
  <2> SUFFICES ASSUME claimed', NEW j \in (first' + 1)..a.version
               PROVE  j \in Covered'
    BY DEF NextUpTo
  <2>1. first # NoTag /\ first' = first /\ claimed /\ gap = "COMPLETE_WINDOW"
    <3>1. first # NoTag
      <4> SUFFICES ASSUME first = NoTag PROVE FALSE
        OBVIOUS
      <4>1. first' = a.version
        BY <1>1
      <4>2. \A n \in Nat : (n + 1)..n = {}
        OBVIOUS
      <4> QED BY <1>4, <4>1, <4>2, Zenon
    <3> QED BY <1>1, <3>1
  <2>2. first \in Nat /\ j \in 1..a.version /\ j \in 1..Len(feed)
        /\ j \in (first + 1)..Len(feed)
    BY <1>3, <1>4, <2>1
  <2>3. CASE j \in Window(a.version)
    BY <1>2, <2>3 DEF Parsed, Covered
  <2>4. CASE j \notin Window(a.version)
    <3>1. PICK k \in Parsed(a.version) : feed[k] <= a.seen.success
      BY <1>5, <2>1
    <3>2. feed[j] <= a.seen.success
      BY <1>2, <1>3, <1>4, <2>2, <2>4, <3>1, OlderThanShown DEF GapInv
    <3>3. j \in Covered
      BY <1>3, <2>1, <2>2, <3>2 DEF Reliable, ByTime
    <3> QED BY <1>8, <3>3 DEF Covered
  <2> QED BY <2>3, <2>4
<1>11. NextByTime(a.at)
  <2> SUFFICES ASSUME claimed', NEW j \in (first' + 1)..Len(feed), feed[j] <= a.at
               PROVE  j \in Covered'
    BY <1>1 DEF NextByTime
  <2>1. CASE j \in (first' + 1)..a.version
    BY <1>8, <1>10, <2>1 DEF NextUpTo
  <2>2. CASE j \notin (first' + 1)..a.version
    <3>1. first' \in Nat
      BY <1>4, <1>8
    <3>2. j \in (a.version + 1)..Len(feed)
      <4>1. \A f, v, n \in Nat : \A i \in (f + 1)..n :
              i \in (f + 1)..v \/ i \in (v + 1)..n
        OBVIOUS
      <4> QED BY <1>4, <2>2, <3>1, <4>1, Zenon
    <3> QED BY <1>3, <1>8, <3>2 DEF Covered
  <2> QED BY <2>1, <2>2
<1>12. NextReliable(state')
  <2>1. NextUpTo(state'.etag)
    BY <1>7, <1>9, <1>10 DEF NextReliable
  <2>2. NextByTime(state'.success)
    BY <1>7, <1>9, <1>11 DEF NextReliable
  <2>3. state'.success <= stamp'
    BY <1>1, <1>3, <1>7, <1>9 DEF NextReliable
  <2> QED BY <1>8, <2>1, <2>2, <2>3 DEF NextReliable
<1>13. NextShown(Idle)
  BY DEF NextShown, Idle
<1> QED
  BY <1>1, <1>8, <1>12, <1>13, PollGap

(* "Not modified": what the row read said complete still is, and is the    *)
(* version the provider has.                                               *)
LEMMA NotModifiedGap ==
  ASSUME TypeOK, EtagInv, GapInv, NEW p \in Poller, CommitNotModified(p)
  PROVE  GapInv'
<1> DEFINE a == poll[p]
           written == [a.seen EXCEPT !.etag = a.version, !.success = a.at]
<1>1. /\ a.step = "received" /\ a.code = 304
      /\ state' = Merge(a.seen, written)
      /\ poll' = [poll EXCEPT ![p] = Idle]
      /\ UNCHANGED <<now, feed, stamp, excused, events, first, claimed>>
  BY DEF CommitNotModified, Succeed
<1>2. /\ a.seen \in FeedState /\ a.version \in Version /\ a.at \in 1..MaxTime
      /\ a.seen.etag = a.version
  BY <1>1, PollFields DEF EtagInv, UnmodifiedKnown
<1>3. /\ Reliable(a.seen) /\ a.version <= Len(feed) /\ a.at <= stamp
      /\ \A j \in (a.version + 1)..Len(feed) : feed[j] <= a.at => j \in excused
  BY <1>1 DEF GapInv, ShownOrExcused
<1>4. /\ a.version \in Nat /\ a.at \in Nat
      /\ Len(feed) \in Nat /\ stamp \in Nat /\ first \in Nat \cup {NoTag}
  BY <1>1, <1>2, GapTypes
<1>5. written \in FeedState /\ state \in FeedState
      /\ written.etag = a.version /\ written.success = a.at
  <2> DEFINE s == a.seen
             v == a.version
             t == a.at
  <2>1. s \in FeedState /\ v \in Version \cup {NoTag} /\ t \in 0..MaxTime
    BY <1>2, FeedAssumption
  <2> HIDE DEF s, v, t
  <2>2. /\ [s EXCEPT !.etag = v, !.success = t] \in FeedState
        /\ [s EXCEPT !.etag = v, !.success = t].etag = v
        /\ [s EXCEPT !.etag = v, !.success = t].success = t
    BY <2>1 DEF FeedState
  <2> QED
    BY <2>2 DEF s, v, t, TypeOK
<1> HIDE DEF written
<1>6. state'.etag \in {a.version, state.etag} /\ state'.success \in {a.at, state.success}
  BY <1>1, <1>2, <1>5, MergeColumns
<1> HIDE DEF a
<1>7. first # NoTag
  <2>1. NoTag \notin Nat
    BY DEF NoTag
  <2> QED BY <1>2, <1>3, <1>4, <2>1 DEF Reliable
<1>8. NextReliable(state) /\ NextReliable(a.seen)
  BY <1>1, <1>2, <1>3, <1>4, <1>5, StayReliable DEF GapInv
<1>9. NextUpTo(a.version)
  BY <1>2, <1>8 DEF NextReliable
<1>10. NextByTime(a.at)
  <2> SUFFICES ASSUME claimed', NEW j \in (first' + 1)..Len(feed), feed[j] <= a.at
               PROVE  j \in Covered'
    BY <1>1 DEF NextByTime
  <2>1. CASE j \in (first' + 1)..a.version
    BY <1>1, <1>7, <1>9, <2>1 DEF NextUpTo
  <2>2. CASE j \notin (first' + 1)..a.version
    <3>1. first' \in Nat
      BY <1>1, <1>4, <1>7
    <3>2. j \in (a.version + 1)..Len(feed)
      <4>1. \A f, v, n \in Nat : \A i \in (f + 1)..n :
              i \in (f + 1)..v \/ i \in (v + 1)..n
        OBVIOUS
      <4> QED BY <1>4, <2>2, <3>1, <4>1, Zenon
    <3> QED BY <1>1, <1>3, <3>2 DEF Covered
  <2> QED BY <2>1, <2>2
<1>11. NextReliable(state')
  <2>1. NextUpTo(state'.etag)
    BY <1>6, <1>8, <1>9 DEF NextReliable
  <2>2. NextByTime(state'.success)
    BY <1>6, <1>8, <1>10 DEF NextReliable
  <2>3. state'.success <= stamp'
    BY <1>1, <1>3, <1>6, <1>8 DEF NextReliable
  <2> QED BY <1>1, <1>7, <2>1, <2>2, <2>3 DEF NextReliable
<1>12. NextShown(Idle)
  BY DEF NextShown, Idle
<1> QED
  BY <1>1, <1>11, <1>12, PollGap

LEMMA InitGap == Init => GapInv
<1> SUFFICES ASSUME Init PROVE GapInv
  OBVIOUS
<1>1. feed = <<>> /\ now = 1 /\ stamp = 0 /\ first = NoTag
      /\ state.etag = NoTag /\ state.success = Never /\ \A p \in Poller : poll[p] = Idle
  BY DEF Init, Never
<1>2. Len(feed) = 0 /\ stamp <= now
  BY <1>1
<1>3. FeedOrdered
  BY <1>1, <1>2 DEF FeedOrdered
<1>4. Reliable(state)
  BY <1>1 DEF Reliable, UpTo, ByTime, Never
<1>5. \A p \in Poller : ShownOrExcused(poll[p])
  <2>1. ShownOrExcused(Idle)
    BY DEF ShownOrExcused, Idle
  <2> QED BY <1>1, <2>1
<1> QED
  BY <1>2, <1>3, <1>4, <1>5 DEF GapInv

LEMMA StepGap == TypeOK /\ EtagInv /\ GapInv /\ [Next]_vars => GapInv'
<1> SUFFICES ASSUME TypeOK, EtagInv, GapInv, [Next]_vars PROVE GapInv'
  OBVIOUS
<1>1. CASE Tick
  <2>1. /\ now' = now + 1
        /\ UNCHANGED <<feed, state, events, raw, runs, poll, stamp, first, claimed, excused>>
    BY <1>1 DEF Tick, tables, history
  <2>2. now \in Nat /\ stamp \in Nat /\ \A j \in 1..Len(feed) : feed[j] \in Nat
    BY GapTypes
  <2>3. FeedOrdered' /\ stamp' <= now'
    BY <2>1, <2>2 DEF GapInv, FeedOrdered
  <2> QED BY <2>1, <2>3 DEF GapInv, Reliable, UpTo, ByTime, ShownOrExcused, Covered
<1>2. CASE Publish
  BY <1>2, PublishGap
<1>3. ASSUME NEW p \in Poller, Step(p) \/ Fail(p) \/ Die(p)
      PROVE  GapInv'
  BY <1>3, RequestGap, CommitGap, NotModifiedGap, AbandonGap DEF Step, Collide, Fail
<1>4. CASE UNCHANGED vars
  BY <1>4 DEF vars, tables, history, GapInv, FeedOrdered, Reliable, UpTo, ByTime,
              ShownOrExcused, Covered
<1> QED
  BY <1>1, <1>2, <1>3, <1>4 DEF Next

(* For any number of overlapping, failing and dying polls: as long as      *)
(* every one after the first recorded COMPLETE_WINDOW, the items published *)
(* after the first version and up to the last one read are stored, do not  *)
(* parse, or were published while a response was on its way or in the      *)
(* second of its stamp.                                                    *)
THEOREM NoSilentGapCorrect == Spec => []NoSilentGap
<1>1. Spec => [](TypeOK /\ EtagInv /\ GapInv)
  BY InitType, StepType, InitEtag, StepEtag, InitGap, StepGap, PTL DEF Spec
<1>2. GapInv => NoSilentGap
  BY DEF GapInv, Reliable, UpTo, NoSilentGap, Covered
<1> QED
  BY <1>1, <1>2, PTL
=============================================================================
