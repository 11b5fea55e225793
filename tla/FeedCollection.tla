--------------------------- MODULE FeedCollection ---------------------------
(***************************************************************************)
(* Collection of one public FUTZIP feed.  The provider shows the newest    *)
(* WindowSize items and answers a conditional GET with 304 when nothing    *)
(* was published since the given ETag.  A poll (a Celery task, every five  *)
(* minutes) reads the feed's state, asks the provider, and in one database *)
(* transaction stores the items it does not find stored, the raw response, *)
(* its collector_runs row and the new state.  Polls may overlap, fail and  *)
(* die; at READ COMMITTED each works on what was committed when it read.   *)
(*                                                                         *)
(* Item k is the k-th ever published, and a version of the feed, which its *)
(* ETag names, is the number of items published by then.  Item texts,      *)
(* cards, prices and the health counters are left out.                     *)
(***************************************************************************)
EXTENDS Integers, Sequences

CONSTANTS
  Poller,        \* Celery processes that may poll the feed
  WindowSize,    \* number of items the provider shows
  Malformed,     \* the items that do not parse
  MaxItems,      \* bound on the number of items published
  MaxTime        \* bound on the clock

ASSUME FeedAssumption ==
  /\ WindowSize \in Nat \ {0}
  /\ MaxItems \in Nat /\ MaxTime \in Nat \ {0}
  /\ Malformed \subseteq 1..MaxItems

VARIABLES
  now,        \* the clock, in seconds (the resolution of pubDate)
  feed,       \* the publication times of the items, in order
  state,      \* the provider_feed_states row
  events,     \* items with a provider_feed_events row
  raw,        \* versions with a raw_ingests row
  runs,       \* statuses of the collector_runs rows
  poll,       \* poller -> the poll it runs
  stamp,      \* history: when a response was stamped last
  first,      \* history: version of the first poll that succeeded
  claimed,    \* history: every poll after the first said COMPLETE_WINDOW
  excused     \* history: items published while a response was under way

history == <<stamp, first, claimed, excused>>
tables == <<state, events, raw, runs>>
vars == <<now, feed, tables, poll, history>>

Never == 0     \* no success yet: the clock starts at 1
NoTag == -1    \* no ETag, and no version

Idle == [step |-> "idle"]

Window(v) == {k \in 1..v : k > v - WindowSize}

(* parse_futzip_rss: the items of a version that parse.                    *)
Parsed(v) == Window(v) \ Malformed

Init ==
  /\ now = 1
  /\ feed = <<>>
  /\ state = [row |-> FALSE, etag |-> NoTag, success |-> Never,
              gap |-> "UNKNOWN_COVERAGE"]
  /\ events = {}
  /\ raw = {}
  /\ runs = {}
  /\ poll = [p \in Poller |-> Idle]
  /\ stamp = Never
  /\ first = NoTag
  /\ claimed = TRUE
  /\ excused = {}

-----------------------------------------------------------------------------
(* The provider.                                                           *)

Tick ==
  /\ now < MaxTime
  /\ now' = now + 1
  /\ UNCHANGED <<feed, tables, poll, history>>

Publish ==
  /\ Len(feed) < MaxItems
  /\ feed' = Append(feed, now)
  /\ excused' = IF stamp = now \/ \E p \in Poller : poll[p].step = "answered"
                THEN excused \cup {Len(feed) + 1} ELSE excused
  /\ UNCHANGED <<now, tables, poll, stamp, first, claimed>>

-----------------------------------------------------------------------------
(* A poll.                                                                 *)

(* The task reads the feed's state.                                        *)
Start(p) ==
  /\ poll[p] = Idle
  /\ poll' = [poll EXCEPT ![p] = [step |-> "started", seen |-> state]]
  /\ UNCHANGED <<now, feed, tables, history>>

(* The provider answers; it may answer in full though nothing is new.      *)
Answer(p) ==
  /\ poll[p].step = "started"
  /\ \E code \in {200, 304} :
       /\ code = 304 => poll[p].seen.etag = Len(feed)
       /\ poll' = [poll EXCEPT ![p] =
                     [step |-> "answered", seen |-> poll[p].seen, code |-> code,
                      version |-> Len(feed)]]
  /\ UNCHANGED <<now, feed, tables, history>>

(* Faulty variant: the response keeps the stamp of the one before it.      *)
ReceiveWithOldStamp(p) ==
  /\ poll[p].step = "answered"
  /\ poll' = [poll EXCEPT ![p] =
                [step |-> "received", seen |-> poll[p].seen, code |-> poll[p].code,
                 version |-> poll[p].version, at |-> stamp]]
  /\ stamp' = now
  /\ UNCHANGED <<now, feed, tables, first, claimed, excused>>

(* The response arrives and is stamped retrieved_at.                       *)
Receive(p) ==
  /\ poll[p].step = "answered"
  /\ poll' = [poll EXCEPT ![p] =
                [step |-> "received", seen |-> poll[p].seen, code |-> poll[p].code,
                 version |-> poll[p].version, at |-> now]]
  /\ stamp' = now
  /\ UNCHANGED <<now, feed, tables, first, claimed, excused>>

(* Of a full response: whether its body is stored already, the feed's      *)
(* state again if there was none, and the items not stored yet.  A state   *)
(* row read before keeps, in the session, the values it had.               *)
Ingest(p) ==
  LET a == poll[p]
  IN /\ a.step = "received" /\ a.code = 200
     /\ poll' = [poll EXCEPT ![p] =
                   [step |-> "ingested", code |-> 200, version |-> a.version, at |-> a.at,
                    seen |-> IF a.seen.row THEN a.seen ELSE state,
                    tied |-> a.version \in raw,
                    fresh |-> Parsed(a.version) \ events]]
     /\ UNCHANGED <<now, feed, tables, history>>

(* Faulty variant: compares with this retrieval instead of the last one.   *)
GapSinceRetrieval(v, previous, at) ==
  IF previous = Never \/ Parsed(v) = {} THEN "UNKNOWN_COVERAGE"
  ELSE IF \E k \in Parsed(v) : feed[k] <= at THEN "COMPLETE_WINDOW" ELSE "POSSIBLE_GAP"

(* The oldest item shown is not newer than the previous success.           *)
Gap(v, previous, at) ==
  IF previous = Never \/ Parsed(v) = {} THEN "UNKNOWN_COVERAGE"
  ELSE IF \E k \in Parsed(v) : feed[k] <= previous
       THEN "COMPLETE_WINDOW" ELSE "POSSIBLE_GAP"

(* An UPDATE writes the columns whose value differs from the one read.     *)
Merge(read, written) ==
  [f \in DOMAIN state |-> IF written[f] # read[f] THEN written[f] ELSE state[f]]

(* Rows the poll inserts that another one has inserted since it looked.    *)
Conflict(a) ==
  \/ a.fresh \cap events # {}
  \/ ~a.tied /\ a.version \in raw
  \/ ~a.seen.row /\ state.row

Succeed(p, written) ==
  /\ state' = Merge(poll[p].seen, written)
  /\ runs' = runs \cup {"success"}
  /\ poll' = [poll EXCEPT ![p] = Idle]
  /\ UNCHANGED <<now, feed, stamp, excused>>

(* Faulty variant: a unique-key conflict is swallowed and the state kept.  *)
CommitDespiteConflict(p) ==
  LET a   == poll[p]
      gap == Gap(a.version, a.seen.success, a.at)
  IN /\ a.step = "ingested"
     /\ events' = IF a.seen.row THEN events ELSE events \cup a.fresh
     /\ raw' = raw \cup {a.version}
     /\ first' = IF first = NoTag THEN a.version ELSE first
     /\ claimed' = (claimed /\ (first = NoTag \/ gap = "COMPLETE_WINDOW"))
     /\ Succeed(p, [row |-> TRUE, etag |-> a.version, success |-> a.at, gap |-> gap])

Commit(p) ==
  LET a   == poll[p]
      gap == Gap(a.version, a.seen.success, a.at)
  IN /\ a.step = "ingested"
     /\ ~Conflict(a)
     /\ events' = events \cup a.fresh
     /\ raw' = raw \cup {a.version}
     /\ first' = IF first = NoTag THEN a.version ELSE first
     /\ claimed' = (claimed /\ (first = NoTag \/ gap = "COMPLETE_WINDOW"))
     /\ Succeed(p, [row |-> TRUE, etag |-> a.version, success |-> a.at, gap |-> gap])

(* 304: the feed's state says so; no item, no raw row.                     *)
CommitNotModified(p) ==
  LET a == poll[p]
  IN /\ a.step = "received" /\ a.code = 304
     /\ Succeed(p, [a.seen EXCEPT !.etag = a.version, !.success = a.at])
     /\ UNCHANGED <<events, raw, first, claimed>>

(* Faulty variant: the failure is noted together with the ETag received.   *)
RejectKeepingTag(p) ==
  /\ poll' = [poll EXCEPT ![p] = Idle]
  /\ state' = [state EXCEPT !.row = TRUE,
                 !.etag = IF poll[p].step \in {"received", "ingested"}
                          THEN poll[p].version ELSE @]
  /\ UNCHANGED <<now, feed, events, raw, runs, stamp, first, claimed, excused>>

(* The task rolls back, the collector_runs row with it, and notes the      *)
(* failure in a session of its own.                                        *)
Reject(p) ==
  /\ poll' = [poll EXCEPT ![p] = Idle]
  /\ state' = [state EXCEPT !.row = TRUE]
  /\ UNCHANGED <<now, feed, events, raw, runs, stamp, first, claimed, excused>>

(* The insert of a row that another poll has committed: IntegrityError.    *)
Collide(p) ==
  /\ poll[p].step = "ingested"
  /\ Conflict(poll[p])
  /\ Reject(p)

(* The provider does not answer, the XML does not parse, the database      *)
(* fails: at any point.                                                    *)
Fail(p) ==
  /\ poll[p] # Idle
  /\ Reject(p)

(* The worker process is lost.                                             *)
Die(p) ==
  /\ poll[p] # Idle
  /\ poll' = [poll EXCEPT ![p] = Idle]
  /\ UNCHANGED <<now, feed, tables, history>>

Step(p) ==
  \/ Start(p)
  \/ Answer(p)
  \/ Receive(p)
  \/ Ingest(p)
  \/ Commit(p)
  \/ CommitNotModified(p)
  \/ Collide(p)

Next ==
  \/ Tick
  \/ Publish
  \/ \E p \in Poller : Step(p) \/ Fail(p) \/ Die(p)

(* Celery beat keeps starting polls and the provider keeps answering.      *)
Spec == Init /\ [][Next]_vars /\ \A p \in Poller : WF_vars(Step(p))

-----------------------------------------------------------------------------
(* Properties.                                                             *)

Version == 0..MaxItems
FeedState == [row : BOOLEAN, etag : Version \cup {NoTag}, success : 0..MaxTime,
              gap : {"UNKNOWN_COVERAGE", "COMPLETE_WINDOW", "POSSIBLE_GAP"}]
Poll ==
  {Idle} \cup [step : {"started"}, seen : FeedState]
    \cup [step : {"answered"}, seen : FeedState, code : {200, 304}, version : Version]
    \cup [step : {"received"}, seen : FeedState, code : {200, 304}, version : Version,
          at : 1..MaxTime]
    \cup [step : {"ingested"}, seen : FeedState, code : {200}, version : Version,
          at : 1..MaxTime, tied : BOOLEAN, fresh : SUBSET (1..MaxItems)]

TypeOK ==
  /\ now \in 1..MaxTime
  /\ feed \in Seq(1..MaxTime) /\ Len(feed) <= MaxItems
  /\ state \in FeedState
  /\ events \subseteq 1..MaxItems /\ raw \subseteq Version
  /\ runs \subseteq {"success"}
  /\ poll \in [Poller -> Poll]
  /\ stamp \in 0..MaxTime /\ first \in Version \cup {NoTag} /\ claimed \in BOOLEAN
  /\ excused \subseteq 1..MaxItems

(* The ETag stored never runs ahead of the events: a version the provider  *)
(* will answer 304 to has every item that parses stored, whatever  *)
(* died or overlapped (ingest_futzip_feed and its rollback).               *)
EtagNeverAhead == state.etag # NoTag => Parsed(state.etag) \subseteq events

(* As long as every poll after the first recorded COMPLETE_WINDOW, nothing *)
(* published between the first version and the last one read was missed,   *)
(* except what was published while a response was on its way or in the     *)
(* second it was stamped.                                                  *)
NoSilentGap ==
  claimed /\ first # NoTag =>
    (first + 1)..state.etag \subseteq events \cup Malformed \cup excused

(* Once the provider is quiet, everything it still shows gets stored,      *)
(* unless polls keep failing: one success after the last publication does. *)
Fault == \E p \in Poller : (Fail(p) \/ Die(p)) /\ ~Step(p)
CaughtUp == []<><<Fault>>_vars \/ <>[](Parsed(Len(feed)) \subseteq events)
=============================================================================
