----------------------------- MODULE NewsArchive -----------------------------
(***************************************************************************)
(* Collection of EA's news (fc27.collect_ea_news in scheduler/tasks.py):   *)
(* one transaction per poll with the index page, every article not yet     *)
(* stored and its event. Bodies go to files of the raw store               *)
(* (ingestion/raw_store.py), which no transaction guards.                  *)
(***************************************************************************)
EXTENDS Naturals

CONSTANTS Article,     \* articles, numbered in the order of their URLs
          UrlOf,       \* the article whose URL answers for each, itself mostly
          Unstorable,  \* those whose row or event the database refuses
          Poll,        \* processes that run the task
          MaxPolls,    \* bound: polls begun
          MaxHour      \* bound: the clock, in hours

ASSUME ArchiveAssumption ==
    /\ Article \subseteq Nat \ {0}
    /\ UrlOf \in [Article -> Article]
    /\ \A a \in Article : UrlOf[UrlOf[a]] = UrlOf[a]
    /\ Unstorable \subseteq Article
    /\ MaxPolls \in Nat /\ MaxHour \in Nat

VARIABLES listed,   \* the articles on the index page
          hour,     \* the clock
          whole,    \* files with their whole content
          part,     \* files that exist with less than that
          broken,   \* files whose writing was broken off
          rows,     \* committed raw_ingests
          events,   \* committed content_events, by external_id
          poll,     \* the polls under way
          covered,  \* articles listed when a successful poll began
          polls     \* polls begun so far

archiveVars == <<listed, hour, whole, part, broken, rows, events, poll, covered, polls>>

\* Pages by the URL that answered. The index is the page 0, with what it lists;
\* the content of an article does not change.
Address == {0} \cup Article
Body    == Address \X SUBSET Article
Row     == [url : Address, body : Body, hour : 0..MaxHour]

Work    == [stage : {"idle", "put", "open", "write", "record", "next"},
            seen : SUBSET Article, todo : SUBSET Article,  \* its index; what is left of it
            page : Address, body : Body, hour : 0..MaxHour,  \* the response at hand
            rows : SUBSET Row, events : SUBSET Article]  \* inserted, not committed

Asleep == [stage |-> "idle", seen |-> {}, todo |-> {}, page |-> 0, body |-> <<0, {}>>,
           hour |-> 0, rows |-> {}, events |-> {}]

ArchiveTypeOK ==
    /\ listed \subseteq Article /\ covered \subseteq Article
    /\ hour \in 0..MaxHour /\ polls \in 0..MaxPolls
    /\ \A files \in {whole, part, broken} : files \subseteq Body \X (0..MaxHour)
    /\ rows \subseteq Row /\ events \subseteq Article
    /\ poll \in [Poll -> Work]
    /\ \A w \in Poll : poll[w].todo \subseteq poll[w].seen

ArchiveInit ==
    /\ listed = {} /\ covered = {}
    /\ hour = 0 /\ polls = 0
    /\ whole = {} /\ part = {} /\ broken = {}
    /\ rows = {} /\ events = {}
    /\ poll = [w \in Poll |-> Asleep]

-----------------------------------------------------------------------------
\* The path of a body: its checksum in the directory of the hour of retrieval.
FileOf(w)  == <<poll[w].body, poll[w].hour>>
Writing(w) == poll[w].stage = "write"
Step(w, stage) == poll' = [poll EXCEPT ![w].stage = stage]

FetchIndex(w) ==
    /\ poll[w].stage = "idle"
    /\ polls < MaxPolls
    /\ polls' = polls + 1
    /\ poll' = [poll EXCEPT ![w] = [Asleep EXCEPT !.stage = "put", !.seen = listed, !.todo = listed,
                                                  !.body = <<0, listed>>, !.hour = hour]]
    /\ UNCHANGED <<listed, hour, whole, part, broken, rows, events, covered>>

\* FileRawStore.put: a file that exists is taken for what it should be.
LookForFile(w) ==
    /\ poll[w].stage = "put"
    /\ Step(w, IF FileOf(w) \in whole \cup part THEN "record" ELSE "open")
    /\ UNCHANGED <<listed, hour, whole, part, broken, rows, events, covered, polls>>

\* Opening for writing empties the file.
OpenFile(w) ==
    /\ poll[w].stage = "open"
    /\ Step(w, "write")
    /\ part' = part \cup {FileOf(w)}
    /\ whole' = whole \ {FileOf(w)}
    /\ UNCHANGED <<listed, hour, broken, rows, events, covered, polls>>

CloseFile(w) ==
    /\ Writing(w)
    /\ Step(w, "record")
    /\ IF \E v \in Poll \ {w} : Writing(v) /\ FileOf(v) = FileOf(w)
       THEN UNCHANGED <<whole, part>>
       ELSE whole' = whole \cup {FileOf(w)} /\ part' = part \ {FileOf(w)}
    /\ UNCHANGED <<listed, hour, broken, rows, events, covered, polls>>

\* A row that is made with the time of its making (faulty variant of RowOf).
RowOfNow(w) == [url |-> poll[w].page, body |-> poll[w].body, hour |-> hour]

\* The row points to the file that put returned.
RowOf(w) == [url |-> poll[w].page, body |-> poll[w].body, hour |-> poll[w].hour]

\* record_raw_ingest keeps the row of an equal body, whatever URL it came from;
\* an article's event is added unless the same one is there. What another poll
\* has inserted and not committed is waited for.
Record(w) ==
    LET known == {r.body : r \in rows \cup poll[w].rows}
        url   == poll[w].page
    IN  /\ poll[w].stage = "record"
        /\ url \notin {UrlOf[a] : a \in Unstorable}
        /\ \A v \in Poll \ {w} : /\ poll[w].body \notin {r.body : r \in poll[v].rows}
                                 /\ url \notin poll[v].events
        /\ poll' = [poll EXCEPT
              ![w].stage = "next",
              ![w].rows = IF poll[w].body \in known THEN @ ELSE @ \cup {RowOf(w)},
              ![w].events = IF url = 0 THEN @ ELSE @ \cup ({url} \ events)]
        /\ UNCHANGED <<listed, hour, whole, part, broken, rows, events, covered, polls>>

\* The next article of the index is skipped when its URL has a row, and else
\* retrieved from where its URL leads.
NextArticle(w) ==
    /\ poll[w].stage = "next"
    /\ \E a \in poll[w].todo :
          /\ \A b \in poll[w].todo : a <= b
          /\ poll' = IF a \in {r.url : r \in rows \cup poll[w].rows}
                      THEN [poll EXCEPT ![w].todo = @ \ {a}]
                      ELSE [poll EXCEPT ![w].todo = @ \ {a}, ![w].stage = "put",
                                        ![w].page = UrlOf[a], ![w].body = <<UrlOf[a], {}>>,
                                        ![w].hour = hour]
    /\ UNCHANGED <<listed, hour, whole, part, broken, rows, events, covered, polls>>

Succeed(w) ==
    /\ poll[w].stage = "next"
    /\ poll[w].todo = {}
    /\ rows' = rows \cup poll[w].rows
    /\ events' = events \cup poll[w].events
    /\ covered' = covered \cup poll[w].seen
    /\ poll' = [poll EXCEPT ![w] = Asleep]
    /\ UNCHANGED <<listed, hour, whole, part, broken, polls>>

\* The raw rows survive a failure (faulty variant of BreakOff).
BreakOffKeepingRows(w) ==
    /\ poll[w].stage # "idle"
    /\ broken' = broken \cup (IF Writing(w) THEN {FileOf(w)} ELSE {})
    /\ rows' = rows \cup poll[w].rows
    /\ poll' = [poll EXCEPT ![w] = Asleep]
    /\ UNCHANGED <<listed, hour, whole, part, events, covered, polls>>

\* A request, a file or a row fails, or the worker is lost: everything of the
\* poll is rolled back but the files.
BreakOff(w) ==
    /\ poll[w].stage # "idle"
    /\ broken' = broken \cup (IF Writing(w) THEN {FileOf(w)} ELSE {})
    /\ poll' = [poll EXCEPT ![w] = Asleep]
    /\ UNCHANGED <<listed, hour, whole, part, rows, events, covered, polls>>

\* EA edits its index, and time passes.
EditIndex ==
    /\ \E a \in Article : listed' = (listed \cup {a}) \ ({a} \cap listed)
    /\ UNCHANGED <<hour, whole, part, broken, rows, events, poll, covered, polls>>

PassHour ==
    /\ hour < MaxHour
    /\ hour' = hour + 1
    /\ UNCHANGED <<listed, whole, part, broken, rows, events, poll, covered, polls>>

ArchiveNext ==
    \/ \E w \in Poll : \/ FetchIndex(w) \/ LookForFile(w) \/ OpenFile(w) \/ CloseFile(w) \/ Record(w)
                       \/ NextArticle(w) \/ Succeed(w) \/ BreakOff(w)
    \/ EditIndex \/ PassHour

ArchiveSpec == ArchiveInit /\ [][ArchiveNext]_archiveVars

-----------------------------------------------------------------------------
\* The file of a committed row holds the whole body, unless the row's poll found
\* a file that another one had broken off, or is still writing: those rows keep
\* a truncated file for good.
ArchivedIsWhole ==
    \A r \in rows : LET file == <<r.body, r.hour>>
                    IN  \/ file \in whole
                        \/ file \in part /\ (file \in broken \/ \E w \in Poll : Writing(w) /\ FileOf(w) = file)

\* A poll that was recorded as a success has left an event for every article
\* of its index: none is taken for known because of a poll that failed.
SuccessCoversIndex == \A a \in covered : UrlOf[a] \in events

=============================================================================
