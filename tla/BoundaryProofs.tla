----------------------------- MODULE BoundaryProofs -----------------------------
(***************************************************************************)
(* Proofs about what meets the outside.                                    *)
(*                                                                         *)
(* The collection of EA's news, for any articles, redirects, articles that *)
(* cannot be stored, number of overlapping polls and breaks: a committed   *)
(* row has its whole file unless a writing was broken off or is going on,  *)
(* and a successful poll covers its index.                                 *)
(*                                                                         *)
(* The publication of predictions, for any predictions, any number of      *)
(* processes that publish, any bound of the persona's list and any number  *)
(* of posts: every post is accounted for, and the persona remembers the    *)
(* latest publications that met no other.                                  *)
(*                                                                         *)
(* The resolution of listings to cards, for any versions, providers, pages *)
(* and collections under way: providers that say where a player plays have *)
(* one card for a look, unless collections overlapped on the name. The     *)
(* invariant holds what each transaction sees to what is committed: rows   *)
(* written over keep their look, no row has two writers, and where no card *)
(* was found there is none that looks like the listing.                    *)
(***************************************************************************)
EXTENDS CardIdentity, NewsArchive, Publishing, FiniteSetTheorems, SequenceTheorems, TLAPS

(***************************************************************************)
(*                           EA's news                                     *)
(***************************************************************************)
Fetched(w) == poll[w].stage \in {"put", "open", "write", "record"}
Stands(r)  == <<r.body, r.hour>> \in whole \cup part

(* A file is short of its content for a reason.                            *)
PartExplained ==
    \A f \in part : f \in broken \/ \E w \in Poll : Writing(w) /\ FileOf(w) = f

(* Rows, committed or not, and polls that go on to make one have a file.   *)
FilesStand ==
    /\ \A r \in rows : Stands(r)
    /\ \A w \in Poll : /\ \A r \in poll[w].rows : Stands(r)
                       /\ poll[w].stage \in {"write", "record"} => FileOf(w) \in whole \cup part

(* A URL that answered is its own, and its row came with its event.        *)
Announced(r, known) == r.url # 0 => r.url \in known /\ UrlOf[r.url] = r.url

RowsAnnounced ==
    /\ \A r \in rows : Announced(r, events)
    /\ \A w \in Poll : /\ \A r \in poll[w].rows : Announced(r, events \cup poll[w].events)
                       /\ poll[w].page # 0 => UrlOf[poll[w].page] = poll[w].page

(* What a poll has left behind has an event, or is at hand.                *)
Handled(w, a) ==
    \/ UrlOf[a] \in events \cup poll[w].events
    \/ Fetched(w) /\ poll[w].page = UrlOf[a]

SeenHandled == \A w \in Poll : \A a \in poll[w].seen \ poll[w].todo : Handled(w, a)

-----------------------------------------------------------------------------
(* Types.                                                                  *)

LEMMA ArchiveTypeInit == ArchiveInit => ArchiveTypeOK
BY ArchiveAssumption DEF ArchiveInit, ArchiveTypeOK, Asleep, Work, Body, Address

LEMMA AsleepType == Asleep \in Work
BY ArchiveAssumption DEF Asleep, Work, Body, Address

LEMMA FileOfType ==
    ASSUME ArchiveTypeOK, NEW w \in Poll
    PROVE  FileOf(w) \in Body \X (0..MaxHour)
BY DEF ArchiveTypeOK, FileOf, Work

LEMMA RowType ==
    ASSUME ArchiveTypeOK, NEW w \in Poll
    PROVE  RowOf(w) \in Row
BY DEF ArchiveTypeOK, RowOf, Work, Row

(* Recording adds at most the row at hand, and the event that is missing.  *)
LEMMA RecordEffect ==
    ASSUME ArchiveTypeOK, NEW w \in Poll, Record(w)
    PROVE  \E added \in SUBSET {RowOf(w)}, heard \in SUBSET ({poll[w].page} \ {0}) :
             /\ poll[w].page # 0 => poll[w].page \in events \cup heard
             /\ poll' = [poll EXCEPT ![w] = [poll[w] EXCEPT !.stage = "next",
                                                          !.rows = poll[w].rows \cup added,
                                                          !.events = poll[w].events \cup heard]]
<1> DEFINE known == {r.body : r \in rows \cup poll[w].rows}
           added == IF poll[w].body \in known THEN {} ELSE {RowOf(w)}
           heard  == IF poll[w].page = 0 THEN {} ELSE {poll[w].page} \ events
<1>1. poll[w] \in Work
  BY DEF ArchiveTypeOK
<1>2. poll' = [poll EXCEPT ![w].stage = "next",
                           ![w].rows = IF poll[w].body \in known THEN @ ELSE @ \cup {RowOf(w)},
                           ![w].events = IF poll[w].page = 0 THEN @ ELSE @ \cup ({poll[w].page} \ events)]
  BY DEF Record
<1>3. /\ (IF poll[w].body \in known THEN poll[w].rows ELSE poll[w].rows \cup {RowOf(w)})
             = poll[w].rows \cup added
      /\ (IF poll[w].page = 0 THEN poll[w].events ELSE poll[w].events \cup ({poll[w].page} \ events))
             = poll[w].events \cup heard
  OBVIOUS
<1>4. poll' = [poll EXCEPT ![w] = [poll[w] EXCEPT !.stage = "next",
                                                !.rows = poll[w].rows \cup added,
                                                !.events = poll[w].events \cup heard]]
  <2> HIDE DEF known, added, heard
  <2> QED
    BY <1>1, <1>2, <1>3 DEF ArchiveTypeOK, Work
<1>5. added \in SUBSET {RowOf(w)} /\ heard \in SUBSET ({poll[w].page} \ {0})
  OBVIOUS
<1>6. poll[w].page # 0 => poll[w].page \in events \cup heard
  OBVIOUS
<1> HIDE DEF added, heard
<1> QED
  BY <1>4, <1>5, <1>6

(* The next article is passed over or fetched from where its URL leads.    *)
LEMMA NextEffect ==
    ASSUME ArchiveTypeOK, NEW w \in Poll, NextArticle(w)
    PROVE  \E a \in poll[w].todo :
             \/ /\ \E r \in rows \cup poll[w].rows : r.url = a
                /\ poll' = [poll EXCEPT ![w] = [poll[w] EXCEPT !.todo = poll[w].todo \ {a}]]
             \/ poll' = [poll EXCEPT ![w] = [poll[w] EXCEPT !.todo = poll[w].todo \ {a}, !.stage = "put",
                                                          !.page = UrlOf[a], !.body = <<UrlOf[a], {}>>,
                                                          !.hour = hour]]
<1>1. PICK a \in poll[w].todo :
          poll' = IF a \in {r.url : r \in rows \cup poll[w].rows}
                  THEN [poll EXCEPT ![w].todo = @ \ {a}]
                  ELSE [poll EXCEPT ![w].todo = @ \ {a}, ![w].stage = "put",
                                    ![w].page = UrlOf[a], ![w].body = <<UrlOf[a], {}>>,
                                    ![w].hour = hour]
  BY DEF NextArticle
<1>2. CASE a \in {r.url : r \in rows \cup poll[w].rows}
  <2>1. \E r \in rows \cup poll[w].rows : r.url = a
    BY <1>2
  <2>2. poll' = [poll EXCEPT ![w] = [poll[w] EXCEPT !.todo = poll[w].todo \ {a}]]
    BY <1>1, <1>2 DEF ArchiveTypeOK, Work
  <2> QED
    BY <2>1, <2>2
<1>3. CASE a \notin {r.url : r \in rows \cup poll[w].rows}
  <2>1. poll' = [poll EXCEPT ![w].todo = poll[w].todo \ {a}, ![w].stage = "put",
                             ![w].page = UrlOf[a], ![w].body = <<UrlOf[a], {}>>,
                             ![w].hour = hour]
    BY <1>1, <1>3
  <2>2. poll' = [poll EXCEPT ![w] = [poll[w] EXCEPT !.todo = poll[w].todo \ {a}, !.stage = "put",
                                                  !.page = UrlOf[a], !.body = <<UrlOf[a], {}>>,
                                                  !.hour = hour]]
    BY <2>1 DEF ArchiveTypeOK, Work
  <2> QED
    BY <2>2
<1> QED
  BY <1>2, <1>3

LEMMA ArchiveTypeStep == ArchiveTypeOK /\ [ArchiveNext]_archiveVars => ArchiveTypeOK'
<1> SUFFICES ASSUME ArchiveTypeOK, [ArchiveNext]_archiveVars
             PROVE  ArchiveTypeOK'
  OBVIOUS
<1>1. ASSUME NEW w \in Poll, FetchIndex(w)
      PROVE  ArchiveTypeOK'
  <2>1. <<0, listed>> \in Body
    BY DEF ArchiveTypeOK, Body, Address
  <2> DEFINE new == [Asleep EXCEPT !.stage = "put", !.seen = listed, !.todo = listed,
                                   !.body = <<0, listed>>, !.hour = hour]
  <2>a. new \in Work
    BY <2>1, AsleepType DEF ArchiveTypeOK, Asleep, Work
  <2>2. poll' \in [Poll -> Work]
    BY <1>1, <2>a DEF FetchIndex, ArchiveTypeOK
  <2>3. polls' \in 0..MaxPolls
    BY <1>1, ArchiveAssumption DEF FetchIndex, ArchiveTypeOK
  <2>4. \A v \in Poll : poll'[v].todo \subseteq poll'[v].seen
    BY <1>1 DEF FetchIndex, ArchiveTypeOK, Asleep
  <2> QED
    BY <1>1, <2>2, <2>3, <2>4 DEF FetchIndex, ArchiveTypeOK
<1>2. ASSUME NEW w \in Poll, LookForFile(w)
      PROVE  ArchiveTypeOK'
  BY <1>2 DEF LookForFile, ArchiveTypeOK, Step, Work
<1>3. ASSUME NEW w \in Poll, OpenFile(w)
      PROVE  ArchiveTypeOK'
  BY <1>3, FileOfType DEF OpenFile, ArchiveTypeOK, Step, Work
<1>4. ASSUME NEW w \in Poll, CloseFile(w)
      PROVE  ArchiveTypeOK'
  <2>1. whole' \subseteq Body \X (0..MaxHour) /\ part' \subseteq Body \X (0..MaxHour)
    BY <1>4, FileOfType DEF CloseFile, ArchiveTypeOK
  <2> QED
    BY <1>4, <2>1 DEF CloseFile, ArchiveTypeOK, Step, Work
<1>5. ASSUME NEW w \in Poll, Record(w)
      PROVE  ArchiveTypeOK'
  <2>1. poll[w] \in Work /\ (poll[w].page # 0 => poll[w].page \in Article)
    BY DEF ArchiveTypeOK, Work, Address
  <2> PICK added \in SUBSET {RowOf(w)}, heard \in SUBSET ({poll[w].page} \ {0}) :
         poll' = [poll EXCEPT ![w] = [poll[w] EXCEPT !.stage = "next",
                                                   !.rows = poll[w].rows \cup added,
                                                   !.events = poll[w].events \cup heard]]
    BY <1>5, RecordEffect
  <2>a. poll[w].rows \cup added \subseteq Row /\ poll[w].events \cup heard \subseteq Article
    BY <2>1, RowType DEF Work
  <2>2. poll' \in [Poll -> Work]
    BY <2>1, <2>a DEF ArchiveTypeOK, Work
  <2>3. \A v \in Poll : poll'[v].todo \subseteq poll'[v].seen
    BY <2>1 DEF ArchiveTypeOK, Work
  <2> QED
    BY <1>5, <2>2, <2>3 DEF Record, ArchiveTypeOK
<1>6. ASSUME NEW w \in Poll, NextArticle(w)
      PROVE  ArchiveTypeOK'
  <2>1. PICK a \in poll[w].todo :
          \/ poll' = [poll EXCEPT ![w] = [poll[w] EXCEPT !.todo = poll[w].todo \ {a}]]
          \/ poll' = [poll EXCEPT ![w] = [poll[w] EXCEPT !.todo = poll[w].todo \ {a}, !.stage = "put",
                                                       !.page = UrlOf[a], !.body = <<UrlOf[a], {}>>,
                                                       !.hour = hour]]
    BY <1>6, NextEffect
  <2>2. poll[w] \in Work /\ a \in Article /\ UrlOf[a] \in Article
    BY ArchiveAssumption DEF ArchiveTypeOK, Work
  <2>3. UrlOf[a] \in Address /\ <<UrlOf[a], {}>> \in Body
    BY <2>2 DEF Address, Body
  <2>4. poll' \in [Poll -> Work] /\ \A v \in Poll : poll'[v].todo \subseteq poll'[v].seen
    <3>1. CASE poll' = [poll EXCEPT ![w] = [poll[w] EXCEPT !.todo = poll[w].todo \ {a}]]
      BY <2>2, <3>1 DEF ArchiveTypeOK, Work
    <3>2. CASE poll' = [poll EXCEPT ![w] = [poll[w] EXCEPT !.todo = poll[w].todo \ {a}, !.stage = "put",
                                                         !.page = UrlOf[a], !.body = <<UrlOf[a], {}>>,
                                                         !.hour = hour]]
      BY <2>2, <2>3, <3>2 DEF ArchiveTypeOK, Work
    <3> QED
      BY <2>1, <3>1, <3>2
  <2> QED
    BY <1>6, <2>4 DEF NextArticle, ArchiveTypeOK
<1>7. ASSUME NEW w \in Poll, Succeed(w)
      PROVE  ArchiveTypeOK'
  <2>1. poll[w] \in Work
    BY DEF ArchiveTypeOK
  <2>2. rows' \subseteq Row /\ events' \subseteq Article /\ covered' \subseteq Article
    BY <1>7, <2>1 DEF Succeed, ArchiveTypeOK, Work
  <2>3. poll' \in [Poll -> Work] /\ \A v \in Poll : poll'[v].todo \subseteq poll'[v].seen
    BY <1>7, AsleepType DEF Succeed, ArchiveTypeOK, Asleep
  <2> QED
    BY <1>7, <2>2, <2>3 DEF Succeed, ArchiveTypeOK
<1>8. ASSUME NEW w \in Poll, BreakOff(w)
      PROVE  ArchiveTypeOK'
  <2>1. broken' \subseteq Body \X (0..MaxHour)
    BY <1>8, FileOfType DEF BreakOff, ArchiveTypeOK
  <2>2. poll' \in [Poll -> Work] /\ \A v \in Poll : poll'[v].todo \subseteq poll'[v].seen
    BY <1>8, AsleepType DEF BreakOff, ArchiveTypeOK, Asleep
  <2> QED
    BY <1>8, <2>1, <2>2 DEF BreakOff, ArchiveTypeOK
<1>9. CASE EditIndex
  BY <1>9 DEF EditIndex, ArchiveTypeOK
<1>10. CASE PassHour
  BY <1>10, ArchiveAssumption DEF PassHour, ArchiveTypeOK
<1>11. CASE UNCHANGED archiveVars
  BY <1>11 DEF archiveVars, ArchiveTypeOK
<1> QED
  BY <1>1, <1>2, <1>3, <1>4, <1>5, <1>6, <1>7, <1>8, <1>9, <1>10, <1>11 DEF ArchiveNext

(* All columns of the archive, and every poll, keep their types.           *)
THEOREM ArchiveTypeCorrect == ArchiveSpec => []ArchiveTypeOK
BY ArchiveTypeInit, ArchiveTypeStep, PTL DEF ArchiveSpec

-----------------------------------------------------------------------------
(* What a step leaves of the polls, field by field.                        *)

Others(w) == \A v \in Poll \ {w} : poll'[v] = poll[v]

(* The response at hand and what has been inserted stay as they are.       *)
Keeps(w) ==
    /\ poll'[w].seen = poll[w].seen /\ poll'[w].todo = poll[w].todo
    /\ poll'[w].page = poll[w].page /\ poll'[w].body = poll[w].body
    /\ poll'[w].hour = poll[w].hour
    /\ poll'[w].rows = poll[w].rows /\ poll'[w].events = poll[w].events

LEMMA StageStep ==
    ASSUME ArchiveTypeOK, NEW w \in Poll, NEW stage, Step(w, stage)
    PROVE  Others(w) /\ Keeps(w) /\ poll'[w].stage = stage
BY DEF ArchiveTypeOK, Work, Step, Others, Keeps

LEMMA FetchStep ==
    ASSUME ArchiveTypeOK, NEW w \in Poll, FetchIndex(w)
    PROVE  /\ Others(w)
           /\ poll'[w].stage = "put" /\ poll'[w].page = 0
           /\ poll'[w].seen = poll'[w].todo
           /\ poll'[w].rows = {} /\ poll'[w].events = {}
BY DEF ArchiveTypeOK, FetchIndex, Asleep, Others

LEMMA RecordStep ==
    ASSUME ArchiveTypeOK, NEW w \in Poll, Record(w)
    PROVE  /\ Others(w)
           /\ poll'[w].stage = "next"
           /\ poll'[w].seen = poll[w].seen /\ poll'[w].todo = poll[w].todo
           /\ poll'[w].page = poll[w].page
           /\ poll'[w].rows \subseteq poll[w].rows \cup {RowOf(w)}
           /\ poll[w].events \subseteq poll'[w].events
           /\ poll[w].page # 0 => poll[w].page \in events \cup poll'[w].events
<1>1. PICK added \in SUBSET {RowOf(w)}, heard \in SUBSET ({poll[w].page} \ {0}) :
             /\ poll[w].page # 0 => poll[w].page \in events \cup heard
             /\ poll' = [poll EXCEPT ![w] = [poll[w] EXCEPT !.stage = "next",
                                                          !.rows = poll[w].rows \cup added,
                                                          !.events = poll[w].events \cup heard]]
  BY RecordEffect
<1>2. poll[w] \in Work /\ poll \in [Poll -> Work]
  BY DEF ArchiveTypeOK
<1>3. Others(w)
  BY <1>1, <1>2 DEF Others
<1>4. poll'[w] = [poll[w] EXCEPT !.stage = "next", !.rows = poll[w].rows \cup added,
                                 !.events = poll[w].events \cup heard]
  BY <1>1, <1>2
<1>5. /\ poll'[w].stage = "next"
      /\ poll'[w].seen = poll[w].seen /\ poll'[w].todo = poll[w].todo
      /\ poll'[w].page = poll[w].page
      /\ poll'[w].rows = poll[w].rows \cup added
      /\ poll'[w].events = poll[w].events \cup heard
  BY <1>2, <1>4 DEF Work
<1> QED
  BY <1>1, <1>3, <1>5

LEMMA NextArticleStep ==
    ASSUME ArchiveTypeOK, NEW w \in Poll, NextArticle(w)
    PROVE  /\ Others(w)
           /\ poll'[w].seen = poll[w].seen
           /\ poll'[w].rows = poll[w].rows /\ poll'[w].events = poll[w].events
           /\ poll'[w].stage \in {"put", "next"}
           /\ \E a \in poll[w].todo :
                 /\ poll'[w].todo = poll[w].todo \ {a}
                 /\ \/ /\ poll'[w].stage = "put" /\ poll'[w].page = UrlOf[a]
                    \/ /\ \E r \in rows \cup poll[w].rows : r.url = a
                       /\ poll'[w].page = poll[w].page
<1>1. PICK a \in poll[w].todo :
             \/ /\ \E r \in rows \cup poll[w].rows : r.url = a
                /\ poll' = [poll EXCEPT ![w] = [poll[w] EXCEPT !.todo = poll[w].todo \ {a}]]
             \/ poll' = [poll EXCEPT ![w] = [poll[w] EXCEPT !.todo = poll[w].todo \ {a}, !.stage = "put",
                                                          !.page = UrlOf[a], !.body = <<UrlOf[a], {}>>,
                                                          !.hour = hour]]
  BY NextEffect
<1>2. poll[w] \in Work /\ poll \in [Poll -> Work] /\ poll[w].stage = "next"
  BY DEF ArchiveTypeOK, NextArticle
<1>3. CASE /\ \E r \in rows \cup poll[w].rows : r.url = a
           /\ poll' = [poll EXCEPT ![w] = [poll[w] EXCEPT !.todo = poll[w].todo \ {a}]]
  BY <1>2, <1>3 DEF Work, Others
<1>4. CASE poll' = [poll EXCEPT ![w] = [poll[w] EXCEPT !.todo = poll[w].todo \ {a}, !.stage = "put",
                                                     !.page = UrlOf[a], !.body = <<UrlOf[a], {}>>,
                                                     !.hour = hour]]
  BY <1>2, <1>4 DEF Work, Others
<1> QED
  BY <1>1, <1>3, <1>4

LEMMA SleepStep ==
    ASSUME ArchiveTypeOK, NEW w \in Poll, Succeed(w) \/ BreakOff(w)
    PROVE  /\ Others(w)
           /\ poll'[w].stage = "idle" /\ poll'[w].page = 0
           /\ poll'[w].seen = {} /\ poll'[w].rows = {} /\ poll'[w].events = {}
BY DEF ArchiveTypeOK, Succeed, BreakOff, Asleep, Others

-----------------------------------------------------------------------------
(* Files.                                                                  *)

(* What a step of another poll, or of none, leaves of the writings.        *)
LEMMA OthersWriting ==
    ASSUME NEW w, Others(w), NEW v \in Poll \ {w}
    PROVE  Writing(v)' = Writing(v) /\ FileOf(v)' = FileOf(v)
BY DEF Others, Writing, FileOf

LEMMA PartStep == ArchiveTypeOK /\ PartExplained /\ [ArchiveNext]_archiveVars => PartExplained'
<1> SUFFICES ASSUME ArchiveTypeOK, PartExplained, [ArchiveNext]_archiveVars,
                    NEW f \in part'
             PROVE  f \in broken' \/ \E v \in Poll : Writing(v)' /\ FileOf(v)' = f
  BY DEF PartExplained
<1>1. ASSUME NEW w \in Poll, ~Writing(w), part' = part, broken' = broken, Others(w)
      PROVE  f \in broken' \/ \E v \in Poll : Writing(v)' /\ FileOf(v)' = f
  <2>1. f \in broken \/ \E v \in Poll \ {w} : Writing(v) /\ FileOf(v) = f
    BY <1>1 DEF PartExplained
  <2> QED
    BY <1>1, <2>1, OthersWriting
<1>2. ASSUME NEW w \in Poll, FetchIndex(w) \/ LookForFile(w) \/ Record(w) \/ NextArticle(w) \/ Succeed(w)
      PROVE  Others(w) /\ ~Writing(w) /\ part' = part /\ broken' = broken
  BY <1>2, FetchStep, StageStep, RecordStep, NextArticleStep, SleepStep
     DEF FetchIndex, LookForFile, Record, NextArticle, Succeed, Writing
<1>3. ASSUME NEW w \in Poll, OpenFile(w)
      PROVE  f \in broken' \/ \E v \in Poll : Writing(v)' /\ FileOf(v)' = f
  <2>1. Others(w) /\ Keeps(w) /\ poll'[w].stage = "write"
    BY <1>3, StageStep DEF OpenFile
  <2>2. Writing(w)' /\ FileOf(w)' = FileOf(w) /\ ~Writing(w)
    BY <1>3, <2>1 DEF Writing, FileOf, Keeps, OpenFile
  <2>3. f = FileOf(w) \/ f \in part
    BY <1>3 DEF OpenFile
  <2>4. broken' = broken
    BY <1>3 DEF OpenFile
  <2> QED
    BY <2>1, <2>2, <2>3, <2>4, OthersWriting DEF PartExplained
<1>4. ASSUME NEW w \in Poll, CloseFile(w)
      PROVE  f \in broken' \/ \E v \in Poll : Writing(v)' /\ FileOf(v)' = f
  <2>1. Others(w) /\ broken' = broken
    BY <1>4, StageStep DEF CloseFile
  <2>2. CASE \E v \in Poll \ {w} : Writing(v) /\ FileOf(v) = FileOf(w)
    <3>1. part' = part
      BY <1>4, <2>2 DEF CloseFile
    <3>2. f \in broken \/ \E v \in Poll \ {w} : Writing(v) /\ FileOf(v) = f
      BY <2>2, <3>1 DEF PartExplained
    <3> QED
      BY <2>1, <3>2, OthersWriting
  <2>3. CASE ~\E v \in Poll \ {w} : Writing(v) /\ FileOf(v) = FileOf(w)
    <3>1. f \in part /\ f # FileOf(w)
      BY <1>4, <2>3 DEF CloseFile
    <3>2. f \in broken \/ \E v \in Poll \ {w} : Writing(v) /\ FileOf(v) = f
      BY <3>1 DEF PartExplained
    <3> QED
      BY <2>1, <3>2, OthersWriting
  <2> QED
    BY <2>2, <2>3
<1>5. ASSUME NEW w \in Poll, BreakOff(w)
      PROVE  f \in broken' \/ \E v \in Poll : Writing(v)' /\ FileOf(v)' = f
  <2>1. Others(w) /\ f \in part
    BY <1>5, SleepStep DEF BreakOff
  <2>2. CASE Writing(w) /\ FileOf(w) = f
    BY <1>5, <2>2 DEF BreakOff
  <2>3. CASE ~(Writing(w) /\ FileOf(w) = f)
    <3>1. f \in broken \/ \E v \in Poll \ {w} : Writing(v) /\ FileOf(v) = f
      BY <2>1, <2>3 DEF PartExplained
    <3>2. broken \subseteq broken'
      BY <1>5 DEF BreakOff
    <3> QED
      BY <2>1, <3>1, <3>2, OthersWriting
  <2> QED
    BY <2>2, <2>3
<1>6. CASE EditIndex \/ PassHour \/ UNCHANGED archiveVars
  BY <1>6 DEF EditIndex, PassHour, archiveVars, PartExplained, Writing, FileOf
<1> QED
  BY <1>1, <1>2, <1>3, <1>4, <1>5, <1>6 DEF ArchiveNext

LEMMA FilesStep ==
    ASSUME ArchiveTypeOK, FilesStand, [ArchiveNext]_archiveVars
    PROVE  FilesStand'
<1>1. whole \cup part \subseteq (whole \cup part)'
  BY DEF ArchiveNext, archiveVars, FetchIndex, LookForFile, OpenFile, CloseFile, Record, NextArticle,
         Succeed, BreakOff, EditIndex, PassHour
<1>2. ASSUME NEW r, Stands(r)
      PROVE  Stands(r)'
  BY <1>1, <1>2 DEF Stands
<1>3. ASSUME NEW w \in Poll, Others(w), NEW v \in Poll \ {w}
      PROVE  /\ \A r \in poll'[v].rows : Stands(r)'
             /\ poll'[v].stage \in {"write", "record"} => FileOf(v)' \in (whole \cup part)'
  BY <1>1, <1>2, <1>3 DEF Others, FilesStand, FileOf
<1> DEFINE Good(w) == /\ \A r \in poll[w].rows : Stands(r)
                      /\ poll[w].stage \in {"write", "record"} => FileOf(w) \in whole \cup part
<1>4. ASSUME NEW w \in Poll, FetchIndex(w) \/ NextArticle(w)
      PROVE  Others(w) /\ rows' = rows /\ Good(w)'
  <2>1. CASE FetchIndex(w)
    BY <2>1, FetchStep DEF FetchIndex
  <2>2. CASE NextArticle(w)
    <3>1. Others(w) /\ poll'[w].rows = poll[w].rows /\ poll'[w].stage \in {"put", "next"}
      BY <2>2, NextArticleStep
    <3> QED
      BY <2>2, <1>2, <3>1 DEF NextArticle, FilesStand
  <2> QED
    BY <1>4, <2>1, <2>2
<1>5. ASSUME NEW w \in Poll, LookForFile(w) \/ OpenFile(w) \/ CloseFile(w)
      PROVE  Others(w) /\ rows' = rows /\ Good(w)'
  <2>1. PICK stage : Step(w, stage)
    BY <1>5 DEF LookForFile, OpenFile, CloseFile
  <2>2. Others(w) /\ Keeps(w) /\ poll'[w].stage = stage
    BY <2>1, StageStep
  <2>3. \A r \in poll'[w].rows : Stands(r)'
    BY <1>2, <2>2 DEF Keeps, FilesStand
  <2>4. FileOf(w)' = FileOf(w)
    BY <2>2 DEF FileOf, Keeps
  <2>5. poll'[w].stage \in {"write", "record"} => FileOf(w) \in (whole \cup part)'
    <3>1. CASE LookForFile(w)
      <4>1. poll'[w].stage = IF FileOf(w) \in whole \cup part THEN "record" ELSE "open"
        BY <3>1, StageStep DEF LookForFile
      <4> QED
        BY <4>1, <3>1 DEF LookForFile
    <3>2. CASE OpenFile(w)
      BY <3>2 DEF OpenFile
    <3>3. CASE CloseFile(w)
      BY <3>3, <1>1 DEF CloseFile, Writing, FilesStand
    <3> QED
      BY <1>5, <3>1, <3>2, <3>3
  <2>6. rows' = rows
    BY <1>5 DEF LookForFile, OpenFile, CloseFile
  <2> QED
    BY <2>2, <2>3, <2>4, <2>5, <2>6
<1>6. ASSUME NEW w \in Poll, Record(w)
      PROVE  Others(w) /\ rows' = rows /\ Good(w)'
  <2>1. Stands(RowOf(w))
    BY <1>6 DEF Record, RowOf, Stands, FilesStand, FileOf
  <2>2. /\ Others(w) /\ poll'[w].stage = "next"
        /\ poll'[w].rows \subseteq poll[w].rows \cup {RowOf(w)}
    BY <1>6, RecordStep
  <2> QED
    BY <1>6, <1>2, <2>1, <2>2 DEF Record, FilesStand
<1>7. ASSUME NEW w \in Poll, Succeed(w) \/ BreakOff(w)
      PROVE  Others(w) /\ Good(w)' /\ rows' \subseteq rows \cup poll[w].rows
  BY <1>7, SleepStep DEF Succeed, BreakOff
<1>8. ASSUME NEW w \in Poll, Others(w), Good(w)', rows' \subseteq rows \cup poll[w].rows
      PROVE  FilesStand'
  <2>1. \A r \in rows' : Stands(r)'
    BY <1>2, <1>8 DEF FilesStand
  <2>2. \A v \in Poll : Good(v)'
    BY <1>3, <1>8
  <2> QED
    BY <2>1, <2>2 DEF FilesStand
<1>9. CASE EditIndex \/ PassHour \/ UNCHANGED archiveVars
  BY <1>9 DEF EditIndex, PassHour, archiveVars, FilesStand, Stands, FileOf
<1> QED
  BY <1>4, <1>5, <1>6, <1>7, <1>8, <1>9 DEF ArchiveNext

(* A committed row has its whole file, or one that a break or a writing    *)
(* under way explains.                                                     *)
THEOREM ArchivedCorrect == ArchiveSpec => []ArchivedIsWhole
<1> DEFINE J == ArchiveTypeOK /\ PartExplained /\ FilesStand
<1>1. ArchiveInit => J
  <2>1. ArchiveInit => PartExplained /\ FilesStand
    BY DEF ArchiveInit, Asleep, PartExplained, FilesStand
  <2> QED
    BY <2>1, ArchiveTypeInit
<1>2. J /\ [ArchiveNext]_archiveVars => J'
  BY ArchiveTypeStep, PartStep, FilesStep
<1>3. J => ArchivedIsWhole
  BY DEF ArchivedIsWhole, FilesStand, Stands, PartExplained
<1> QED
  BY <1>1, <1>2, <1>3, PTL DEF ArchiveSpec

-----------------------------------------------------------------------------
(* Events.                                                                 *)

EventsInv == ArchiveTypeOK /\ RowsAnnounced /\ SeenHandled /\ SuccessCoversIndex

LEMMA EventsGrow ==
    ASSUME [ArchiveNext]_archiveVars
    PROVE  events \subseteq events'
BY DEF ArchiveNext, archiveVars, FetchIndex, LookForFile, OpenFile, CloseFile, Record, NextArticle,
       Succeed, BreakOff, EditIndex, PassHour

LEMMA AnnouncedGrows ==
    ASSUME NEW r, NEW known, NEW more, known \subseteq more, Announced(r, known)
    PROVE  Announced(r, more)
BY DEF Announced

(* A step of another poll leaves what a poll has announced and handled.    *)
LEMMA OthersEvents ==
    ASSUME RowsAnnounced, SeenHandled, events \subseteq events',
           NEW w, Others(w), NEW v \in Poll \ {w}
    PROVE  /\ \A r \in poll'[v].rows : Announced(r, events' \cup poll'[v].events)
           /\ poll'[v].page # 0 => UrlOf[poll'[v].page] = poll'[v].page
           /\ \A a \in poll'[v].seen \ poll'[v].todo : Handled(v, a)'
<1>1. poll'[v] = poll[v]
  BY DEF Others
<1>2. \A r \in poll[v].rows : Announced(r, events' \cup poll[v].events)
  BY DEF RowsAnnounced, Announced
<1>3. \A a \in poll[v].seen \ poll[v].todo : Handled(v, a)'
  BY <1>1 DEF SeenHandled, Handled, Fetched
<1> QED
  BY <1>1, <1>2, <1>3 DEF RowsAnnounced

(* What a step of w has to show for itself.                                *)
Own(w) == /\ \A r \in poll[w].rows : Announced(r, events \cup poll[w].events)
          /\ poll[w].page # 0 => UrlOf[poll[w].page] = poll[w].page
          /\ \A a \in poll[w].seen \ poll[w].todo : Handled(w, a)

LEMMA OwnOf ==
    ASSUME RowsAnnounced, SeenHandled, NEW w \in Poll
    PROVE  Own(w)
BY DEF RowsAnnounced, SeenHandled, Own

LEMMA EventsFrame ==
    ASSUME ArchiveTypeOK', RowsAnnounced, SeenHandled, SuccessCoversIndex,
           NEW w \in Poll, Others(w), Own(w)',
           rows' = rows, events' = events, covered' = covered
    PROVE  EventsInv'
<1>1. \A v \in Poll : Own(v)'
  BY OthersEvents DEF Own
<1>2. RowsAnnounced' /\ SeenHandled'
  BY <1>1 DEF Own, RowsAnnounced, SeenHandled
<1>3. SuccessCoversIndex'
  BY DEF SuccessCoversIndex
<1> QED
  BY <1>2, <1>3 DEF EventsInv

LEMMA RecordOwn ==
    ASSUME EventsInv, NEW w \in Poll, Record(w)
    PROVE  Own(w)'
<1>1. /\ poll'[w].stage = "next"
      /\ poll'[w].seen = poll[w].seen /\ poll'[w].todo = poll[w].todo
      /\ poll'[w].page = poll[w].page
      /\ poll'[w].rows \subseteq poll[w].rows \cup {RowOf(w)}
      /\ poll[w].events \subseteq poll'[w].events
      /\ poll[w].page # 0 => poll[w].page \in events \cup poll'[w].events
  BY RecordStep DEF EventsInv
<1>2. events' = events /\ Own(w)
  BY OwnOf DEF Record, EventsInv
<1>3. ASSUME NEW r \in poll'[w].rows
      PROVE  Announced(r, events' \cup poll'[w].events)
  <2>1. CASE r \in poll[w].rows
    BY <1>1, <1>2, <2>1 DEF Own, Announced
  <2>2. CASE r = RowOf(w)
    <3>1. r.url = poll[w].page
      BY <2>2 DEF RowOf
    <3> QED
      BY <1>1, <1>2, <3>1 DEF Own, Announced
  <2> QED
    BY <1>1, <2>1, <2>2
<1>4. ASSUME NEW a \in poll'[w].seen \ poll'[w].todo
      PROVE  Handled(w, a)'
  <2>1. a \in Article /\ UrlOf[a] # 0
    BY <1>1, ArchiveAssumption DEF EventsInv, ArchiveTypeOK, Work
  <2>2. UrlOf[a] \in events \cup poll[w].events \/ poll[w].page = UrlOf[a]
    BY <1>1, <1>2 DEF Own, Handled
  <2>3. UrlOf[a] \in events \cup poll'[w].events
    BY <1>1, <2>1, <2>2
  <2> QED
    BY <1>2, <2>3 DEF Handled
<1> QED
  BY <1>1, <1>2, <1>3, <1>4 DEF Own

LEMMA NextOwn ==
    ASSUME EventsInv, NEW w \in Poll, NextArticle(w)
    PROVE  Own(w)'
<1>1. /\ poll'[w].seen = poll[w].seen
      /\ poll'[w].rows = poll[w].rows /\ poll'[w].events = poll[w].events
  BY NextArticleStep DEF EventsInv
<1>2. PICK a \in poll[w].todo :
        /\ poll'[w].todo = poll[w].todo \ {a}
        /\ \/ /\ poll'[w].stage = "put" /\ poll'[w].page = UrlOf[a]
           \/ /\ \E r \in rows \cup poll[w].rows : r.url = a
              /\ poll'[w].page = poll[w].page
  BY NextArticleStep DEF EventsInv
<1>3. events' = events /\ Own(w) /\ ~Fetched(w)
  BY OwnOf DEF NextArticle, EventsInv, Fetched
<1>4. a \in Article /\ a # 0 /\ UrlOf[UrlOf[a]] = UrlOf[a]
  BY ArchiveAssumption DEF EventsInv, ArchiveTypeOK, Work
<1>5. Handled(w, a)'
  <2>1. CASE poll'[w].stage = "put" /\ poll'[w].page = UrlOf[a]
    BY <2>1 DEF Handled, Fetched
  <2>2. ASSUME NEW r \in rows \cup poll[w].rows, r.url = a
        PROVE  Handled(w, a)'
    <3>1. Announced(r, events \cup poll[w].events)
      BY <1>3, <2>2 DEF EventsInv, RowsAnnounced, Own, Announced
    <3> QED
      BY <1>1, <1>3, <1>4, <2>2, <3>1 DEF Announced, Handled
  <2> QED
    BY <1>2, <2>1, <2>2
<1>6. ASSUME NEW b \in poll'[w].seen \ poll'[w].todo
      PROVE  Handled(w, b)'
  <2>1. b = a \/ b \in poll[w].seen \ poll[w].todo
    BY <1>1, <1>2
  <2>2. CASE b \in poll[w].seen \ poll[w].todo
    BY <1>1, <1>3, <2>2 DEF Own, Handled
  <2> QED
    BY <1>5, <2>1, <2>2
<1>7. poll'[w].page # 0 => UrlOf[poll'[w].page] = poll'[w].page
  BY <1>2, <1>3, <1>4 DEF Own
<1>8. \A r \in poll'[w].rows : Announced(r, events' \cup poll'[w].events)
  BY <1>1, <1>3 DEF Own
<1> QED
  BY <1>6, <1>7, <1>8 DEF Own

(* The commit: what was at hand has been recorded, so that every article   *)
(* of the index has its event.                                             *)
LEMMA SucceedStep ==
    ASSUME EventsInv, NEW w \in Poll, Succeed(w), ArchiveTypeOK'
    PROVE  EventsInv'
<1>1. /\ rows' = rows \cup poll[w].rows /\ events' = events \cup poll[w].events
      /\ covered' = covered \cup poll[w].seen /\ poll[w].todo = {} /\ ~Fetched(w)
  BY DEF Succeed, Fetched
<1>2. /\ Others(w) /\ poll'[w].page = 0
      /\ poll'[w].seen = {} /\ poll'[w].rows = {}
  BY SleepStep DEF EventsInv
<1>3. Own(w)
  BY OwnOf DEF EventsInv
<1>4. \A r \in rows' : Announced(r, events')
  BY <1>1, <1>3 DEF EventsInv, RowsAnnounced, Own, Announced
<1>5. \A v \in Poll : Own(v)'
  <2>1. Own(w)'
    BY <1>2 DEF Own
  <2> QED
    BY <1>1, <1>2, <2>1, OthersEvents DEF EventsInv, Own
<1>6. RowsAnnounced' /\ SeenHandled'
  BY <1>4, <1>5 DEF RowsAnnounced, SeenHandled, Own
<1>7. \A a \in poll[w].seen : UrlOf[a] \in events'
  BY <1>1, <1>3 DEF Own, Handled
<1>8. SuccessCoversIndex'
  BY <1>1, <1>7 DEF EventsInv, SuccessCoversIndex
<1> QED
  BY <1>6, <1>8 DEF EventsInv

LEMMA EventsStep == EventsInv /\ [ArchiveNext]_archiveVars => EventsInv'
<1> SUFFICES ASSUME EventsInv, [ArchiveNext]_archiveVars
             PROVE  EventsInv'
  OBVIOUS
<1> USE DEF EventsInv
<1>t. ArchiveTypeOK'
  BY ArchiveTypeStep
<1>1. ASSUME NEW w \in Poll, FetchIndex(w)
      PROVE  EventsInv'
  <2>1. Others(w) /\ Own(w)'
    BY <1>1, FetchStep DEF Own
  <2> QED
    BY <1>t, <1>1, <2>1, EventsFrame DEF FetchIndex
<1>2. ASSUME NEW w \in Poll, LookForFile(w) \/ OpenFile(w) \/ CloseFile(w)
      PROVE  EventsInv'
  <2>1. PICK stage \in {"record", "open", "write"} : Step(w, stage)
    BY <1>2 DEF LookForFile, OpenFile, CloseFile
  <2>2. Others(w) /\ Keeps(w) /\ poll'[w].stage = stage
    BY <2>1, StageStep
  <2>3. Own(w) /\ events' = events
    BY <1>2, OwnOf DEF LookForFile, OpenFile, CloseFile
  <2>4. Own(w)'
    BY <2>2, <2>3 DEF Own, Keeps, Handled, Fetched
  <2> QED
    BY <1>t, <1>2, <2>2, <2>4, EventsFrame DEF LookForFile, OpenFile, CloseFile
<1>3. ASSUME NEW w \in Poll, Record(w)
      PROVE  EventsInv'
  BY <1>t, <1>3, RecordOwn, RecordStep, EventsFrame DEF Record
<1>4. ASSUME NEW w \in Poll, NextArticle(w)
      PROVE  EventsInv'
  BY <1>t, <1>4, NextOwn, NextArticleStep, EventsFrame DEF NextArticle
<1>5. ASSUME NEW w \in Poll, Succeed(w)
      PROVE  EventsInv'
  BY <1>t, <1>5, SucceedStep
<1>6. ASSUME NEW w \in Poll, BreakOff(w)
      PROVE  EventsInv'
  <2>1. Others(w) /\ Own(w)'
    BY <1>6, SleepStep DEF Own
  <2> QED
    BY <1>t, <1>6, <2>1, EventsFrame DEF BreakOff
<1>7. CASE EditIndex \/ PassHour \/ UNCHANGED archiveVars
  <2>1. UNCHANGED <<poll, rows, events, covered>>
    BY <1>7 DEF EditIndex, PassHour, archiveVars
  <2> QED
    BY <1>t, <2>1 DEF RowsAnnounced, SeenHandled, SuccessCoversIndex, Handled, Fetched, Announced
<1> QED
  BY <1>1, <1>2, <1>3, <1>4, <1>5, <1>6, <1>7 DEF ArchiveNext

(* An article listed when a successful poll began has its event, however   *)
(* polls overlap, fail and lead to the same URL.                           *)
THEOREM CoverageCorrect == ArchiveSpec => []SuccessCoversIndex
<1>1. ArchiveInit => EventsInv
  <2>1. ArchiveInit => RowsAnnounced /\ SeenHandled /\ SuccessCoversIndex
    BY DEF ArchiveInit, Asleep, RowsAnnounced, SeenHandled, SuccessCoversIndex
  <2> QED
    BY <2>1, ArchiveTypeInit DEF EventsInv
<1>2. EventsInv => SuccessCoversIndex
  BY DEF EventsInv
<1> QED
  BY <1>1, <1>2, EventsStep, PTL DEF ArchiveSpec

(***************************************************************************)
(*                           Public posts                                  *)
(***************************************************************************)
Job == [stage : {"idle", "checked", "sent", "stored", "listed"},
        of : Prediction \cup {"none"}, id : PostId \cup {0},
        recent : Seq(PostId), fresh : BOOLEAN]

Newer(i) == {k \in told : k > i}
Plain    == told \ jostled

(* A publication under way has what its stage needs; its post is not told. *)
StageShape ==
    \A w \in Poster :
        /\ posting[w].stage = "idle" <=> posting[w].of = "none"
        /\ posting[w].stage \in {"idle", "checked"} <=> posting[w].id = 0
        /\ posting[w].id # 0 => /\ posting[w].id \in DOMAIN timeline
                                /\ timeline[posting[w].id] = posting[w].of
                                /\ posting[w].id \notin told
        /\ posting[w].stage = "listed" =>
              /\ Len(posting[w].recent) \in 1..Keep
              /\ posting[w].recent[Len(posting[w].recent)] = posting[w].id

(* What was told was posted, and there is a persona since the first time.  *)
ToldPosted == told \subseteq DOMAIN timeline /\ (persona = NoPersona => told = {})

(* Publications that overlap are marked: of one prediction, also after one *)
(* of them has been committed, and of any two posts.                       *)
ContestedMarked ==
    \A w \in Poster :
        /\ posting[w].of # "none" /\ public[posting[w].of] = "published" => posting[w].of \in contested
        /\ \A v \in Poster \ {w} :
              posting[v].of = posting[w].of /\ posting[w].of # "none" => posting[w].of \in contested

JostledMarked ==
    \A w \in Poster : \A v \in Poster \ {w} :
        posting[w].id # 0 /\ posting[v].id # 0 =>
            posting[w].id # posting[v].id /\ posting[w].id \in jostled

(* A post that met no other is older than every one still under way, and   *)
(* newer than all that were told before it.                                *)
PlainInOrder ==
    \A w \in Poster : posting[w].id # 0 =>
        /\ \A i \in Plain : i < posting[w].id
        /\ posting[w].id \notin jostled => \A k \in told : k < posting[w].id

(* A list holds i with no more than n posts after it.                      *)
HoldsWithin(list, i, n) == \E k \in DOMAIN list : list[k] = i /\ Len(list) - k <= n

(* What the persona lists now, and what a pending list will make of it.    *)
ListedNow == \A i \in Plain : Cardinality(Newer(i)) < Keep => HoldsWithin(persona, i, Cardinality(Newer(i)))

ListedNext ==
    \A w \in Poster : posting[w].stage = "listed" =>
        \A i \in Plain : Cardinality(Newer(i)) + 1 < Keep =>
            HoldsWithin(posting[w].recent, i, Cardinality(Newer(i)) + 1)

PostsInv == /\ PublishingTypeOK /\ StageShape /\ ToldPosted
       /\ ContestedMarked /\ PostsAccounted
       /\ JostledMarked /\ PlainInOrder /\ ListedNow /\ ListedNext

-----------------------------------------------------------------------------
(* Types and counts.                                                       *)

LEMMA JobType ==
    ASSUME PublishingTypeOK, NEW w \in Poster
    PROVE  posting[w] \in Job
BY DEF PublishingTypeOK, Job

LEMMA RestingType == Resting \in Job
<1>1. << >> \in Seq(PostId)
  BY EmptySeq
<1> QED
  BY <1>1 DEF Resting, Job

LEMMA NewerCount ==
    ASSUME PublishingTypeOK, NEW i
    PROVE  IsFiniteSet(Newer(i)) /\ Cardinality(Newer(i)) \in Nat
<1>1. IsFiniteSet(1..MaxPosts)
  BY FS_Interval, PublishingAssumption
<1>2. Newer(i) \in SUBSET (1..MaxPosts)
  BY DEF Newer, PublishingTypeOK, PostId
<1>3. IsFiniteSet(Newer(i))
  BY <1>1, <1>2, FS_Subset
<1> QED
  BY <1>3, FS_CardinalityType

(* Telling one more post puts one more after every earlier one.            *)
LEMMA NewerGrows ==
    ASSUME PublishingTypeOK, NEW k \in PostId, NEW i \in PostId, k \notin told, i < k,
           told' = told \cup {k}
    PROVE  Cardinality(Newer(i)') = Cardinality(Newer(i)) + 1
<1>1. Newer(i)' = Newer(i) \cup {k} /\ k \notin Newer(i)
  BY DEF Newer
<1>2. IsFiniteSet(Newer(i))
  BY NewerCount
<1> QED
  BY <1>1, <1>2, FS_AddElement

(* The invariant holds at first.                                           *)
LEMMA PostsInit == PublishingInit => PostsInv
<1> SUFFICES ASSUME PublishingInit PROVE PostsInv
  OBVIOUS
<1> USE PublishingAssumption DEF PublishingInit
<1>1. timeline = << >> /\ timeline \in Seq(Prediction) /\ Len(timeline) = 0 /\ DOMAIN timeline = {}
  BY EmptySeq, LenProperties
<1>2. PublishingTypeOK
  BY <1>1, RestingType DEF PublishingTypeOK, Job, PostId
<1>3. StageShape /\ ContestedMarked /\ JostledMarked /\ PlainInOrder /\ ListedNext
  BY DEF StageShape, ContestedMarked, JostledMarked, PlainInOrder, ListedNext, Resting
<1>4. ToldPosted /\ PostsAccounted /\ ListedNow
  BY <1>1 DEF ToldPosted, PostsAccounted, ListedNow, Plain
<1> QED
  BY <1>2, <1>3, <1>4 DEF PostsInv

-----------------------------------------------------------------------------
(* Every step keeps it.                                                    *)

LEMMA DraftInv ==
    ASSUME PostsInv, NEW d \in Prediction, CreateDraft(d)
    PROVE  PostsInv'
<1> USE DEF CreateDraft
<1>1. PublishingTypeOK'
  BY DEF PostsInv, PublishingTypeOK
<1>2. StageShape' /\ ToldPosted' /\ JostledMarked' /\ PlainInOrder' /\ ListedNow' /\ ListedNext'
  BY DEF PostsInv, StageShape, ToldPosted, JostledMarked, PlainInOrder, ListedNow, ListedNext,
         Plain, Newer, HoldsWithin
<1>3. ContestedMarked'
  BY DEF PostsInv, ContestedMarked, PublishingTypeOK
<1>4. PostsAccounted'
  BY DEF PostsInv, PostsAccounted, PublishingTypeOK
<1> QED
  BY <1>1, <1>2, <1>3, <1>4 DEF PostsInv

LEMMA CheckInv ==
    ASSUME PostsInv, NEW w \in Poster, NEW d \in Prediction, CheckDraft(w, d)
    PROVE  PostsInv'
<1> DEFINE new == [Resting EXCEPT !.stage = "checked", !.of = d]
<1> USE PublishingAssumption
<1>1. new \in Job /\ new.stage = "checked" /\ new.of = d /\ new.id = 0
  BY RestingType DEF Resting, Job
<1>2. /\ posting' = [posting EXCEPT ![w] = new]
      /\ posting[w].stage = "idle" /\ public[d] = "draft"
      /\ contested' = contested \cup {e \in {d} : \E v \in Poster : posting[v].of = e}
      /\ UNCHANGED <<public, external, timeline, told, persona, forgotten, jostled>>
  BY DEF CheckDraft
<1>3. posting \in [Poster -> Job] /\ contested \subseteq Prediction
  BY DEF PostsInv, PublishingTypeOK, Job
<1> HIDE DEF new
<1>4. posting'[w] = new /\ \A v \in Poster \ {w} : posting'[v] = posting[v]
  BY <1>2, <1>3
<1>5. posting[w].id = 0
  BY <1>2 DEF PostsInv, StageShape
<1>6. PublishingTypeOK'
  <2>1. posting' \in [Poster -> Job] /\ contested' \subseteq Prediction
    BY <1>1, <1>2, <1>3
  <2> QED
    BY <1>2, <2>1 DEF PostsInv, PublishingTypeOK, Job
<1>7. StageShape'
  BY <1>1, <1>2, <1>4 DEF PostsInv, StageShape
<1>8. ToldPosted' /\ ListedNow'
  BY <1>2 DEF PostsInv, ToldPosted, ListedNow, Plain, Newer, HoldsWithin
<1>9. ContestedMarked'
  BY <1>1, <1>2, <1>4 DEF PostsInv, ContestedMarked
<1>10. PostsAccounted'
  <2> SUFFICES ASSUME NEW i \in DOMAIN timeline,
                      ~(external[timeline[i]] = i /\ public[timeline[i]] = "published" /\ i \in told),
                      i \notin forgotten, timeline[i] \notin contested
               PROVE  \E v \in Poster : posting'[v].id = i
    BY <1>2 DEF PostsAccounted
  <2>1. PICK v \in Poster : posting[v].id = i
    BY DEF PostsInv, PostsAccounted
  <2>2. i # 0
    BY LenProperties DEF PostsInv, PublishingTypeOK
  <2> QED
    BY <1>4, <1>5, <2>1, <2>2
<1>11. JostledMarked' /\ PlainInOrder'
  BY <1>1, <1>2, <1>4 DEF PostsInv, JostledMarked, PlainInOrder, Plain
<1>12. ListedNext'
  BY <1>1, <1>2, <1>4 DEF PostsInv, ListedNext, Plain, Newer, HoldsWithin
<1> QED
  BY <1>6, <1>7, <1>8, <1>9, <1>10, <1>11, <1>12 DEF PostsInv

LEMMA SendInv ==
    ASSUME PostsInv, NEW w \in Poster, Send(w)
    PROVE  PostsInv'
<1> DEFINE d == posting[w].of
           n == Len(timeline) + 1
           others == {v \in Poster \ {w} : posting[v].id # 0}
<1> USE PublishingAssumption
<1>1. posting \in [Poster -> Job] /\ posting[w] \in Job
  BY DEF PostsInv, PublishingTypeOK, Job
<1>2. /\ posting[w].stage = "checked" /\ Len(timeline) < MaxPosts
      /\ timeline' = Append(timeline, d)
      /\ posting' = [posting EXCEPT ![w].stage = "sent", ![w].id = n]
      /\ jostled' = jostled \cup (IF others = {} THEN {} ELSE {n} \cup {posting[v].id : v \in others})
      /\ UNCHANGED <<public, external, told, persona, forgotten, contested>>
  BY DEF Send
<1>3. posting[w].id = 0 /\ d \in Prediction
  BY <1>1, <1>2 DEF PostsInv, StageShape, Job
<1>4. /\ timeline \in Seq(Prediction) /\ Len(timeline) \in Nat /\ DOMAIN timeline = 1..Len(timeline)
      /\ timeline' \in Seq(Prediction) /\ DOMAIN timeline' = 1..n /\ Len(timeline') = n
      /\ timeline'[n] = d /\ \A i \in DOMAIN timeline : timeline'[i] = timeline[i]
  BY <1>2, <1>3, AppendProperties, LenProperties DEF PostsInv, PublishingTypeOK
<1>5. n \in PostId
  BY <1>2, <1>4 DEF PostId
<1>6. /\ posting' \in [Poster -> Job]
      /\ posting'[w].stage = "sent" /\ posting'[w].id = n /\ posting'[w].of = d
      /\ \A v \in Poster \ {w} : posting'[v] = posting[v]
  BY <1>1, <1>2, <1>5 DEF Job
<1>7. told \subseteq 1..Len(timeline) /\ n \notin told
  BY <1>4 DEF PostsInv, ToldPosted
<1>8. \A v \in Poster \ {w} : posting[v].id # 0 => posting[v].id \in 1..Len(timeline)
  BY <1>4 DEF PostsInv, StageShape
<1>9. jostled' \subseteq PostId /\ jostled \subseteq jostled'
  BY <1>1, <1>2, <1>5 DEF PostsInv, PublishingTypeOK, Job
<1>10. PublishingTypeOK'
  BY <1>2, <1>4, <1>6, <1>9 DEF PostsInv, PublishingTypeOK, Job
<1>11. StageShape'
  BY <1>2, <1>3, <1>4, <1>6, <1>7 DEF PostsInv, StageShape
<1>12. ToldPosted' /\ ContestedMarked'
  BY <1>2, <1>4, <1>6 DEF PostsInv, ToldPosted, ContestedMarked
<1>13. PostsAccounted'
  <2> SUFFICES ASSUME NEW i \in DOMAIN timeline',
                      ~(external[timeline'[i]] = i /\ public[timeline'[i]] = "published" /\ i \in told),
                      i \notin forgotten, timeline'[i] \notin contested
               PROVE  \E v \in Poster : posting'[v].id = i
    BY <1>2 DEF PostsAccounted
  <2>1. CASE i = n
    BY <1>6, <2>1
  <2>2. CASE i \in DOMAIN timeline
    <3>1. PICK v \in Poster : posting[v].id = i
      BY <1>4, <2>2 DEF PostsInv, PostsAccounted
    <3> QED
      BY <1>3, <1>4, <1>6, <2>2, <3>1
  <2> QED
    BY <1>4, <2>1, <2>2
<1>14. JostledMarked'
  <2> SUFFICES ASSUME NEW u \in Poster, NEW v \in Poster \ {u},
                      posting'[u].id # 0, posting'[v].id # 0
               PROVE  posting'[u].id # posting'[v].id /\ posting'[u].id \in jostled'
    BY DEF JostledMarked
  <2>1. CASE u = w
    BY <1>2, <1>4, <1>6, <1>8, <2>1
  <2>2. CASE v = w
    BY <1>2, <1>4, <1>6, <1>8, <2>2
  <2>3. CASE u # w /\ v # w
    BY <1>6, <1>9, <2>3 DEF PostsInv, JostledMarked
  <2> QED
    BY <2>1, <2>2, <2>3
<1>15. PlainInOrder'
  <2> SUFFICES ASSUME NEW v \in Poster, posting'[v].id # 0
               PROVE  /\ \A i \in Plain' : i < posting'[v].id
                      /\ posting'[v].id \notin jostled' => \A k \in told : k < posting'[v].id
    BY <1>2 DEF PlainInOrder
  <2>1. Plain' \subseteq Plain /\ Plain \subseteq told
    BY <1>2, <1>9 DEF Plain
  <2>2. CASE v = w
    BY <1>4, <1>6, <1>7, <2>1, <2>2
  <2>3. CASE v # w
    BY <1>6, <1>9, <2>1, <2>3 DEF PostsInv, PlainInOrder
  <2> QED
    BY <2>2, <2>3
<1>16. ListedNow' /\ ListedNext'
  <2>1. Plain' \subseteq Plain /\ (\A i : Newer(i)' = Newer(i)) /\ persona' = persona
    BY <1>2, <1>9 DEF Plain, Newer
  <2>2. \A v \in Poster : posting'[v].stage = "listed" => posting'[v] = posting[v]
    BY <1>6
  <2> QED
    BY <2>1, <2>2 DEF PostsInv, ListedNow, ListedNext, HoldsWithin
<1> QED
  BY <1>10, <1>11, <1>12, <1>13, <1>14, <1>15, <1>16 DEF PostsInv

(* Storing the rows only moves the publication on.                         *)
LEMMA StoreInv ==
    ASSUME PostsInv, NEW w \in Poster, StoreRows(w)
    PROVE  PostsInv'
<1>1. /\ posting[w].stage = "sent"
      /\ posting' = [posting EXCEPT ![w].stage = "stored"]
      /\ UNCHANGED <<public, external, timeline, told, persona, forgotten, contested, jostled>>
  BY DEF StoreRows
<1>2. posting \in [Poster -> Job]
  BY DEF PostsInv, PublishingTypeOK, Job
<1>3. /\ posting' \in [Poster -> Job]
      /\ posting'[w].stage = "stored"
      /\ \A v \in Poster : posting'[v].id = posting[v].id /\ posting'[v].of = posting[v].of
      /\ \A v \in Poster \ {w} : posting'[v] = posting[v]
  BY <1>1, <1>2 DEF Job
<1>4. PublishingTypeOK' /\ ToldPosted' /\ PostsAccounted'
  BY <1>1, <1>3 DEF PostsInv, PublishingTypeOK, Job, ToldPosted, PostsAccounted
<1>5. StageShape'
  BY <1>1, <1>3 DEF PostsInv, StageShape
<1>6. ContestedMarked' /\ JostledMarked' /\ PlainInOrder'
  BY <1>1, <1>3 DEF PostsInv, ContestedMarked, JostledMarked, PlainInOrder, Plain
<1>7. ListedNow' /\ ListedNext'
  BY <1>1, <1>3 DEF PostsInv, ListedNow, ListedNext, Plain, Newer, HoldsWithin
<1> QED
  BY <1>4, <1>5, <1>6, <1>7 DEF PostsInv

(* The list of a publication keeps whoever has fewer than Keep - 1 posts   *)
(* after it, one place further from its end.                               *)
LEMMA ListKeeps ==
    ASSUME NEW known \in Seq(PostId), NEW id \in PostId, NEW from \in 1..2,
           from = 1 => Len(known) < Keep, from = 2 => Len(known) = Keep
    PROVE  LET list == Append(SubSeq(known, from, Len(known)), id)
           IN  /\ list \in Seq(PostId) /\ Len(list) \in 1..Keep
               /\ list[Len(list)] = id
               /\ \A i, n : n \in Nat /\ n + 1 < Keep /\ HoldsWithin(known, i, n) => HoldsWithin(list, i, n + 1)
<1> DEFINE kept == SubSeq(known, from, Len(known))
           list == Append(kept, id)
<1>1. Len(known) \in Nat
  BY LenProperties
<1>2. Keep \in Nat \ {0} /\ from <= Len(known) + 1
  BY <1>1, PublishingAssumption
<1>3. \A k \in from..Len(known) : known[k] \in PostId
  BY <1>1, ElementOfSeq
<1>4. /\ kept \in Seq(PostId)
      /\ Len(kept) = IF from <= Len(known) THEN Len(known) - from + 1 ELSE 0
      /\ \A k \in 1..(Len(known) - from + 1) : kept[k] = known[from + k - 1]
  BY <1>1, <1>3, SubSeqProperties
<1> HIDE DEF kept
<1>5. Len(kept) = Len(known) - from + 1
  BY <1>1, <1>2, <1>4
<1>6. /\ list \in Seq(PostId) /\ Len(list) = Len(known) - from + 2
      /\ list[Len(list)] = id
      /\ \A k \in 1..Len(kept) : list[k] = kept[k]
  <2>1. /\ list \in Seq(PostId) /\ Len(list) = Len(kept) + 1
        /\ \A k \in 1..Len(kept) : list[k] = kept[k]
        /\ list[Len(kept) + 1] = id
    BY <1>4, AppendProperties
  <2> HIDE DEF list
  <2> QED
    BY <1>1, <1>5, <2>1
<1> HIDE DEF list
<1>7. Len(list) \in 1..Keep
  BY <1>1, <1>2, <1>6
<1>8. ASSUME NEW i, NEW n \in Nat, n + 1 < Keep, HoldsWithin(known, i, n)
      PROVE  HoldsWithin(list, i, n + 1)
  <2>1. PICK k \in 1..Len(known) : known[k] = i /\ Len(known) - k <= n
    BY <1>8, LenProperties DEF HoldsWithin
  <2>2. k >= from
    BY <1>1, <1>2, <1>8, <2>1
  <2>3. k - from + 1 \in 1..(Len(known) - from + 1)
    BY <1>1, <2>1, <2>2
  <2>4. list[k - from + 1] = i
    <3>1. kept[k - from + 1] = known[from + (k - from + 1) - 1]
      BY <1>4, <2>3
    <3>2. from + (k - from + 1) - 1 = k
      BY <2>1
    <3> QED
      BY <1>5, <1>6, <2>1, <2>3, <3>1, <3>2
  <2>5. k - from + 1 \in DOMAIN list
    BY <1>1, <1>6, <2>3, LenProperties
  <2>6. Len(list) - (k - from + 1) <= n + 1
    BY <1>1, <1>6, <2>1
  <2> QED
    BY <2>4, <2>5, <2>6 DEF HoldsWithin
<1> QED
  BY <1>6, <1>7, <1>8 DEF list, kept

LEMMA ListInv ==
    ASSUME PostsInv, NEW w \in Poster, ListPost(w)
    PROVE  PostsInv'
<1> DEFINE known == IF persona = NoPersona THEN << >> ELSE persona
           from  == IF Len(known) < Keep THEN 1 ELSE Len(known) - Keep + 2
           list  == Append(SubSeq(known, from, Len(known)), posting[w].id)
           new   == [posting[w] EXCEPT !.stage = "listed", !.fresh = (persona = NoPersona),
                                       !.recent = list]
<1> USE PublishingAssumption
<1>1. posting \in [Poster -> Job] /\ posting[w] \in Job
  BY DEF PostsInv, PublishingTypeOK, Job
<1>2. /\ posting[w].stage = "stored"
      /\ posting' = [posting EXCEPT ![w].stage = "listed", ![w].fresh = (persona = NoPersona),
                                    ![w].recent = list]
      /\ UNCHANGED <<public, external, timeline, told, persona, forgotten, contested, jostled>>
  BY DEF ListPost
<1>3. posting[w].id \in PostId
  BY <1>1, <1>2 DEF PostsInv, StageShape, Job
<1>4. known \in Seq(PostId) /\ Len(known) <= Keep
  BY EmptySeq DEF PostsInv, PublishingTypeOK
<1>5. /\ list \in Seq(PostId) /\ Len(list) \in 1..Keep /\ list[Len(list)] = posting[w].id
      /\ \A i, n : n \in Nat /\ n + 1 < Keep /\ HoldsWithin(known, i, n) => HoldsWithin(list, i, n + 1)
  <2>1. Len(known) \in Nat
    BY <1>4, LenProperties
  <2> HIDE DEF known
  <2>2. from \in 1..2 /\ (from = 1 => Len(known) < Keep) /\ (from = 2 => Len(known) = Keep)
    BY <1>4, <2>1
  <2> HIDE DEF from
  <2> QED
    BY <1>3, <1>4, <2>2, ListKeeps
<1> HIDE DEF list, from
<1>6. /\ posting' \in [Poster -> Job]
      /\ posting'[w].stage = "listed" /\ posting'[w].recent = list
      /\ \A v \in Poster : posting'[v].id = posting[v].id /\ posting'[v].of = posting[v].of
      /\ \A v \in Poster \ {w} : posting'[v] = posting[v]
  BY <1>1, <1>2, <1>5 DEF Job
<1>7. PublishingTypeOK' /\ ToldPosted' /\ PostsAccounted'
  BY <1>2, <1>6 DEF PostsInv, PublishingTypeOK, Job, ToldPosted, PostsAccounted
<1>8. StageShape'
  BY <1>2, <1>5, <1>6 DEF PostsInv, StageShape
<1>9. ContestedMarked' /\ JostledMarked' /\ PlainInOrder' /\ ListedNow'
  BY <1>2, <1>6 DEF PostsInv, ContestedMarked, JostledMarked, PlainInOrder, ListedNow, Plain, Newer, HoldsWithin
<1>10. ListedNext'
  <2>3. Plain' = Plain /\ \A i : Newer(i)' = Newer(i)
    BY <1>2 DEF Plain, Newer
  <2> SUFFICES ASSUME NEW v \in Poster, posting'[v].stage = "listed", NEW i \in Plain,
                      Cardinality(Newer(i)) + 1 < Keep
               PROVE  HoldsWithin(posting'[v].recent, i, Cardinality(Newer(i)) + 1)
    BY <2>3 DEF ListedNext, HoldsWithin
  <2>1. CASE v = w
    <3>1. Cardinality(Newer(i)) \in Nat
      BY NewerCount DEF PostsInv
    <3>2. HoldsWithin(persona, i, Cardinality(Newer(i)))
      BY <3>1 DEF PostsInv, ListedNow
    <3>3. known = persona
      BY DEF PostsInv, ToldPosted, Plain
    <3> QED
      BY <1>5, <1>6, <2>1, <3>1, <3>2, <3>3
  <2>2. CASE v # w
    BY <1>6, <2>2 DEF PostsInv, ListedNext
  <2> QED
    BY <2>1, <2>2
<1> QED
  BY <1>7, <1>8, <1>9, <1>10 DEF PostsInv

LEMMA AbandonInv ==
    ASSUME PostsInv, NEW w \in Poster, AbandonPost(w)
    PROVE  PostsInv'
<1>1. /\ posting' = [posting EXCEPT ![w] = Resting]
      /\ forgotten' = forgotten \cup ({posting[w].id} \ {0})
      /\ UNCHANGED <<public, external, timeline, told, persona, contested, jostled>>
  BY DEF AbandonPost
<1>2. posting \in [Poster -> Job] /\ posting[w] \in Job
  BY DEF PostsInv, PublishingTypeOK, Job
<1>3. /\ posting' \in [Poster -> Job] /\ posting'[w] = Resting
      /\ \A v \in Poster \ {w} : posting'[v] = posting[v]
  BY <1>1, <1>2, RestingType
<1>4. Resting.stage = "idle" /\ Resting.of = "none" /\ Resting.id = 0
  BY DEF Resting
<1>5. PublishingTypeOK' /\ ToldPosted'
  <2>1. forgotten' \subseteq PostId
    BY <1>1, <1>2 DEF PostsInv, PublishingTypeOK, Job
  <2> QED
    BY <1>1, <1>3, <2>1 DEF PostsInv, PublishingTypeOK, Job, ToldPosted
<1>6. StageShape' /\ ContestedMarked' /\ JostledMarked' /\ PlainInOrder'
  BY <1>1, <1>3, <1>4 DEF PostsInv, StageShape, ContestedMarked, JostledMarked, PlainInOrder, Plain
<1>7. PostsAccounted'
  <2> SUFFICES ASSUME NEW i \in DOMAIN timeline,
                      ~(external[timeline[i]] = i /\ public[timeline[i]] = "published" /\ i \in told),
                      i \notin forgotten', timeline[i] \notin contested
               PROVE  \E v \in Poster : posting'[v].id = i
    BY <1>1 DEF PostsAccounted
  <2>1. i \notin forgotten /\ (i # 0 => i # posting[w].id)
    BY <1>1
  <2>2. i # 0
    BY LenProperties DEF PostsInv, PublishingTypeOK
  <2>3. PICK v \in Poster : posting[v].id = i
    BY <2>1 DEF PostsInv, PostsAccounted
  <2> QED
    BY <1>3, <2>1, <2>2, <2>3
<1>8. ListedNow' /\ ListedNext'
  BY <1>1, <1>3, <1>4 DEF PostsInv, ListedNow, ListedNext, Plain, Newer, HoldsWithin
<1> QED
  BY <1>5, <1>6, <1>7, <1>8 DEF PostsInv

(* A commit tells its post, which comes after all that met no other; only  *)
(* a publication that met it can be under way besides.                     *)
LEMMA CommitInv ==
    ASSUME PostsInv, NEW w \in Poster, CommitPost(w)
    PROVE  PostsInv'
<1> DEFINE d == posting[w].of
           n == posting[w].id
           recent == posting[w].recent
<1>1. posting \in [Poster -> Job] /\ posting[w] \in Job
  BY DEF PostsInv, PublishingTypeOK, Job
<1>2. /\ posting[w].stage = "listed"
      /\ public' = [public EXCEPT ![d] = "published"]
      /\ external' = [external EXCEPT ![d] = n]
      /\ told' = told \cup {n}
      /\ persona' = recent
      /\ posting' = [posting EXCEPT ![w] = Resting]
      /\ UNCHANGED <<timeline, forgotten, contested, jostled>>
  BY DEF CommitPost
<1>3. /\ n \in PostId /\ n # 0 /\ d \in Prediction /\ d # "none"
      /\ recent \in Seq(PostId) /\ Len(recent) \in 1..Keep /\ recent[Len(recent)] = n
      /\ n \in DOMAIN timeline /\ timeline[n] = d /\ n \notin told
  BY <1>1, <1>2 DEF PostsInv, StageShape, Job
<1>4. /\ posting' \in [Poster -> Job] /\ posting'[w] = Resting
      /\ \A v \in Poster \ {w} : posting'[v] = posting[v]
  BY <1>1, <1>2, RestingType
<1>5. Resting.stage = "idle" /\ Resting.of = "none" /\ Resting.id = 0
  BY DEF Resting
<1>6. /\ public' \in [Prediction -> {"none", "draft", "published"}] /\ public'[d] = "published"
      /\ external' \in [Prediction -> PostId \cup {0}] /\ external'[d] = n
      /\ \A e \in Prediction \ {d} : public'[e] = public[e] /\ external'[e] = external[e]
  BY <1>2, <1>3 DEF PostsInv, PublishingTypeOK
<1> HIDE DEF d, n, recent
<1>7. \A v \in Poster \ {w} : posting[v].id # 0 =>
          posting[v].id # n /\ n \in jostled /\ posting[v].id \in jostled
  BY <1>3 DEF PostsInv, JostledMarked, n
<1>8. PublishingTypeOK'
  <2>1. told' \subseteq PostId /\ timeline' = timeline /\ forgotten' \subseteq PostId
        /\ jostled' \subseteq PostId /\ contested' \subseteq Prediction
    BY <1>2, <1>3 DEF PostsInv, PublishingTypeOK
  <2>2. persona' \in Seq(PostId) /\ Len(persona') <= Keep
    BY <1>2, <1>3, PublishingAssumption
  <2> QED
    BY <1>4, <1>6, <2>1, <2>2 DEF PostsInv, PublishingTypeOK, Job
<1>9. StageShape'
  BY <1>2, <1>4, <1>5, <1>7 DEF PostsInv, StageShape
<1>10. ToldPosted'
  <2>1. persona' # NoPersona
    <3>1. recent[Len(recent)] # 0
      BY <1>3
    <3>2. \A k \in DOMAIN NoPersona : NoPersona[k] = 0
      BY DEF NoPersona
    <3>3. Len(recent) \in DOMAIN recent
      BY <1>3, LenProperties
    <3> QED
      BY <1>2, <3>1, <3>2, <3>3
  <2> QED
    BY <1>2, <1>3, <2>1 DEF PostsInv, ToldPosted
<1>11. ContestedMarked'
  <2> SUFFICES ASSUME NEW v \in Poster \ {w}, posting[v].of # "none"
               PROVE  /\ public'[posting[v].of] = "published" => posting[v].of \in contested
                      /\ \A u \in Poster \ {v} :
                            posting'[u].of = posting[v].of => posting[v].of \in contested
    BY <1>2, <1>4, <1>5 DEF ContestedMarked
  <2>1. posting[v].of \in Prediction
    BY <1>1 DEF Job
  <2>2. posting[v].of = d => posting[v].of \in contested
    BY <1>3 DEF PostsInv, ContestedMarked, d
  <2>3. public'[posting[v].of] = "published" => posting[v].of \in contested
    BY <1>6, <2>1, <2>2 DEF PostsInv, ContestedMarked
  <2>4. ASSUME NEW u \in Poster \ {v}, posting'[u].of = posting[v].of
        PROVE  posting[v].of \in contested
    BY <1>4, <1>5, <2>4 DEF PostsInv, ContestedMarked
  <2> QED
    BY <2>3, <2>4
<1>12. PostsAccounted'
  <2> SUFFICES ASSUME NEW i \in DOMAIN timeline,
                      ~(external'[timeline[i]] = i /\ public'[timeline[i]] = "published" /\ i \in told'),
                      i \notin forgotten, timeline[i] \notin contested
               PROVE  \E v \in Poster : posting'[v].id = i
    BY <1>2 DEF PostsAccounted
  <2>1. i # n
    BY <1>2, <1>3, <1>6
  <2>2. timeline[i] \in Prediction
    BY LenProperties DEF PostsInv, PublishingTypeOK
  <2>3. CASE external[timeline[i]] = i /\ public[timeline[i]] = "published" /\ i \in told
    <3>1. timeline[i] # d
      BY <1>3, <2>3 DEF PostsInv, ContestedMarked, d
    <3> QED
      BY <1>2, <1>6, <2>2, <2>3, <3>1
  <2>4. CASE \E v \in Poster : posting[v].id = i
    BY <1>4, <2>1, <2>4 DEF n
  <2> QED
    BY <2>3, <2>4 DEF PostsInv, PostsAccounted
<1>13. JostledMarked'
  BY <1>2, <1>4, <1>5 DEF PostsInv, JostledMarked
<1>14. Plain' = Plain \cup ({n} \ jostled)
  BY <1>2 DEF Plain
<1>15. PlainInOrder'
  <2> SUFFICES ASSUME NEW v \in Poster \ {w}, posting[v].id # 0
               PROVE  /\ \A i \in Plain' : i < posting[v].id
                      /\ posting[v].id \notin jostled => \A k \in told' : k < posting[v].id
    BY <1>2, <1>4, <1>5 DEF PlainInOrder
  <2>1. n \in jostled /\ posting[v].id \in jostled
    BY <1>7
  <2> QED
    BY <1>14, <2>1 DEF PostsInv, PlainInOrder
<1>16. ASSUME NEW i \in Plain
       PROVE  /\ i \in PostId /\ i < n
              /\ Cardinality(Newer(i)) \in Nat
              /\ Cardinality(Newer(i)') = Cardinality(Newer(i)) + 1
  <2>1. i \in PostId
    BY DEF PostsInv, PublishingTypeOK, Plain
  <2>2. i < n
    BY <1>3 DEF PostsInv, PlainInOrder, n
  <2>3. Cardinality(Newer(i)') = Cardinality(Newer(i)) + 1
    BY <1>2, <1>3, <2>1, <2>2, NewerGrows DEF PostsInv
  <2> QED
    BY <2>1, <2>2, <2>3, NewerCount DEF PostsInv
<1>17. ListedNow'
  <2> SUFFICES ASSUME NEW i \in Plain', Cardinality(Newer(i)') < Keep
               PROVE  HoldsWithin(recent, i, Cardinality(Newer(i)'))
    BY <1>2 DEF ListedNow, HoldsWithin
  <2>1. CASE i \in Plain
    <3>1. HoldsWithin(recent, i, Cardinality(Newer(i)) + 1)
      BY <1>2, <1>16, <2>1 DEF PostsInv, ListedNext, recent
    <3> QED
      BY <1>16, <2>1, <3>1
  <2>2. CASE i = n /\ n \notin jostled
    <3>1. Newer(i)' = {}
      <4>1. \A k \in told : k \in PostId /\ k < n
        BY <1>3, <2>2 DEF PostsInv, PlainInOrder, PublishingTypeOK, n
      <4> QED
        BY <1>2, <1>3, <2>2, <4>1 DEF Newer, PostId
    <3>2. Cardinality(Newer(i)') = 0
      BY <3>1, FS_EmptySet
    <3>3. Len(recent) \in DOMAIN recent /\ Len(recent) - Len(recent) <= 0
      BY <1>3, LenProperties
    <3> QED
      BY <1>3, <2>2, <3>2, <3>3 DEF HoldsWithin
  <2> QED
    BY <1>14, <2>1, <2>2
<1>18. ListedNext'
  <2> SUFFICES ASSUME NEW v \in Poster \ {w}, posting[v].stage = "listed", NEW i \in Plain',
                      Cardinality(Newer(i)') + 1 < Keep
               PROVE  HoldsWithin(posting[v].recent, i, Cardinality(Newer(i)') + 1)
    BY <1>4, <1>5 DEF ListedNext, HoldsWithin
  <2>1. n \in jostled
    BY <1>7 DEF PostsInv, StageShape
  <2>2. i \in Plain
    BY <1>14, <2>1
  <2>3. Keep \in Nat
    BY PublishingAssumption
  <2>4. HoldsWithin(posting[v].recent, i, Cardinality(Newer(i)) + 1)
    BY <1>16, <2>2, <2>3 DEF PostsInv, ListedNext
  <2>5. PICK k \in DOMAIN posting[v].recent :
           posting[v].recent[k] = i /\ Len(posting[v].recent) - k <= Cardinality(Newer(i)) + 1
    BY <2>4 DEF HoldsWithin
  <2>6. Len(posting[v].recent) \in Nat /\ k \in Nat
    BY <1>1, LenProperties DEF Job
  <2>7. Len(posting[v].recent) - k <= Cardinality(Newer(i)') + 1
    BY <1>16, <2>2, <2>5, <2>6
  <2> QED
    BY <2>5, <2>7 DEF HoldsWithin
<1> QED
  BY <1>8, <1>9, <1>10, <1>11, <1>12, <1>13, <1>15, <1>17, <1>18 DEF PostsInv

LEMMA StutterInv ==
    ASSUME PostsInv, UNCHANGED publishingVars
    PROVE  PostsInv'
<1> USE DEF publishingVars
<1>1. PublishingTypeOK' /\ StageShape' /\ ToldPosted' /\ ContestedMarked' /\ PostsAccounted'
  BY DEF PostsInv, PublishingTypeOK, StageShape, ToldPosted, ContestedMarked, PostsAccounted
<1>2. JostledMarked' /\ PlainInOrder' /\ ListedNow' /\ ListedNext'
  BY DEF PostsInv, JostledMarked, PlainInOrder, ListedNow, ListedNext, Plain, Newer, HoldsWithin
<1> QED
  BY <1>1, <1>2 DEF PostsInv

LEMMA PostsStep == PostsInv /\ [PublishingNext]_publishingVars => PostsInv'
<1> SUFFICES ASSUME PostsInv, [PublishingNext]_publishingVars PROVE PostsInv'
  OBVIOUS
<1>1. CASE \E d \in Prediction : CreateDraft(d)
  BY <1>1, DraftInv
<1>2. CASE \E d \in Prediction, w \in Poster : CheckDraft(w, d)
  BY <1>2, CheckInv
<1>3. CASE \E w \in Poster : Send(w)
  BY <1>3, SendInv
<1>4. CASE \E w \in Poster : StoreRows(w)
  BY <1>4, StoreInv
<1>5. CASE \E w \in Poster : ListPost(w)
  BY <1>5, ListInv
<1>6. CASE \E w \in Poster : CommitPost(w)
  BY <1>6, CommitInv
<1>7. CASE \E w \in Poster : AbandonPost(w)
  BY <1>7, AbandonInv
<1>8. CASE UNCHANGED publishingVars
  BY <1>8, StutterInv
<1> QED
  BY <1>1, <1>2, <1>3, <1>4, <1>5, <1>6, <1>7, <1>8 DEF PublishingNext

LEMMA PostsInvCorrect == PublishingSpec => []PostsInv
BY PostsInit, PostsStep, PTL DEF PublishingSpec

-----------------------------------------------------------------------------
(* What is shown of the publication.                                       *)

(* All rows, posts and publications under way have their types.            *)
THEOREM PublishingTypeCorrect == PublishingSpec => []PublishingTypeOK
<1>1. PostsInv => PublishingTypeOK
  BY DEF PostsInv
<1> QED
  BY <1>1, PostsInvCorrect, PTL

(* Every post on X is the recorded one of its prediction with its event,   *)
(* unless its session is under way or was lost, or two publications of the *)
(* prediction overlapped.                                                  *)
THEOREM AccountedCorrect == PublishingSpec => []PostsAccounted
<1>1. PostsInv => PostsAccounted
  BY DEF PostsInv
<1> QED
  BY <1>1, PostsInvCorrect, PTL

(* However lists are read and written back, the persona remembers each of  *)
(* its latest Keep publications that overlapped with no other one.         *)
THEOREM RemembersCorrect == PublishingSpec => []PersonaRemembers
<1>1. PostsInv => PersonaRemembers
  BY DEF PostsInv, ListedNow, HoldsWithin, PersonaRemembers, Plain, Newer
<1> QED
  BY <1>1, PostsInvCorrect, PTL

(***************************************************************************)
(*                           Cards                                         *)
(***************************************************************************)
Partial(D, R) == UNION {[S -> R] : S \in SUBSET D}

Collection ==
    [stage : {"idle", "resolve", "store"}, provider : Provider \cup {"none"},
     page : SUBSET Version, todo : SUBSET Version, item : Version \cup {"none"},
     found : Id \cup {0}, wrote : Partial(Id, Card), linked : Partial(Key, Id)]

IdentityTypes ==
    /\ cards \in Partial(Id, Card) /\ mapped \in Partial(Key, Id)
    /\ ingest \in [Ingester -> Collection]
    /\ overlapped \subseteq Face /\ collections \in 0..MaxRuns

(* A row is one that provider p may give version v.                        *)
Fits(row, p, v) == /\ row.face = FaceOf[v]
                   /\ p \in Teller \cup {"futbin"} => row.side = SideOf[v]

(* An EA id is on a card that looks like its version.                      *)
RowSound(row) ==
    row.resource # "none" => row.face = FaceOf[row.resource] /\ row.side = SideOf[row.resource]

SameLook(r, s) == r.face = s.face /\ r.side = s.side

(* One card for a look that is wholly known, unless collections overlapped.*)
Unique(held) ==
    \A c, d \in DOMAIN held :
        SameLook(held[c], held[d]) /\ held[c].side # "unsaid" /\ held[c].face \notin overlapped
            => c = d

CardsSound ==
    /\ \A c \in DOMAIN cards : RowSound(cards[c])
    /\ \A k \in DOMAIN mapped : mapped[k] \in DOMAIN cards /\ Fits(cards[mapped[k]], k[1], k[2])
    /\ Unique(cards)

(* What a collection has written looks as it looked, and is on its page.   *)
WroteFine(w) ==
    \A c \in DOMAIN ingest[w].wrote :
        /\ RowSound(ingest[w].wrote[c])
        /\ \E v \in ingest[w].page : ingest[w].wrote[c].face = FaceOf[v]
        /\ c \in DOMAIN cards => SameLook(ingest[w].wrote[c], cards[c])

LinkedFine(w) ==
    \A k \in DOMAIN ingest[w].linked :
        /\ ingest[w].linked[k] \in DOMAIN SeenCards(w)
        /\ Fits(SeenCards(w)[ingest[w].linked[k]], k[1], k[2])

PageFine(w) ==
    /\ ingest[w].todo \subseteq ingest[w].page
    /\ ingest[w].stage # "idle" => ingest[w].provider \in Provider
    /\ ingest[w].stage = "store" => ingest[w].item \in ingest[w].page

(* The card found for an item fits it.                                     *)
FoundFine(w) ==
    ingest[w].stage = "store" /\ ingest[w].found # 0 =>
        /\ ingest[w].found \in DOMAIN SeenCards(w)
        /\ Fits(SeenCards(w)[ingest[w].found], ingest[w].provider, ingest[w].item)

LooksLike(row, v) == row.face = FaceOf[v] /\ row.side = SideOf[v]

(* Where none was found there is none that looks like it.                  *)
NothingAlike(w) ==
    /\ ingest[w].stage = "store" /\ ingest[w].found = 0 /\ ingest[w].provider \in Teller
    /\ FaceOf[ingest[w].item] \notin overlapped
    => \A c \in DOMAIN SeenCards(w) : ~LooksLike(SeenCards(w)[c], ingest[w].item)

Fine(w) ==
    /\ WroteFine(w) /\ LinkedFine(w) /\ PageFine(w) /\ FoundFine(w)
    /\ Unique(SeenCards(w)) /\ NothingAlike(w)

(* No row is written by two collections, and a face on two pages is known. *)
OneWriter ==
    \A w, u \in Ingester : w # u => DOMAIN ingest[w].wrote \cap DOMAIN ingest[u].wrote = {}

Noticed ==
    \A w, u \in Ingester : w # u =>
        \A a \in ingest[w].page, b \in ingest[u].page : FaceOf[a] = FaceOf[b] => FaceOf[a] \in overlapped

IdentityInv ==
    /\ IdentityTypes /\ CardsSound /\ OneWriter /\ Noticed
    /\ \A w \in Ingester : Fine(w)

-----------------------------------------------------------------------------
(* Partial functions.                                                      *)

LEMMA OverFacts ==
    ASSUME NEW f, NEW g
    PROVE  /\ DOMAIN Over(f, g) = DOMAIN f \cup DOMAIN g
           /\ \A x \in DOMAIN f : Over(f, g)[x] = f[x]
           /\ \A x \in DOMAIN g \ DOMAIN f : Over(f, g)[x] = g[x]
BY DEF Over

LEMMA PartialFacts ==
    ASSUME NEW D, NEW R, NEW f \in Partial(D, R)
    PROVE  /\ f = [x \in DOMAIN f |-> f[x]] /\ DOMAIN f \in SUBSET D
           /\ \A x \in DOMAIN f : f[x] \in R
<1>1. PICK S \in SUBSET D : f \in [S -> R]
  BY DEF Partial
<1> QED
  BY <1>1

LEMMA PartialIntro ==
    ASSUME NEW D, NEW R, NEW S \in SUBSET D, NEW f \in [S -> R]
    PROVE  f \in Partial(D, R)
BY DEF Partial

LEMMA OverType ==
    ASSUME NEW D, NEW R, NEW f \in Partial(D, R), NEW g \in Partial(D, R)
    PROVE  Over(f, g) \in Partial(D, R)
<1> DEFINE S == DOMAIN f \cup DOMAIN g
<1>1. /\ DOMAIN f \in SUBSET D /\ DOMAIN g \in SUBSET D
      /\ \A x \in DOMAIN f : f[x] \in R
      /\ \A x \in DOMAIN g : g[x] \in R
  BY PartialFacts
<1>2. Over(f, g) \in [S -> R]
  BY <1>1 DEF Over
<1>3. S \in SUBSET D
  BY <1>1
<1> HIDE DEF S
<1> QED
  BY <1>2, <1>3, PartialIntro

LEMMA EmptyOver ==
    ASSUME NEW D, NEW R, NEW g \in Partial(D, R)
    PROVE  << >> \in Partial(D, R) /\ DOMAIN << >> = {} /\ Over(<< >>, g) = g
<1>1. << >> \in [{} -> R] /\ DOMAIN << >> = {}
  OBVIOUS
<1>2. << >> \in Partial(D, R)
  BY <1>1, PartialIntro
<1>3. Over(<< >>, g) = [x \in DOMAIN g |-> g[x]]
  BY <1>1 DEF Over
<1> QED
  BY <1>1, <1>2, <1>3, PartialFacts

-----------------------------------------------------------------------------
(* What a collection sees.                                                 *)

LEMMA CollectionParts ==
    ASSUME IdentityTypes, NEW w \in Ingester
    PROVE  /\ ingest[w] \in Collection
           /\ ingest[w].stage \in {"idle", "resolve", "store"}
           /\ ingest[w].provider \in Provider \cup {"none"}
           /\ ingest[w].page \in SUBSET Version /\ ingest[w].todo \in SUBSET Version
           /\ ingest[w].item \in Version \cup {"none"} /\ ingest[w].found \in Id \cup {0}
           /\ ingest[w].wrote \in Partial(Id, Card) /\ ingest[w].linked \in Partial(Key, Id)
<1>1. ingest[w] \in Collection
  BY DEF IdentityTypes
<1> QED
  BY <1>1 DEF Collection

LEMMA SeenFacts ==
    ASSUME IdentityTypes, NEW w \in Ingester
    PROVE  /\ DOMAIN SeenCards(w) = DOMAIN ingest[w].wrote \cup DOMAIN cards
           /\ \A c \in DOMAIN ingest[w].wrote : SeenCards(w)[c] = ingest[w].wrote[c]
           /\ \A c \in DOMAIN cards \ DOMAIN ingest[w].wrote : SeenCards(w)[c] = cards[c]
           /\ DOMAIN SeenCards(w) \in SUBSET Id
           /\ \A c \in DOMAIN SeenCards(w) : SeenCards(w)[c] \in Card
           /\ SeenCards(w) \in Partial(Id, Card)
<1>1. ingest[w].wrote \in Partial(Id, Card) /\ cards \in Partial(Id, Card)
  BY CollectionParts DEF IdentityTypes
<1>2. SeenCards(w) \in Partial(Id, Card)
  BY <1>1, OverType DEF SeenCards
<1>3. /\ DOMAIN SeenCards(w) = DOMAIN ingest[w].wrote \cup DOMAIN cards
      /\ \A c \in DOMAIN ingest[w].wrote : SeenCards(w)[c] = ingest[w].wrote[c]
      /\ \A c \in DOMAIN cards \ DOMAIN ingest[w].wrote : SeenCards(w)[c] = cards[c]
  BY DEF SeenCards, Over
<1>4. DOMAIN SeenCards(w) \in SUBSET Id /\ \A c \in DOMAIN SeenCards(w) : SeenCards(w)[c] \in Card
  BY <1>2, PartialFacts
<1> QED
  BY <1>2, <1>3, <1>4

(* A card seen looks as it does when committed, and carries the EA id of a *)
(* version that it looks like.                                             *)
LEMMA SeenLooks ==
    ASSUME IdentityInv, NEW w \in Ingester
    PROVE  /\ \A c \in DOMAIN cards : c \in DOMAIN SeenCards(w) /\ SameLook(SeenCards(w)[c], cards[c])
           /\ \A c \in DOMAIN SeenCards(w) : RowSound(SeenCards(w)[c])
<1>1. WroteFine(w) /\ IdentityTypes /\ CardsSound
  BY DEF IdentityInv, Fine
<1>2. ASSUME NEW c \in DOMAIN cards
      PROVE  c \in DOMAIN SeenCards(w) /\ SameLook(SeenCards(w)[c], cards[c])
  BY <1>1, SeenFacts DEF WroteFine, SameLook
<1>3. ASSUME NEW c \in DOMAIN SeenCards(w)
      PROVE  RowSound(SeenCards(w)[c])
  <2>1. CASE c \in DOMAIN ingest[w].wrote
    BY <1>1, <2>1, SeenFacts DEF WroteFine
  <2>2. CASE c \notin DOMAIN ingest[w].wrote
    BY <1>1, <1>3, <2>2, SeenFacts DEF CardsSound
  <2> QED
    BY <2>1, <2>2
<1> QED
  BY <1>2, <1>3

LEMMA LookFits ==
    ASSUME NEW r, NEW s, SameLook(r, s), NEW p, NEW v, Fits(r, p, v)
    PROVE  Fits(s, p, v)
BY DEF SameLook, Fits

(* Every mapping seen leads to a card that fits it.                        *)
LEMMA SeenMapsFit ==
    ASSUME IdentityInv, NEW w \in Ingester
    PROVE  /\ SeenMaps(w) \in Partial(Key, Id)
           /\ \A k \in DOMAIN SeenMaps(w) :
                 /\ SeenMaps(w)[k] \in DOMAIN SeenCards(w) /\ SeenMaps(w)[k] \in Id
                 /\ Fits(SeenCards(w)[SeenMaps(w)[k]], k[1], k[2])
<1>1. IdentityTypes /\ CardsSound /\ LinkedFine(w)
  BY DEF IdentityInv, Fine
<1>2. ingest[w].linked \in Partial(Key, Id) /\ mapped \in Partial(Key, Id)
  BY <1>1, CollectionParts DEF IdentityTypes
<1>3. SeenMaps(w) \in Partial(Key, Id)
  BY <1>2, OverType DEF SeenMaps
<1>4. ASSUME NEW k \in DOMAIN SeenMaps(w)
      PROVE  /\ SeenMaps(w)[k] \in DOMAIN SeenCards(w)
             /\ Fits(SeenCards(w)[SeenMaps(w)[k]], k[1], k[2])
  <2>1. CASE k \in DOMAIN ingest[w].linked
    <3>1. SeenMaps(w)[k] = ingest[w].linked[k]
      BY <2>1, OverFacts DEF SeenMaps
    <3> QED
      BY <1>1, <2>1, <3>1 DEF LinkedFine
  <2>2. CASE k \notin DOMAIN ingest[w].linked
    <3>1. k \in DOMAIN mapped /\ SeenMaps(w)[k] = mapped[k]
      BY <1>4, <2>2 DEF SeenMaps, Over
    <3>2. PICK c \in DOMAIN cards : c = mapped[k]
      BY <1>1, <3>1 DEF CardsSound
    <3>3. Fits(cards[c], k[1], k[2])
      BY <1>1, <3>1, <3>2 DEF CardsSound
    <3>4. c \in DOMAIN SeenCards(w) /\ SameLook(cards[c], SeenCards(w)[c])
      BY SeenLooks DEF SameLook
    <3>5. Fits(SeenCards(w)[c], k[1], k[2])
      BY <3>3, <3>4, LookFits
    <3> QED
      BY <3>1, <3>2, <3>4, <3>5
  <2> QED
    BY <2>1, <2>2
<1>5. \A k \in DOMAIN SeenMaps(w) : SeenMaps(w)[k] \in Id
  BY <1>3, PartialFacts
<1> QED
  BY <1>3, <1>4, <1>5

-----------------------------------------------------------------------------
(* Listings.                                                               *)

LEMMA ListingFacts ==
    ASSUME NEW p \in Provider, NEW v \in Version
    PROVE  /\ Listing(p, v) \in Card
           /\ Listing(p, v).face = FaceOf[v]
           /\ p \in Teller => Listing(p, v).side = SideOf[v] /\ Listing(p, v).side # "unsaid"
           /\ p \notin Teller => Listing(p, v).side = "unsaid"
           /\ Listing(p, v).resource # "none" => Listing(p, v).resource = v /\ p \in Teller
           /\ "futbin" # p /\ (p \in Official => p \in Teller)
<1>1. FaceOf[v] \in Face /\ SideOf[v] \in Side /\ "unsaid" \notin Side /\ "futbin" # p
  BY IdentityAssumption
<1>2. p \in Official => p \in Teller
  BY IdentityAssumption DEF Teller
<1>3. p \in Teller <=> p \notin Terse \cup Stub
  BY DEF Teller
<1> QED
  BY <1>1, <1>2, <1>3 DEF Listing, Card

(* The keys that come with an item fit what fits the item.                 *)
LEMMA KeysFit ==
    ASSUME NEW p \in Provider, NEW v \in Version, NEW row, Fits(row, p, v),
           NEW k \in KeysOf(p, v)
    PROVE  k \in Key /\ Fits(row, k[1], k[2])
<1>1. CASE k = <<p, v>>
  BY <1>1 DEF Key, Source
<1>2. CASE p \in Official /\ k = <<"futbin", v>>
  BY <1>2, ListingFacts DEF Key, Source, Fits
<1> QED
  BY <1>1, <1>2 DEF KeysOf

(* A card that is resolved fits the item, and where none is, a provider    *)
(* that says where the player plays sees none that looks like it.          *)
LEMMA ResolvedFits ==
    ASSUME IdentityInv, NEW w \in Ingester, NEW p \in Provider, NEW v \in Version,
           NEW f, f = IF Canonical(w, p, v) # 0 THEN Canonical(w, p, v) ELSE Resolved(w, p, v)
    PROVE  /\ f \in Id \cup {0}
           /\ f # 0 => f \in DOMAIN SeenCards(w) /\ Fits(SeenCards(w)[f], p, v)
           /\ f = 0 /\ p \in Teller /\ FaceOf[v] \notin overlapped =>
                 \A c \in DOMAIN SeenCards(w) : ~LooksLike(SeenCards(w)[c], v)
<1> DEFINE l == Listing(p, v)
           seen == SeenCards(w)
           same == {c \in DOMAIN seen : l.resource # "none" /\ seen[c].resource = l.resource}
<1>a. IdentityTypes /\ DOMAIN seen \in SUBSET Id /\ 0 \notin Id
  <2>1. IdentityTypes
    BY DEF IdentityInv
  <2>2. 0 \notin Id
    BY IdentityAssumption DEF Id
  <2> QED
    BY <2>1, <2>2, SeenFacts
<1>1. CASE Canonical(w, p, v) # 0
  <2>1. <<"futbin", v>> \in DOMAIN SeenMaps(w) /\ f = SeenMaps(w)[<<"futbin", v>>]
    BY <1>1 DEF Canonical
  <2>2. f \in DOMAIN seen /\ f \in Id /\ Fits(seen[f], "futbin", v)
    BY <2>1, SeenMapsFit
  <2> QED
    BY <1>a, <2>2 DEF Fits
<1>2. CASE Canonical(w, p, v) = 0 /\ <<p, v>> \in DOMAIN SeenMaps(w)
  <2>1. f = SeenMaps(w)[<<p, v>>]
    BY <1>2 DEF Resolved
  <2>2. f \in DOMAIN seen /\ f \in Id /\ Fits(seen[f], p, v)
    BY <1>2, <2>1, SeenMapsFit
  <2> QED
    BY <1>a, <2>2
<1>3. CASE Canonical(w, p, v) = 0 /\ <<p, v>> \notin DOMAIN SeenMaps(w)
  <2>1. CASE p \in Stub
    BY <1>3, <2>1 DEF Resolved, Teller
  <2>2. CASE p \notin Stub /\ same # {}
    <3>1. f = CHOOSE c \in same : TRUE
      BY <1>3, <2>2 DEF Resolved
    <3>2. f \in same
      BY <2>2, <3>1
    <3>3. seen[f].resource = v /\ v # "none"
      BY <3>2, ListingFacts
    <3>4. RowSound(seen[f])
      BY <3>2, SeenLooks
    <3>5. Fits(seen[f], p, v)
      BY <3>3, <3>4 DEF RowSound, Fits
    <3> QED
      BY <1>a, <3>2, <3>5
  <2>3. CASE p \notin Stub /\ same = {} /\ Cardinality(Alike(w, l)) = 1
    <3>1. f = CHOOSE c \in Alike(w, l) : TRUE
      BY <1>3, <2>3 DEF Resolved
    <3>2. Alike(w, l) # {}
      BY <2>3, FS_EmptySet
    <3>3. f \in Alike(w, l)
      BY <3>1, <3>2
    <3>4. f \in DOMAIN seen /\ seen[f].face = l.face /\ (l.side # "unsaid" => seen[f].side = l.side)
      BY <3>3 DEF Alike
    <3>5. Fits(seen[f], p, v)
      BY <3>4, ListingFacts DEF Fits
    <3> QED
      BY <1>a, <3>4, <3>5
  <2>4. CASE p \notin Stub /\ same = {} /\ Cardinality(Alike(w, l)) # 1
    <3>1. f = 0
      BY <1>3, <2>4 DEF Resolved
    <3>2. ASSUME p \in Teller, FaceOf[v] \notin overlapped,
                 NEW c \in DOMAIN seen, LooksLike(seen[c], v)
          PROVE  FALSE
      <4>1. c \in Alike(w, l)
        BY <3>2, ListingFacts DEF Alike, LooksLike
      <4>2. ASSUME NEW d \in Alike(w, l) PROVE d = c
        <5>1. d \in DOMAIN seen /\ SameLook(seen[d], seen[c])
          BY <3>2, ListingFacts DEF Alike, SameLook, LooksLike
        <5>2. seen[d].side # "unsaid" /\ seen[d].face \notin overlapped
          BY <3>2, <5>1, ListingFacts DEF SameLook, LooksLike
        <5>3. Unique(SeenCards(w))
          BY DEF IdentityInv, Fine
        <5> QED
          BY <5>1, <5>2, <5>3 DEF Unique
      <4>3. Alike(w, l) = {c}
        BY <4>1, <4>2
      <4> QED
        BY <2>4, <4>3, FS_Singleton
    <3> QED
      BY <3>1, <3>2
  <2> QED
    BY <2>1, <2>2, <2>3, <2>4
<1> QED
  BY <1>1, <1>2, <1>3

-----------------------------------------------------------------------------
(* Steps.                                                                  *)

LEMMA IdentityStarts == IdentityInit => IdentityInv
<1> SUFFICES ASSUME IdentityInit PROVE IdentityInv
  OBVIOUS
<1>1. /\ cards = << >> /\ mapped = << >> /\ overlapped = {} /\ collections = 0
      /\ ingest = [w \in Ingester |-> Idle]
  BY DEF IdentityInit
<1>2. << >> \in Partial(Id, Card) /\ << >> \in Partial(Key, Id) /\ DOMAIN << >> = {}
  <2>1. << >> \in [{} -> Card] /\ << >> \in [{} -> Id] /\ DOMAIN << >> = {}
    OBVIOUS
  <2> QED
    BY <2>1, PartialIntro
<1>3. Idle \in Collection
  BY <1>2 DEF Idle, Collection
<1>4. IdentityTypes
  BY <1>1, <1>2, <1>3, IdentityAssumption DEF IdentityTypes
<1>5. CardsSound
  BY <1>1, <1>2 DEF CardsSound, Unique
<1>6. \A w \in Ingester : ingest[w].wrote = << >> /\ ingest[w].page = {}
  BY <1>1 DEF Idle
<1>7. OneWriter /\ Noticed
  BY <1>2, <1>6 DEF OneWriter, Noticed
<1>8. ASSUME NEW w \in Ingester PROVE Fine(w)
  <2>1. ingest[w] = Idle
    BY <1>1
  <2>2. /\ ingest[w].wrote = << >> /\ ingest[w].linked = << >> /\ ingest[w].page = {}
        /\ ingest[w].todo = {} /\ ingest[w].stage = "idle"
    BY <2>1 DEF Idle
  <2>3. SeenCards(w) = cards
    BY <1>1, <1>2, <2>2, EmptyOver DEF SeenCards
  <2> QED
    BY <1>2, <1>5, <2>2, <2>3
    DEF Fine, WroteFine, LinkedFine, PageFine, FoundFine, NothingAlike, CardsSound
<1> QED
  BY <1>4, <1>5, <1>7, <1>8 DEF IdentityInv

(* A collection that takes no part in a step is as fine as before.         *)
LEMMA StaysFine ==
    ASSUME NEW u \in Ingester, Fine(u), ingest'[u] = ingest[u],
           cards' = cards, overlapped \subseteq overlapped'
    PROVE  Fine(u)'
<1>1. SeenCards(u)' = SeenCards(u)
  BY DEF SeenCards
<1>2. WroteFine(u)' /\ PageFine(u)'
  BY DEF Fine, WroteFine, PageFine
<1>3. LinkedFine(u)' /\ FoundFine(u)'
  BY <1>1 DEF Fine, LinkedFine, FoundFine
<1>4. Unique(SeenCards(u))'
  BY <1>1 DEF Fine, Unique
<1>5. NothingAlike(u)'
  BY <1>1 DEF Fine, NothingAlike
<1> QED
  BY <1>2, <1>3, <1>4, <1>5 DEF Fine

LEMMA StaysSound ==
    ASSUME CardsSound, cards' = cards, mapped' = mapped, overlapped \subseteq overlapped'
    PROVE  CardsSound'
BY DEF CardsSound, Unique

(* A collection that has written nothing yet sees the committed cards.     *)
LEMMA FreshIsFine ==
    ASSUME NEW w \in Ingester, ingest'[w].wrote = << >>, ingest'[w].linked = << >>,
           ingest'[w].stage \in {"idle", "resolve"}, ingest'[w].todo \subseteq ingest'[w].page,
           ingest'[w].stage = "resolve" => ingest'[w].provider \in Provider,
           cards' \in Partial(Id, Card), CardsSound'
    PROVE  Fine(w)'
<1>1. DOMAIN << >> = {} /\ Over(<< >>, cards') = cards'
  BY EmptyOver
<1>2. SeenCards(w)' = cards'
  BY <1>1 DEF SeenCards
<1>3. Unique(SeenCards(w))'
  BY <1>2 DEF CardsSound, Unique
<1> QED
  BY <1>1, <1>3 DEF Fine, WroteFine, LinkedFine, PageFine, FoundFine, NothingAlike

LEMMA BeginIngestStep ==
    ASSUME IdentityInv, NEW w \in Ingester, NEW p \in Provider, NEW page \in Page,
           BeginIngest(w, p, page)
    PROVE  IdentityInv'
<1> DEFINE j == [Idle EXCEPT !.stage = "resolve", !.provider = p, !.page = page, !.todo = page]
<1>1. /\ IdentityTypes /\ CardsSound /\ OneWriter /\ Noticed
      /\ \A u \in Ingester : Fine(u)
  BY DEF IdentityInv
<1>2. /\ ingest' = [ingest EXCEPT ![w] = j] /\ cards' = cards /\ mapped' = mapped
      /\ collections < MaxRuns /\ collections' = collections + 1
  BY DEF BeginIngest
<1>3. overlapped' = overlapped \cup ({FaceOf[v] : v \in page}
                                      \cap {FaceOf[v] : v \in UNION {ingest[u].page : u \in Ingester}})
  BY DEF BeginIngest
<1>4. page \in SUBSET Version
  BY IdentityAssumption
<1>5. /\ j.stage = "resolve" /\ j.provider = p /\ j.page = page /\ j.todo = page
      /\ j.wrote = << >> /\ j.linked = << >>
  BY DEF Idle
<1>6. << >> \in Partial(Id, Card) /\ << >> \in Partial(Key, Id) /\ DOMAIN << >> = {}
  <2>1. << >> \in [{} -> Card] /\ << >> \in [{} -> Id] /\ DOMAIN << >> = {}
    OBVIOUS
  <2> QED
    BY <2>1, PartialIntro
<1>7. j \in Collection
  BY <1>4, <1>6 DEF Idle, Collection
<1> HIDE DEF j
<1>8. ingest \in [Ingester -> Collection]
  BY <1>1 DEF IdentityTypes
<1>9. /\ ingest'[w] = j /\ \A u \in Ingester \ {w} : ingest'[u] = ingest[u]
      /\ ingest' \in [Ingester -> Collection]
  BY <1>2, <1>7, <1>8
<1>10. IdentityTypes'
  <2>1. overlapped' \subseteq Face
    BY <1>1, <1>3, <1>4, IdentityAssumption DEF IdentityTypes
  <2>2. collections' \in 0..MaxRuns
    BY <1>1, <1>2, IdentityAssumption DEF IdentityTypes
  <2> QED
    BY <1>1, <1>2, <1>9, <2>1, <2>2 DEF IdentityTypes
<1>11. overlapped \subseteq overlapped'
  BY <1>3
<1>12. CardsSound'
  BY <1>1, <1>2, <1>11, StaysSound
<1>13. Fine(w)'
  BY <1>5, <1>9, <1>10, <1>12, FreshIsFine DEF IdentityTypes
<1>14. \A u \in Ingester : Fine(u)'
  BY <1>1, <1>2, <1>9, <1>11, <1>13, StaysFine
<1>15. OneWriter'
  BY <1>1, <1>5, <1>6, <1>9 DEF OneWriter
<1>16. ASSUME NEW x \in Ingester, NEW u \in Ingester, x # u,
              NEW a \in ingest'[x].page, NEW b \in ingest'[u].page, FaceOf[a] = FaceOf[b]
       PROVE  FaceOf[a] \in overlapped'
  <2>1. CASE x # w /\ u # w
    BY <1>1, <1>9, <1>11, <1>16, <2>1 DEF Noticed
  <2>2. CASE x = w
    <3>1. a \in page /\ b \in ingest[u].page
      BY <1>5, <1>9, <1>16, <2>2
    <3> QED
      BY <1>3, <1>16, <3>1
  <2>3. CASE u = w
    <3>1. b \in page /\ a \in ingest[x].page
      BY <1>5, <1>9, <1>16, <2>3
    <3> QED
      BY <1>3, <1>16, <3>1
  <2> QED
    BY <2>1, <2>2, <2>3
<1>17. Noticed'
  BY <1>16 DEF Noticed
<1> QED
  BY <1>10, <1>12, <1>14, <1>15, <1>17 DEF IdentityInv

(* What every step of one collection that commits nothing keeps, once its  *)
(* own part is shown.                                                      *)
LEMMA OwnStep ==
    ASSUME IdentityInv, NEW w \in Ingester, NEW j \in Collection,
           ingest' = [ingest EXCEPT ![w] = j], j.page \subseteq ingest[w].page,
           \A u \in Ingester \ {w} : DOMAIN j.wrote \cap DOMAIN ingest[u].wrote = {},
           UNCHANGED <<cards, mapped, overlapped, collections>>, Fine(w)'
    PROVE  IdentityInv'
<1>1. /\ IdentityTypes /\ CardsSound /\ OneWriter /\ Noticed
      /\ \A u \in Ingester : Fine(u)
  BY DEF IdentityInv
<1>2. ingest \in [Ingester -> Collection]
  BY <1>1 DEF IdentityTypes
<1>3. /\ ingest'[w] = j /\ \A u \in Ingester \ {w} : ingest'[u] = ingest[u]
      /\ ingest' \in [Ingester -> Collection]
  BY <1>2
<1>4. IdentityTypes'
  BY <1>1, <1>3 DEF IdentityTypes
<1>5. CardsSound'
  BY <1>1, StaysSound
<1>6. \A u \in Ingester : Fine(u)'
  BY <1>1, <1>3, StaysFine
<1>7. OneWriter'
  BY <1>1, <1>3 DEF OneWriter
<1>8. \A u \in Ingester : ingest'[u].page \subseteq ingest[u].page
  BY <1>3
<1>9. Noticed'
  BY <1>1, <1>8 DEF Noticed
<1> QED
  BY <1>4, <1>5, <1>6, <1>7, <1>9 DEF IdentityInv

LEMMA ResolveStep ==
    ASSUME IdentityInv, NEW w \in Ingester, NEW v \in Version, Resolve(w, v)
    PROVE  IdentityInv'
<1> DEFINE p == ingest[w].provider
<1>1. PICK f : f = IF Canonical(w, p, v) # 0 THEN Canonical(w, p, v) ELSE Resolved(w, p, v)
  OBVIOUS
<1>2. PICK j : j = [ingest[w] EXCEPT !.stage = "store", !.item = v, !.found = f]
  OBVIOUS
<1>3. IdentityTypes /\ Fine(w) /\ OneWriter
  BY DEF IdentityInv
<1>4. /\ ingest[w].stage = "resolve" /\ v \in ingest[w].todo
      /\ UNCHANGED <<cards, mapped, overlapped, collections>>
  BY DEF Resolve
<1>5. p \in Provider /\ v \in ingest[w].page
  BY <1>3, <1>4 DEF Fine, PageFine
<1>6. ingest' = [ingest EXCEPT ![w] = j]
  BY <1>1, <1>2 DEF Resolve
<1>7. /\ f \in Id \cup {0}
      /\ f # 0 => f \in DOMAIN SeenCards(w) /\ Fits(SeenCards(w)[f], p, v)
      /\ f = 0 /\ p \in Teller /\ FaceOf[v] \notin overlapped =>
            \A c \in DOMAIN SeenCards(w) : ~LooksLike(SeenCards(w)[c], v)
  BY <1>1, <1>5, ResolvedFits
<1>8. ingest[w] \in Collection
  BY <1>3, CollectionParts
<1>9. j \in Collection
  BY <1>2, <1>7, <1>8 DEF Collection
<1>10. /\ j.stage = "store" /\ j.item = v /\ j.found = f /\ j.provider = p
       /\ j.page = ingest[w].page /\ j.todo = ingest[w].todo
       /\ j.wrote = ingest[w].wrote /\ j.linked = ingest[w].linked
  BY <1>2, <1>8 DEF Collection
<1>11. ingest'[w] = j
  BY <1>3, <1>6 DEF IdentityTypes
<1>12. SeenCards(w)' = SeenCards(w)
  BY <1>4, <1>10, <1>11 DEF SeenCards
<1>13. WroteFine(w)' /\ LinkedFine(w)' /\ Unique(SeenCards(w))'
  <2>1. WroteFine(w)'
    BY <1>3, <1>4, <1>10, <1>11 DEF Fine, WroteFine
  <2>2. LinkedFine(w)'
    BY <1>3, <1>10, <1>11, <1>12 DEF Fine, LinkedFine
  <2>3. Unique(SeenCards(w))'
    BY <1>3, <1>4, <1>12 DEF Fine, Unique
  <2> QED
    BY <2>1, <2>2, <2>3
<1>14. PageFine(w)'
  BY <1>3, <1>5, <1>10, <1>11 DEF Fine, PageFine
<1>15. FoundFine(w)'
  BY <1>7, <1>10, <1>11, <1>12 DEF FoundFine
<1>16. NothingAlike(w)'
  BY <1>4, <1>7, <1>10, <1>11, <1>12 DEF NothingAlike
<1>17. Fine(w)'
  BY <1>13, <1>14, <1>15, <1>16 DEF Fine
<1>18. \A u \in Ingester \ {w} : DOMAIN j.wrote \cap DOMAIN ingest[u].wrote = {}
  BY <1>3, <1>10 DEF OneWriter
<1> QED
  BY <1>4, <1>6, <1>9, <1>10, <1>17, <1>18, OwnStep

LEMMA SkipItemStep ==
    ASSUME IdentityInv, NEW w \in Ingester, SkipItem(w)
    PROVE  IdentityInv'
<1>1. PICK j : j = [ingest[w] EXCEPT !.stage = "resolve", !.todo = ingest[w].todo \ {ingest[w].item},
                                     !.item = "none", !.found = 0]
  OBVIOUS
<1>2. IdentityTypes /\ Fine(w) /\ OneWriter
  BY DEF IdentityInv
<1>3. ingest[w].stage = "store" /\ UNCHANGED <<cards, mapped, overlapped, collections>>
  BY DEF SkipItem
<1>4. ingest' = [ingest EXCEPT ![w] = j]
  BY <1>1 DEF SkipItem
<1>5. ingest[w] \in Collection
  BY <1>2, CollectionParts
<1>6. j \in Collection
  BY <1>1, <1>5 DEF Collection
<1>7. /\ j.stage = "resolve" /\ j.provider = ingest[w].provider
      /\ j.page = ingest[w].page /\ j.todo \subseteq ingest[w].todo
      /\ j.wrote = ingest[w].wrote /\ j.linked = ingest[w].linked
  BY <1>1, <1>5 DEF Collection
<1>8. ingest'[w] = j
  BY <1>2, <1>4 DEF IdentityTypes
<1>9. SeenCards(w)' = SeenCards(w)
  BY <1>3, <1>7, <1>8 DEF SeenCards
<1>10. WroteFine(w)'
  BY <1>2, <1>3, <1>7, <1>8 DEF Fine, WroteFine
<1>11. LinkedFine(w)'
  BY <1>2, <1>7, <1>8, <1>9 DEF Fine, LinkedFine
<1>12. Unique(SeenCards(w))'
  BY <1>2, <1>3, <1>9 DEF Fine, Unique
<1>13. PageFine(w)' /\ FoundFine(w)' /\ NothingAlike(w)'
  BY <1>2, <1>3, <1>7, <1>8 DEF Fine, PageFine, FoundFine, NothingAlike
<1>14. Fine(w)'
  BY <1>10, <1>11, <1>12, <1>13 DEF Fine
<1>15. \A u \in Ingester \ {w} : DOMAIN j.wrote \cap DOMAIN ingest[u].wrote = {}
  BY <1>2, <1>7 DEF OneWriter
<1> QED
  BY <1>3, <1>4, <1>6, <1>7, <1>14, <1>15, OwnStep

LEMMA FailIngestStep ==
    ASSUME IdentityInv, NEW w \in Ingester, FailIngest(w)
    PROVE  IdentityInv'
<1>1. IdentityTypes /\ CardsSound
  BY DEF IdentityInv
<1>2. ingest' = [ingest EXCEPT ![w] = Idle] /\ UNCHANGED <<cards, mapped, overlapped, collections>>
  BY DEF FailIngest
<1>3. << >> \in Partial(Id, Card) /\ << >> \in Partial(Key, Id) /\ DOMAIN << >> = {}
  <2>1. << >> \in [{} -> Card] /\ << >> \in [{} -> Id] /\ DOMAIN << >> = {}
    OBVIOUS
  <2> QED
    BY <2>1, PartialIntro
<1>4. Idle \in Collection
  BY <1>3 DEF Idle, Collection
<1>5. ingest'[w] = Idle
  BY <1>1, <1>2 DEF IdentityTypes
<1>6. /\ Idle.stage = "idle" /\ Idle.page = {} /\ Idle.todo = {}
      /\ Idle.wrote = << >> /\ Idle.linked = << >>
  BY DEF Idle
<1>7. CardsSound' /\ cards' \in Partial(Id, Card)
  BY <1>1, <1>2, StaysSound DEF IdentityTypes
<1>8. Fine(w)'
  BY <1>5, <1>6, <1>7, FreshIsFine
<1> QED
  BY <1>2, <1>3, <1>4, <1>6, <1>8, OwnStep

(* What an item makes of the row of its card: sound, and of the same look. *)
LEMMA RowMade ==
    ASSUME IdentityInv, NEW w \in Ingester, NEW p \in Provider, NEW v \in Version,
           NEW c \in DOMAIN SeenCards(w), Fits(SeenCards(w)[c], p, v),
           NEW row, row = Refreshed(SeenCards(w)[c], Listing(p, v))
    PROVE  row \in Card /\ RowSound(row) /\ SameLook(row, SeenCards(w)[c]) /\ Fits(row, p, v)
<1> DEFINE old == SeenCards(w)[c]
<1>1. IdentityTypes
  BY DEF IdentityInv
<1>2. old \in Card /\ RowSound(old) /\ Fits(old, p, v)
  BY <1>1, SeenFacts, SeenLooks
<1>3. old.face \in Face /\ old.side \in Side \cup {"unsaid"} /\ old.resource \in Version \cup {"none"}
  BY <1>2 DEF Card
<1> HIDE DEF old
<1>4. PICK l : l = Listing(p, v)
  OBVIOUS
<1>5. /\ l.face = FaceOf[v] /\ (p \in Teller => l.side = SideOf[v] /\ l.side # "unsaid")
      /\ (p \notin Teller => l.side = "unsaid")
      /\ (l.resource # "none" => l.resource = v /\ p \in Teller)
      /\ l.side \in Side \cup {"unsaid"} /\ l.resource \in Version \cup {"none"}
  BY <1>4, ListingFacts DEF Card
<1>6. /\ row.face = l.face
      /\ row.side = (IF l.side = "unsaid" THEN old.side ELSE l.side)
      /\ row.resource = (IF l.resource = "none" THEN old.resource ELSE l.resource)
      /\ row = [face |-> row.face, side |-> row.side, resource |-> row.resource]
  BY <1>4 DEF Refreshed, old
<1>7. SameLook(row, old)
  BY <1>2, <1>5, <1>6 DEF SameLook, Fits
<1>8. RowSound(row)
  BY <1>2, <1>5, <1>6, <1>7 DEF RowSound, SameLook
<1>9. row \in Card
  <2>1. row.face \in Face
    BY <1>2, <1>3, <1>7 DEF SameLook
  <2>2. row.side \in Side \cup {"unsaid"} /\ row.resource \in Version \cup {"none"}
    BY <1>3, <1>5, <1>6
  <2> QED
    BY <1>6, <2>1, <2>2 DEF Card
<1>10. Fits(row, p, v)
  BY <1>2, <1>7, LookFits DEF SameLook
<1> QED
  BY <1>7, <1>8, <1>9, <1>10 DEF old

(* A listing of no card found: a row of its own.                           *)
LEMMA RowBorn ==
    ASSUME NEW p \in Provider, NEW v \in Version
    PROVE  /\ Listing(p, v) \in Card /\ RowSound(Listing(p, v)) /\ Fits(Listing(p, v), p, v)
           /\ Listing(p, v).side # "unsaid" => p \in Teller /\ LooksLike(Listing(p, v), v)
BY ListingFacts DEF RowSound, Fits, LooksLike

LEMMA StoreStep ==
    ASSUME IdentityInv, NEW w \in Ingester, Store(w)
    PROVE  IdentityInv'
<1> DEFINE p == ingest[w].provider
           v == ingest[w].item
           found == ingest[w].found
           l == Listing(p, v)
           keys == {k \in KeysOf(p, v) : k \notin DOMAIN SeenMaps(w)}
           keeps(c) == found # 0 /\ (p \in Stub \/ Canonical(w, p, v) = c)
           rowOf(c) == IF found = 0 THEN l ELSE Refreshed(SeenCards(w)[c], l)
<1>0. ingest[w].stage = "store" /\ UNCHANGED <<cards, mapped, overlapped, collections>>
  BY DEF Store
<1>s. \E c \in IF found = 0 THEN FreeId ELSE {found} :
         /\ keeps(c) \/ (~RowHeld(w, c) /\ ~ResourceTaken(w, c, rowOf(c)))
         /\ ingest' = [ingest EXCEPT
                        ![w].stage = "resolve", ![w].item = "none", ![w].found = 0,
                        ![w].todo = @ \ {v},
                        ![w].wrote = IF keeps(c) THEN @ ELSE Over([x \in {c} |-> rowOf(c)], @),
                        ![w].linked = Over([k \in keys |-> c], @)]
  BY DEF Store
<1>1. PICK c \in IF found = 0 THEN FreeId ELSE {found} :
         /\ keeps(c) \/ (~RowHeld(w, c) /\ ~ResourceTaken(w, c, rowOf(c)))
         /\ ingest' = [ingest EXCEPT
                        ![w].stage = "resolve", ![w].item = "none", ![w].found = 0,
                        ![w].todo = @ \ {v},
                        ![w].wrote = IF keeps(c) THEN @ ELSE Over([x \in {c} |-> rowOf(c)], @),
                        ![w].linked = Over([k \in keys |-> c], @)]
  BY <1>s
<1> DEFINE kept == keeps(c)
           row == rowOf(c)
           W == IF kept THEN ingest[w].wrote ELSE Over([x \in {c} |-> row], ingest[w].wrote)
           L == Over([k \in keys |-> c], ingest[w].linked)
           j == [ingest[w] EXCEPT !.stage = "resolve", !.item = "none", !.found = 0,
                                  !.todo = ingest[w].todo \ {v}, !.wrote = W, !.linked = L]
<1>2. ingest' = [ingest EXCEPT ![w] = j]
  BY <1>1
<1>3. /\ (kept <=> found # 0 /\ (p \in Stub \/ Canonical(w, p, v) = c))
      /\ row = (IF found = 0 THEN l ELSE Refreshed(SeenCards(w)[c], l))
      /\ kept \/ ~RowHeld(w, c)
      /\ c \in (IF found = 0 THEN FreeId ELSE {found})
      /\ found = ingest[w].found /\ p = ingest[w].provider /\ v = ingest[w].item
  BY <1>1
<1>4. /\ W = IF kept THEN ingest[w].wrote ELSE Over([x \in {c} |-> row], ingest[w].wrote)
      /\ L = Over([k \in keys |-> c], ingest[w].linked)
      /\ l = Listing(p, v) /\ keys = {k \in KeysOf(p, v) : k \notin DOMAIN SeenMaps(w)}
  OBVIOUS
<1>5. j = [ingest[w] EXCEPT !.stage = "resolve", !.item = "none", !.found = 0,
                            !.todo = ingest[w].todo \ {v}, !.wrote = W, !.linked = L]
  OBVIOUS
<1> HIDE DEF p, v, found, l, keys, keeps, rowOf, kept, row, W, L, j
<1>7. IdentityTypes /\ Fine(w) /\ OneWriter
  BY DEF IdentityInv
<1>8. /\ ingest[w] \in Collection /\ ingest[w].wrote \in Partial(Id, Card)
      /\ ingest[w].linked \in Partial(Key, Id) /\ ingest[w].page \in SUBSET Version
      /\ ingest[w].found \in Id \cup {0}
  BY <1>7, CollectionParts
<1>9. p \in Provider /\ v \in ingest[w].page /\ v \in Version
  BY <1>3, <1>4, <1>0, <1>7, <1>8 DEF Fine, PageFine
<1>10. found # 0 => c = found /\ c \in DOMAIN SeenCards(w) /\ Fits(SeenCards(w)[c], p, v) /\ c \in Id
  BY <1>3, <1>4, <1>0, <1>7, <1>8 DEF Fine, FoundFine
<1>11. found = 0 => c \in Id /\ c \notin DOMAIN SeenCards(w) /\ ~kept
  <2>1. SUFFICES ASSUME found = 0 PROVE c \in Id /\ c \notin DOMAIN SeenCards(w)
    BY <1>3
  <2>2. c \in Id /\ c \notin DOMAIN cards /\ c \notin DOMAIN ingest[w].wrote
    BY <1>3, <2>1 DEF FreeId
  <2> QED
    BY <1>7, <2>2, SeenFacts
<1>12. /\ row \in Card /\ RowSound(row) /\ Fits(row, p, v)
       /\ found # 0 => SameLook(row, SeenCards(w)[c])
  <2>1. CASE found = 0
    BY <1>3, <1>4, <1>9, <2>1, RowBorn
  <2>2. CASE found # 0
    BY <1>3, <1>4, <1>9, <1>10, <2>2, RowMade
  <2> QED
    BY <2>1, <2>2
<1>13. /\ DOMAIN W = IF kept THEN DOMAIN ingest[w].wrote ELSE {c} \cup DOMAIN ingest[w].wrote
       /\ ~kept => W[c] = row
       /\ \A d \in DOMAIN ingest[w].wrote : d # c \/ kept => W[d] = ingest[w].wrote[d]
  BY <1>3, <1>4 DEF Over
<1>14. /\ DOMAIN L = keys \cup DOMAIN ingest[w].linked
       /\ \A k \in keys : L[k] = c
       /\ \A k \in DOMAIN ingest[w].linked \ keys : L[k] = ingest[w].linked[k]
  BY <1>4 DEF Over
<1>15. W \in Partial(Id, Card)
  <2>1. CASE kept
    BY <1>4, <1>8, <2>1
  <2>2. CASE ~kept
    <3>1. PICK one : one = [x \in {c} |-> row]
      OBVIOUS
    <3>2. one \in [{c} -> Card] /\ {c} \in SUBSET Id
      BY <1>10, <1>11, <1>12, <3>1
    <3>3. one \in Partial(Id, Card)
      BY <3>2, PartialIntro
    <3> QED
      BY <1>4, <1>8, <2>2, <3>1, <3>3, OverType
  <2> QED
    BY <2>1, <2>2
<1>16. L \in Partial(Key, Id)
  <2>1. PICK new : new = [k \in keys |-> c]
    OBVIOUS
  <2>2. keys \in SUBSET Key
    BY <1>3, <1>4, <1>9, <1>12, KeysFit
  <2>3. new \in [keys -> Id]
    BY <1>10, <1>11, <2>1
  <2>4. new \in Partial(Key, Id)
    BY <2>2, <2>3, PartialIntro
  <2> QED
    BY <1>4, <1>8, <2>1, <2>4, OverType
<1>17. j \in Collection
  BY <1>5, <1>8, <1>15, <1>16 DEF Collection
<1>18. /\ j.stage = "resolve" /\ j.provider = p /\ j.page = ingest[w].page
       /\ j.todo \subseteq ingest[w].todo /\ j.wrote = W /\ j.linked = L
  BY <1>3, <1>4, <1>5, <1>8 DEF Collection
<1>19. ingest'[w] = j
  BY <1>2, <1>7 DEF IdentityTypes
<1>20. PICK seen, seen2 : seen = SeenCards(w) /\ seen2 = Over(W, cards)
  OBVIOUS
<1>21. SeenCards(w)' = seen2
  BY <1>0, <1>18, <1>19, <1>20 DEF SeenCards
<1>22. /\ DOMAIN seen2 = IF found = 0 THEN DOMAIN seen \cup {c} ELSE DOMAIN seen
       /\ c \in DOMAIN seen2
       /\ \A d \in DOMAIN seen \ {c} : seen2[d] = seen[d]
       /\ ~kept => seen2[c] = row
       /\ kept => seen2[c] = seen[c]
  <2>1. DOMAIN seen2 = DOMAIN W \cup DOMAIN cards
    BY <1>20 DEF Over
  <2>2. DOMAIN seen = DOMAIN ingest[w].wrote \cup DOMAIN cards
    BY <1>7, <1>20, SeenFacts
  <2>4. c \in DOMAIN seen2 /\ (~kept => seen2[c] = row)
    BY <1>10, <1>11, <1>13, <1>20, <2>1, <2>2 DEF Over
  <2>5. ASSUME NEW d \in DOMAIN seen, d # c \/ kept
        PROVE  seen2[d] = seen[d]
    <3>1. CASE d \in DOMAIN ingest[w].wrote
      <4>1. d \in DOMAIN W /\ W[d] = ingest[w].wrote[d]
        BY <1>13, <2>5, <3>1
      <4> QED
        BY <1>7, <1>20, <3>1, <4>1, SeenFacts DEF Over
    <3>2. CASE d \notin DOMAIN ingest[w].wrote
      <4>1. d \in DOMAIN cards /\ d \notin DOMAIN W
        BY <1>13, <2>2, <2>5, <3>2
      <4> QED
        BY <1>7, <1>20, <3>2, <4>1, SeenFacts DEF Over
    <3> QED
      BY <3>1, <3>2
  <2>6. kept => c \in DOMAIN seen
    BY <1>10, <1>11, <1>20
  <2>7. DOMAIN seen2 = IF found = 0 THEN DOMAIN seen \cup {c} ELSE DOMAIN seen
    BY <1>10, <1>11, <1>13, <1>20, <2>1, <2>2
  <2> QED
    BY <2>4, <2>5, <2>6, <2>7
<1>23. \A d \in DOMAIN seen : d \in DOMAIN seen2 /\ SameLook(seen2[d], seen[d])
  <2>1. \A d \in DOMAIN seen \ {c} : d \in DOMAIN seen2 /\ SameLook(seen2[d], seen[d])
    BY <1>22 DEF SameLook
  <2>2. c \in DOMAIN seen => SameLook(seen2[c], seen[c])
    <3>1. CASE kept
      BY <1>22, <3>1 DEF SameLook
    <3>2. CASE ~kept
      BY <1>11, <1>12, <1>20, <1>22, <3>2
    <3> QED
      BY <3>1, <3>2
  <2> QED
    BY <1>22, <2>1, <2>2
<1>24. Fits(seen2[c], p, v)
  <2>1. CASE kept
    BY <1>3, <1>10, <1>20, <1>22, <2>1
  <2>2. CASE ~kept
    BY <1>12, <1>22, <2>2
  <2> QED
    BY <2>1, <2>2
<1>25. ASSUME NEW d \in DOMAIN W
       PROVE  /\ RowSound(W[d])
              /\ \E a \in ingest[w].page : W[d].face = FaceOf[a]
              /\ d \in DOMAIN cards => SameLook(W[d], cards[d])
  <2>1. CASE d = c /\ ~kept
    <3>1. W[d] = row /\ row.face = FaceOf[v]
      BY <1>12, <1>13, <2>1 DEF Fits
    <3>2. ASSUME d \in DOMAIN cards PROVE SameLook(row, cards[d])
      <4>1. c \in DOMAIN SeenCards(w) /\ SameLook(SeenCards(w)[c], cards[c])
        BY <2>1, <3>2, SeenLooks
      <4>2. SameLook(row, SeenCards(w)[c])
        BY <1>11, <1>12, <4>1
      <4> QED
        BY <2>1, <4>1, <4>2 DEF SameLook
    <3> QED
      BY <1>9, <1>12, <3>1, <3>2
  <2>2. CASE d # c \/ kept
    <3>1. d \in DOMAIN ingest[w].wrote /\ W[d] = ingest[w].wrote[d]
      BY <1>13, <2>2
    <3> QED
      BY <1>7, <3>1 DEF Fine, WroteFine
  <2> QED
    BY <2>1, <2>2
<1>26. WroteFine(w)'
  BY <1>0, <1>18, <1>19, <1>25 DEF WroteFine
<1>27. ASSUME NEW k \in DOMAIN L
       PROVE  L[k] \in DOMAIN seen2 /\ Fits(seen2[L[k]], k[1], k[2])
  <2>1. CASE k \in keys
    <3>1. k \in KeysOf(p, v) /\ L[k] = c
      BY <1>3, <1>4, <1>14, <2>1
    <3> QED
      BY <1>9, <1>22, <1>24, <3>1, KeysFit
  <2>2. CASE k \notin keys
    <3>1. PICK d : d = ingest[w].linked[k]
      OBVIOUS
    <3>2. k \in DOMAIN ingest[w].linked /\ L[k] = d
      BY <1>14, <2>2, <3>1
    <3>3. d \in DOMAIN seen /\ Fits(seen[d], k[1], k[2])
      BY <1>7, <1>20, <3>1, <3>2 DEF Fine, LinkedFine
    <3>4. d \in DOMAIN seen2 /\ SameLook(seen[d], seen2[d])
      BY <1>23, <3>3 DEF SameLook
    <3>5. Fits(seen2[d], k[1], k[2])
      BY <3>3, <3>4, LookFits
    <3> QED
      BY <3>2, <3>4, <3>5
  <2> QED
    BY <2>1, <2>2
<1>28. LinkedFine(w)'
  BY <1>18, <1>19, <1>21, <1>27 DEF LinkedFine
<1>29. PageFine(w)' /\ FoundFine(w)' /\ NothingAlike(w)'
  BY <1>7, <1>9, <1>18, <1>19 DEF Fine, PageFine, FoundFine, NothingAlike
<1>30. \A d, e \in DOMAIN seen :
          SameLook(seen[d], seen[e]) /\ seen[d].side # "unsaid" /\ seen[d].face \notin overlapped => d = e
  BY <1>7, <1>20 DEF Fine, Unique
<1>31. ASSUME found = 0, NEW e \in DOMAIN seen, SameLook(row, seen[e]), row.side # "unsaid",
              row.face \notin overlapped
       PROVE  FALSE
  <2>1. p \in Teller /\ LooksLike(row, v)
    BY <1>3, <1>4, <1>9, <1>31, RowBorn
  <2>2. LooksLike(seen[e], v) /\ FaceOf[v] \notin overlapped
    BY <1>31, <2>1 DEF SameLook, LooksLike
  <2>3. NothingAlike(w)
    BY <1>7 DEF Fine
  <2> QED
    BY <1>3, <1>4, <1>0, <1>20, <1>31, <2>1, <2>2, <2>3 DEF NothingAlike
<1>32. ASSUME NEW d \in DOMAIN seen2, NEW e \in DOMAIN seen2, SameLook(seen2[d], seen2[e]),
              seen2[d].side # "unsaid", seen2[d].face \notin overlapped
       PROVE  d = e
  <2>1. CASE d \in DOMAIN seen /\ e \in DOMAIN seen
    BY <1>23, <1>30, <1>32, <2>1 DEF SameLook
  <2>2. CASE d \notin DOMAIN seen /\ e \in DOMAIN seen
    <3>1. found = 0 /\ d = c /\ seen2[d] = row
      BY <1>11, <1>22, <1>32, <2>2
    <3>2. SameLook(row, seen[e])
      BY <1>23, <1>32, <2>2, <3>1 DEF SameLook
    <3> QED
      BY <1>31, <1>32, <2>2, <3>1, <3>2
  <2>3. CASE d \in DOMAIN seen /\ e \notin DOMAIN seen
    <3>1. found = 0 /\ e = c /\ seen2[e] = row
      BY <1>11, <1>22, <1>32, <2>3
    <3>2. SameLook(row, seen[d]) /\ row.side # "unsaid" /\ row.face \notin overlapped
      BY <1>23, <1>32, <2>3, <3>1 DEF SameLook
    <3> QED
      BY <1>31, <2>3, <3>1, <3>2
  <2>4. CASE d \notin DOMAIN seen /\ e \notin DOMAIN seen
    BY <1>22, <1>32, <2>4
  <2> QED
    BY <2>1, <2>2, <2>3, <2>4
<1>33. Unique(SeenCards(w))'
  BY <1>0, <1>21, <1>32 DEF Unique
<1>34. Fine(w)'
  BY <1>26, <1>28, <1>29, <1>33 DEF Fine
<1>35. \A u \in Ingester \ {w} : DOMAIN j.wrote \cap DOMAIN ingest[u].wrote = {}
  <2>1. \A u \in Ingester \ {w} : DOMAIN ingest[w].wrote \cap DOMAIN ingest[u].wrote = {}
    BY <1>7 DEF OneWriter
  <2>2. ~kept => \A u \in Ingester \ {w} : c \notin DOMAIN ingest[u].wrote
    BY <1>3 DEF RowHeld
  <2> QED
    BY <1>13, <1>18, <2>1, <2>2
<1> QED
  BY <1>0, <1>2, <1>17, <1>18, <1>34, <1>35, OwnStep

LEMMA CommitIngestStep ==
    ASSUME IdentityInv, NEW w \in Ingester, CommitIngest(w)
    PROVE  IdentityInv'
<1>1. /\ IdentityTypes /\ CardsSound /\ OneWriter /\ Noticed
      /\ \A u \in Ingester : Fine(u)
  BY DEF IdentityInv
<1>2. /\ cards' = SeenCards(w) /\ mapped' = SeenMaps(w) /\ ingest' = [ingest EXCEPT ![w] = Idle]
      /\ overlapped' = overlapped /\ collections' = collections
  BY DEF CommitIngest
<1>3. << >> \in Partial(Id, Card) /\ << >> \in Partial(Key, Id) /\ DOMAIN << >> = {}
  <2>1. << >> \in [{} -> Card] /\ << >> \in [{} -> Id] /\ DOMAIN << >> = {}
    OBVIOUS
  <2> QED
    BY <2>1, PartialIntro
<1>4. Idle \in Collection
  BY <1>3 DEF Idle, Collection
<1>5. /\ ingest'[w] = Idle /\ \A u \in Ingester \ {w} : ingest'[u] = ingest[u]
      /\ ingest' \in [Ingester -> Collection]
  BY <1>1, <1>2, <1>4 DEF IdentityTypes
<1>6. /\ Idle.stage = "idle" /\ Idle.page = {} /\ Idle.todo = {}
      /\ Idle.wrote = << >> /\ Idle.linked = << >>
  BY DEF Idle
<1>7. cards' \in Partial(Id, Card) /\ mapped' \in Partial(Key, Id)
  BY <1>1, <1>2, SeenFacts, SeenMapsFit
<1>8. IdentityTypes'
  BY <1>1, <1>2, <1>5, <1>7 DEF IdentityTypes
<1>9. CardsSound'
  <2>1. \A c \in DOMAIN SeenCards(w) : RowSound(SeenCards(w)[c])
    BY SeenLooks
  <2>2. \A k \in DOMAIN SeenMaps(w) : /\ SeenMaps(w)[k] \in DOMAIN SeenCards(w)
                                      /\ Fits(SeenCards(w)[SeenMaps(w)[k]], k[1], k[2])
    BY SeenMapsFit
  <2>3. Unique(SeenCards(w))
    BY <1>1 DEF Fine
  <2>4. Unique(cards)'
    BY <1>2, <2>3 DEF Unique
  <2> QED
    BY <1>2, <2>1, <2>2, <2>4 DEF CardsSound
<1>10. Fine(w)'
  BY <1>5, <1>6, <1>7, <1>9, FreshIsFine
<1>11. OneWriter'
  BY <1>1, <1>3, <1>5, <1>6 DEF OneWriter
<1>12. Noticed'
  BY <1>1, <1>2, <1>5, <1>6 DEF Noticed
<1>13. ASSUME NEW u \in Ingester \ {w} PROVE Fine(u)'
  <2>1. PICK mine, his, wider :
           mine = SeenCards(u) /\ his = SeenCards(w) /\ wider = Over(ingest[u].wrote, his)
    OBVIOUS
  <2>2. SeenCards(u)' = wider
    BY <1>2, <1>5, <2>1 DEF SeenCards
  <2>3. /\ DOMAIN mine = DOMAIN ingest[u].wrote \cup DOMAIN cards
        /\ \A c \in DOMAIN ingest[u].wrote : mine[c] = ingest[u].wrote[c]
        /\ \A c \in DOMAIN cards \ DOMAIN ingest[u].wrote : mine[c] = cards[c]
        /\ DOMAIN his = DOMAIN ingest[w].wrote \cup DOMAIN cards
        /\ \A c \in DOMAIN ingest[w].wrote : his[c] = ingest[w].wrote[c]
        /\ \A c \in DOMAIN cards \ DOMAIN ingest[w].wrote : his[c] = cards[c]
    BY <1>1, <2>1, SeenFacts
  <2>4. /\ DOMAIN wider = DOMAIN ingest[u].wrote \cup DOMAIN his
        /\ \A c \in DOMAIN ingest[u].wrote : wider[c] = ingest[u].wrote[c]
        /\ \A c \in DOMAIN his \ DOMAIN ingest[u].wrote : wider[c] = his[c]
    BY <2>1 DEF Over
  <2>5. DOMAIN ingest[w].wrote \cap DOMAIN ingest[u].wrote = {}
    BY <1>1, <1>13 DEF OneWriter
  <2>6. ASSUME NEW c \in DOMAIN cards
        PROVE  c \in DOMAIN his /\ SameLook(his[c], cards[c])
    BY <2>1, SeenLooks
  <2>7. ASSUME NEW c \in DOMAIN mine
        PROVE  c \in DOMAIN wider /\ SameLook(wider[c], mine[c])
    <3>1. CASE c \in DOMAIN ingest[u].wrote
      BY <2>3, <2>4, <3>1 DEF SameLook
    <3>2. CASE c \notin DOMAIN ingest[u].wrote
      <4>1. c \in DOMAIN cards /\ mine[c] = cards[c]
        BY <2>3, <2>7, <3>2
      <4>2. c \in DOMAIN his /\ SameLook(his[c], cards[c])
        BY <2>6, <4>1
      <4> QED
        BY <2>4, <3>2, <4>1, <4>2
    <3> QED
      BY <3>1, <3>2
  <2>8. Fine(u)
    BY <1>1
  <2>9. ASSUME NEW c \in DOMAIN ingest[u].wrote, c \in DOMAIN his
        PROVE  SameLook(ingest[u].wrote[c], his[c])
    <3>1. c \in DOMAIN cards /\ his[c] = cards[c]
      BY <2>3, <2>5, <2>9
    <3> QED
      BY <2>8, <3>1 DEF Fine, WroteFine
  <2>10. WroteFine(u)'
    BY <1>2, <1>5, <2>1, <2>8, <2>9 DEF Fine, WroteFine
  <2>11. LinkedFine(u)'
    <3>1. ASSUME NEW k \in DOMAIN ingest[u].linked
          PROVE  /\ ingest[u].linked[k] \in DOMAIN wider
                 /\ Fits(wider[ingest[u].linked[k]], k[1], k[2])
      <4>1. PICK c : c = ingest[u].linked[k]
        OBVIOUS
      <4>2. c \in DOMAIN mine /\ Fits(mine[c], k[1], k[2])
        BY <2>1, <2>8, <3>1, <4>1 DEF Fine, LinkedFine
      <4>3. c \in DOMAIN wider /\ SameLook(mine[c], wider[c])
        BY <2>7, <4>2 DEF SameLook
      <4>4. Fits(wider[c], k[1], k[2])
        BY <4>2, <4>3, LookFits
      <4> QED
        BY <4>1, <4>3, <4>4
    <3> QED
      BY <1>5, <2>2, <3>1 DEF LinkedFine
  <2>12. PageFine(u)'
    BY <1>5, <2>8 DEF Fine, PageFine
  <2>13. FoundFine(u)'
    <3>1. PICK c, p, v : c = ingest[u].found /\ p = ingest[u].provider /\ v = ingest[u].item
      OBVIOUS
    <3>2. ASSUME ingest[u].stage = "store", c # 0
          PROVE  c \in DOMAIN wider /\ Fits(wider[c], p, v)
      <4>1. c \in DOMAIN mine /\ Fits(mine[c], p, v)
        BY <2>1, <2>8, <3>1, <3>2 DEF Fine, FoundFine
      <4>2. c \in DOMAIN wider /\ SameLook(mine[c], wider[c])
        BY <2>7, <4>1 DEF SameLook
      <4> QED
        BY <4>1, <4>2, LookFits
    <3> QED
      BY <1>5, <2>2, <3>1, <3>2 DEF FoundFine
  <2>14. ASSUME NEW c \in DOMAIN ingest[w].wrote
         PROVE  /\ his[c].face \in overlapped
                   \/ \A v \in ingest[u].page : FaceOf[v] # his[c].face
    <3>1. PICK a \in ingest[w].page : his[c].face = FaceOf[a]
      BY <1>1, <2>3, <2>14 DEF Fine, WroteFine
    <3> QED
      BY <1>1, <1>13, <3>1 DEF Noticed
  <2>15. NothingAlike(u)'
    <3>1. PICK v : v = ingest[u].item
      OBVIOUS
    <3>2. ASSUME ingest[u].stage = "store", ingest[u].found = 0, ingest[u].provider \in Teller,
                 FaceOf[v] \notin overlapped, NEW c \in DOMAIN wider, LooksLike(wider[c], v)
          PROVE  FALSE
      <4>1. CASE c \in DOMAIN mine
        <5>1. LooksLike(mine[c], v)
          BY <2>7, <3>2, <4>1 DEF SameLook, LooksLike
        <5> QED
          BY <2>1, <2>8, <3>1, <3>2, <4>1, <5>1 DEF Fine, NothingAlike
      <4>2. CASE c \notin DOMAIN mine
        <5>1. c \in DOMAIN ingest[w].wrote /\ wider[c] = his[c]
          BY <2>3, <2>4, <3>2, <4>2
        <5>2. v \in ingest[u].page
          BY <2>8, <3>1, <3>2 DEF Fine, PageFine
        <5> QED
          BY <2>14, <3>2, <5>1, <5>2 DEF LooksLike
      <4> QED
        BY <4>1, <4>2
    <3> QED
      BY <1>2, <1>5, <2>2, <3>1, <3>2 DEF NothingAlike
  <2>16. /\ \A c, d \in DOMAIN mine :
               SameLook(mine[c], mine[d]) /\ mine[c].side # "unsaid" /\ mine[c].face \notin overlapped
                   => c = d
         /\ \A c, d \in DOMAIN his :
               SameLook(his[c], his[d]) /\ his[c].side # "unsaid" /\ his[c].face \notin overlapped
                   => c = d
    BY <1>1, <2>1, <2>8 DEF Fine, Unique
  <2>17. ASSUME NEW c \in DOMAIN ingest[u].wrote, NEW d \in DOMAIN ingest[w].wrote,
                wider[c].face = wider[d].face
         PROVE  wider[c].face \in overlapped
    <3>1. wider[c] = ingest[u].wrote[c] /\ wider[d] = his[d]
      BY <2>3, <2>4, <2>5, <2>17
    <3>2. PICK v \in ingest[u].page : wider[c].face = FaceOf[v]
      BY <2>8, <2>17, <3>1 DEF Fine, WroteFine
    <3> QED
      BY <2>14, <2>17, <3>1, <3>2
  <2>18. ASSUME NEW c \in DOMAIN wider, NEW d \in DOMAIN wider, SameLook(wider[c], wider[d]),
                wider[c].side # "unsaid", wider[c].face \notin overlapped
         PROVE  c = d
    <3>1. CASE c \in DOMAIN mine /\ d \in DOMAIN mine
      BY <2>7, <2>16, <2>18, <3>1 DEF SameLook
    <3>2. CASE c \notin DOMAIN ingest[u].wrote /\ d \notin DOMAIN ingest[u].wrote
      BY <2>4, <2>16, <2>18, <3>2
    <3>3. CASE c \in DOMAIN ingest[u].wrote /\ d \notin DOMAIN mine
      <4>1. d \in DOMAIN ingest[w].wrote
        BY <2>3, <2>4, <2>18, <3>3
      <4> QED
        BY <2>17, <2>18, <3>3, <4>1 DEF SameLook
    <3>4. CASE d \in DOMAIN ingest[u].wrote /\ c \notin DOMAIN mine
      <4>1. c \in DOMAIN ingest[w].wrote
        BY <2>3, <2>4, <2>18, <3>4
      <4> QED
        BY <2>17, <2>18, <3>4, <4>1 DEF SameLook
    <3> QED
      BY <2>3, <3>1, <3>2, <3>3, <3>4
  <2>19. Unique(SeenCards(u))'
    BY <1>2, <2>2, <2>18 DEF Unique
  <2> QED
    BY <2>10, <2>11, <2>12, <2>13, <2>15, <2>19 DEF Fine
<1>14. \A u \in Ingester : Fine(u)'
  BY <1>10, <1>13
<1> QED
  BY <1>8, <1>9, <1>11, <1>12, <1>14 DEF IdentityInv

LEMMA IdentityStutters == IdentityInv /\ UNCHANGED identityVars => IdentityInv'
<1> SUFFICES ASSUME IdentityInv, UNCHANGED identityVars PROVE IdentityInv'
  OBVIOUS
<1>1. /\ IdentityTypes /\ CardsSound /\ OneWriter /\ Noticed
      /\ \A u \in Ingester : Fine(u)
  BY DEF IdentityInv
<1>2. /\ cards' = cards /\ mapped' = mapped /\ ingest' = ingest /\ overlapped' = overlapped
      /\ collections' = collections
  BY DEF identityVars
<1>3. \A u \in Ingester : Fine(u)'
  BY <1>1, <1>2, StaysFine
<1>4. IdentityTypes' /\ OneWriter' /\ Noticed'
  BY <1>1, <1>2 DEF IdentityTypes, OneWriter, Noticed
<1>5. CardsSound'
  BY <1>1, <1>2, StaysSound
<1> QED
  BY <1>3, <1>4, <1>5 DEF IdentityInv

(***************************************************************************)
(* The cards of every pair of mappings, seen by the look of their rows.    *)
(***************************************************************************)
LEMMA InvGivesOneCard == IdentityInv => OneCardPerLook
<1> SUFFICES ASSUME IdentityInv, NEW j \in DOMAIN mapped, NEW k \in DOMAIN mapped,
                    j[1] \in Teller, k[1] \in Teller
             PROVE  /\ mapped[j] = mapped[k] => FaceOf[j[2]] = FaceOf[k[2]] /\ SideOf[j[2]] = SideOf[k[2]]
                    /\ j[2] = k[2] /\ FaceOf[j[2]] \notin overlapped => mapped[j] = mapped[k]
  BY DEF OneCardPerLook
<1>1. IdentityTypes /\ CardsSound
  BY DEF IdentityInv
<1>2. PICK c, d : c = mapped[j] /\ d = mapped[k]
  OBVIOUS
<1>3. /\ c \in DOMAIN cards /\ Fits(cards[c], j[1], j[2])
      /\ d \in DOMAIN cards /\ Fits(cards[d], k[1], k[2])
  BY <1>1, <1>2 DEF CardsSound
<1>4. LooksLike(cards[c], j[2]) /\ LooksLike(cards[d], k[2])
  BY <1>3 DEF Fits, LooksLike
<1>5. c = d => FaceOf[j[2]] = FaceOf[k[2]] /\ SideOf[j[2]] = SideOf[k[2]]
  BY <1>4 DEF LooksLike
<1>6. j[2] \in Version
  <2>1. j \in Key
    BY <1>1, PartialFacts DEF IdentityTypes
  <2> QED
    BY <2>1 DEF Key
<1>7. SideOf[j[2]] # "unsaid"
  BY <1>6, IdentityAssumption
<1>8. ASSUME j[2] = k[2], FaceOf[j[2]] \notin overlapped PROVE c = d
  <2>1. SameLook(cards[c], cards[d]) /\ cards[c].side # "unsaid" /\ cards[c].face \notin overlapped
    BY <1>4, <1>7, <1>8 DEF SameLook, LooksLike
  <2> QED
    BY <1>1, <1>3, <2>1 DEF CardsSound, Unique
<1> QED
  BY <1>2, <1>5, <1>8

THEOREM OneCardCorrect == IdentitySpec => []OneCardPerLook
<1>1. ASSUME IdentityInv, [IdentityNext]_identityVars PROVE IdentityInv'
  <2>1. CASE UNCHANGED identityVars
    BY <1>1, <2>1, IdentityStutters
  <2>2. CASE IdentityNext
    <3>1. PICK w \in Ingester :
             \/ \E p \in Provider, page \in Page : BeginIngest(w, p, page)
             \/ \E v \in Version : Resolve(w, v)
             \/ Store(w) \/ SkipItem(w) \/ CommitIngest(w) \/ FailIngest(w)
      BY <2>2 DEF IdentityNext
    <3>2. CASE \E p \in Provider, page \in Page : BeginIngest(w, p, page)
      BY <1>1, <3>2, BeginIngestStep
    <3>3. CASE \E v \in Version : Resolve(w, v)
      BY <1>1, <3>3, ResolveStep
    <3>4. CASE Store(w)
      BY <1>1, <3>4, StoreStep
    <3>5. CASE SkipItem(w)
      BY <1>1, <3>5, SkipItemStep
    <3>6. CASE CommitIngest(w)
      BY <1>1, <3>6, CommitIngestStep
    <3>7. CASE FailIngest(w)
      BY <1>1, <3>7, FailIngestStep
    <3> QED
      BY <3>1, <3>2, <3>3, <3>4, <3>5, <3>6, <3>7
  <2> QED
    BY <1>1, <2>1, <2>2
<1> QED
  BY <1>1, IdentityStarts, InvGivesOneCard, PTL DEF IdentitySpec
=============================================================================
