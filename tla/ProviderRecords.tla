--------------------------- MODULE ProviderRecords ---------------------------
(***************************************************************************)
(* What the two Parse.bot tasks (scheduler/tasks.py) leave in the rows they*)
(* share: the provider's health (services/provider_health.py) and its      *)
(* request budget (services/provider_budget.py). Counters are read, then   *)
(* incremented in memory, then written as absolute values by an UPDATE that*)
(* keeps the row locked until the batch commits.                           *)
(***************************************************************************)
EXTENDS Integers, FiniteSets

CONSTANTS Batch,       \* executions of the two tasks
          Catalogue,   \* those of collect_parse_futbin_catalogue; others are hot
          MaxRequests  \* bound: requests of one batch

ASSUME RecordsAssumption ==
    /\ Catalogue \subseteq Batch
    /\ "nobody" \notin Batch
    /\ MaxRequests \in Nat \ {0}

Table  == {"health", "budget"}
HealthStatus == {"DISABLED", "HEALTHY", "DEGRADED", "STALE"}

VARIABLES records,    \* committed rows, the columns that are compared
          stored,     \* the tables whose row exists
          owner,      \* who has written the row and not committed yet
          batch,      \* the batches
          recorded,   \* increments of total, failed and used committed so far
          crossed,    \* a batch wrote a row that changed after it had read it
          lastGood    \* the last batch that committed had a usable answer

recordsVars == <<records, stored, owner, batch, recorded, crossed, lastGood>>

Counters == [total : Nat, failed : Nat, used : Nat]
Columns  == [status : HealthStatus, total : Nat, failed : Nat, used : Nat]
Zero     == [total |-> 0, failed |-> 0, used |-> 0]

\* health holds status, total and failed; budget holds used.
ColumnsOf(t) == IF t = "health" THEN {"status", "total", "failed"} ELSE {"used"}

\* A batch: its requests left and the usable answers, whether it ends with a
\* failure, and its session: the rows read (or new), the columns as they stand
\* in memory, those changed, by how much, and the rows committed since by others.
Job == [stage : {"waiting", "request", "count", "blame", "praise", "done"},
        left : 0..MaxRequests, got : 0..MaxRequests, last : BOOLEAN,
        read : SUBSET Table, fresh : SUBSET Table, mine : Columns,
        changed : SUBSET {"status", "total", "failed", "used"},
        added : Counters, stale : SUBSET Table]

Waiting == [stage |-> "waiting", left |-> 0, got |-> 0, last |-> FALSE, read |-> {}, fresh |-> {},
            mine |-> [status |-> "DISABLED", total |-> 0, failed |-> 0, used |-> 0],
            changed |-> {}, added |-> Zero, stale |-> {}]

RecordsTypeOK ==
    /\ records \in Columns
    /\ stored \subseteq Table
    /\ owner \in [Table -> Batch \cup {"nobody"}]
    /\ batch \in [Batch -> Job]
    /\ recorded \in Counters
    /\ crossed \in BOOLEAN
    /\ lastGood \in BOOLEAN

RecordsInit ==
    /\ records = [status |-> "DISABLED", total |-> 0, failed |-> 0, used |-> 0]
    /\ stored \in SUBSET Table  \* the rows may exist from earlier batches
    /\ owner = [t \in Table |-> "nobody"]
    /\ batch = [b \in Batch |-> Waiting]
    /\ recorded = Zero
    /\ crossed = FALSE
    /\ lastGood = FALSE

-----------------------------------------------------------------------------
\* The first look at a table puts its row into the session, or a new one when
\* there is none, where it stays as read; later looks return the same object.
Look(j, t) ==
    IF t \in j.read THEN j
    ELSE [j EXCEPT !.read = @ \cup {t}, !.stale = @ \ {t}, !.fresh = @ \cup ({t} \ stored),
                   !.mine = [c \in DOMAIN j.mine |->
                                IF c \in ColumnsOf(t) THEN records[c] ELSE j.mine[c]]]

\* A change in memory; the columns it makes differ go into the next UPDATE.
Change(j, new) ==
    [j EXCEPT !.mine = new,
              !.changed = @ \cup {c \in DOMAIN new : new[c] # j.mine[c]}]

\* The row can be written: nobody else holds it. A new row whose key was
\* committed meanwhile cannot.
Free(b, t)  == owner[t] \in {b, "nobody"}
Clash(b, t) == t \in batch[b].fresh /\ t \in stored

\* record_provider_request_usage.
Used(j) == [Change(j, [j.mine EXCEPT !.used = @ + 1]) EXCEPT !.added.used = @ + 1]

\* A failure that is not counted as a request (faulty variant of Blamed).
BlamedOnly(j) ==
    [Change(j, [j.mine EXCEPT !.failed = @ + 1, !.status = "DEGRADED"])
        EXCEPT !.added.failed = @ + 1]

\* record_provider_failure.
Blamed(j) ==
    [Change(j, [j.mine EXCEPT !.total = @ + 1, !.failed = @ + 1, !.status = "DEGRADED"])
        EXCEPT !.added.total = @ + 1, !.added.failed = @ + 1]

\* The verdict of a batch does not look at its answers (faulty variant).
VerdictOfEnd(b, got) == "HEALTHY"

\* What a batch that came to its end says of the provider.
VerdictOf(b, got) ==
    IF got > 0 THEN "HEALTHY" ELSE IF b \in Catalogue THEN "DEGRADED" ELSE "STALE"

\* record_provider_success.
Praised(b, j) ==
    [Change(j, [j.mine EXCEPT !.total = @ + 1, !.status = VerdictOf(b, j.got)])
        EXCEPT !.added.total = @ + 1]

\* The commit of a batch that stands at j.
Committed(b, j) ==
    /\ records' = [c \in DOMAIN records |-> IF c \in j.changed THEN j.mine[c] ELSE records[c]]
    /\ stored' = stored \cup {t \in Table : ColumnsOf(t) \cap j.changed # {}}
    /\ owner' = [t \in Table |-> IF owner[t] = b THEN "nobody" ELSE owner[t]]
    /\ recorded' = [c \in DOMAIN recorded |-> recorded[c] + j.added[c]]
    /\ crossed' = (crossed \/ \E t \in j.stale : ColumnsOf(t) \cap j.changed # {})
    /\ lastGood' = (j.got > 0 /\ ~j.last)
    /\ batch' = [a \in Batch |->
                    IF a = b THEN [Waiting EXCEPT !.stage = "done"]
                    ELSE [batch[a] EXCEPT !.stale =
                             @ \cup {t \in Table : ColumnsOf(t) \cap j.changed # {}}]]

Moved(b, j) ==
    /\ batch' = [batch EXCEPT ![b] = j]
    /\ UNCHANGED <<records, stored, recorded, crossed, lastGood>>

-----------------------------------------------------------------------------
\* A task begins with some targets or pages, or none.
StartBatch(b) ==
    /\ batch[b].stage = "waiting"
    /\ \E n \in 0..MaxRequests : Moved(b, [Waiting EXCEPT !.stage = "request", !.left = n])
    /\ UNCHANGED owner

Requesting(b) == batch[b].stage = "request" /\ batch[b].left > 0

\* A request is answered and its rows are inserted; a page of the catalogue may
\* hold no usable card, or nothing, and then no page follows.
Answered(b) ==
    /\ Requesting(b)
    /\ LET j == [Look(batch[b], "budget") EXCEPT !.stage = "count"]
       IN  \/ Moved(b, [j EXCEPT !.got = @ + 1])
           \/ b \in Catalogue /\ \E n \in {1, j.left} : Moved(b, [j EXCEPT !.left = n])
    /\ UNCHANGED owner

\* The usage is written, once nobody else holds the row.
Count(b) ==
    /\ batch[b].stage = "count"
    /\ Free(b, "budget") /\ ~Clash(b, "budget")
    /\ owner' = [owner EXCEPT !["budget"] = b]
    /\ Moved(b, [Used(batch[b]) EXCEPT !.stage = "request", !.left = @ - 1])

\* A hot request fails: without an answer, because of the rate limit (then
\* nothing more is asked), or because the answer cannot be ingested and its
\* savepoint is rolled back. A request that failed is not counted as usage.
HotFailed(b) ==
    /\ b \notin Catalogue
    /\ Requesting(b)
    /\ LET j == [Look(batch[b], "health") EXCEPT !.stage = "blame"]
       IN  \/ Moved(b, j)
           \/ Moved(b, [j EXCEPT !.got = @ + 1])
           \/ Moved(b, [j EXCEPT !.last = TRUE])
    /\ UNCHANGED owner

\* Any failure of the catalogue, a deadlock included, rolls all of it back; the
\* failure is then recorded in a session of its own.
CatalogueFailed(b) ==
    /\ b \in Catalogue
    /\ batch[b].stage \in {"request", "count", "praise"}
    /\ owner' = [t \in Table |-> IF owner[t] = b THEN "nobody" ELSE owner[t]]
    /\ Moved(b, [Look(Waiting, "health") EXCEPT !.stage = "blame", !.last = TRUE])

Blame(b) ==
    /\ batch[b].stage = "blame"
    /\ Free(b, "health") /\ ~Clash(b, "health")
    /\ LET j == Blamed(batch[b])
       IN  IF j.last THEN Committed(b, j)
           ELSE /\ owner' = [owner EXCEPT !["health"] = b]
                /\ Moved(b, [j EXCEPT !.stage = "request", !.left = @ - 1])

\* The end of a batch, whatever happened to its requests.
Finish(b) ==
    /\ batch[b].stage = "request" /\ batch[b].left = 0
    /\ Moved(b, [Look(batch[b], "health") EXCEPT !.stage = "praise"])
    /\ UNCHANGED owner

Praise(b) ==
    /\ batch[b].stage = "praise"
    /\ Free(b, "health") /\ ~Clash(b, "health")
    /\ Committed(b, Praised(b, batch[b]))

\* The session of a batch that is lost stays open (faulty variant of Vanish).
VanishHolding(b) ==
    /\ batch[b].stage \notin {"waiting", "done"}
    /\ UNCHANGED owner
    /\ Moved(b, [Waiting EXCEPT !.stage = "done"])

\* The worker is lost; or a hot batch is the victim of a deadlock or of an insert
\* that fails, which its session does not survive.
Vanish(b) ==
    /\ batch[b].stage \notin {"waiting", "done"}
    /\ owner' = [t \in Table |-> IF owner[t] = b THEN "nobody" ELSE owner[t]]
    /\ Moved(b, [Waiting EXCEPT !.stage = "done"])

RecordsStep(b) == \/ StartBatch(b) \/ Answered(b) \/ Count(b) \/ HotFailed(b)
                  \/ CatalogueFailed(b) \/ Blame(b) \/ Finish(b) \/ Praise(b)

RecordsNext == \E b \in Batch : RecordsStep(b) \/ Vanish(b)

-----------------------------------------------------------------------------
Wants(b) == CASE batch[b].stage = "count" -> "budget"
              [] batch[b].stage \in {"blame", "praise"} -> "health"
              [] OTHER -> "nothing"
Stuck(b) == Wants(b) # "nothing" /\ ~Free(b, Wants(b))
Lost(b) == \/ Wants(b) # "nothing" /\ Clash(b, Wants(b))
           \/ Stuck(b) /\ Stuck(owner[Wants(b)]) /\ owner[Wants(owner[Wants(b)])] = b

\* Workers go on; the database ends deadlocks and inserts of an existing key.
RecordsFairness ==
    \A b \in Batch :
        /\ WF_recordsVars(StartBatch(b) \/ Answered(b) \/ Count(b) \/ Blame(b) \/ Finish(b) \/ Praise(b))
        /\ WF_recordsVars(Lost(b) /\ (CatalogueFailed(b) \/ Vanish(b)))

RecordsSpec == RecordsInit /\ [][RecordsNext]_recordsVars /\ RecordsFairness

\* Overlapping batches lose increments and never invent one; while none wrote a
\* row that had changed under it, the counters are exactly what was recorded.
\* The number of failures can only pass that of requests after a loss.
CountersOfRecord ==
    /\ \A c \in {"total", "failed", "used"} : records[c] <= recorded[c]
    /\ ~crossed => /\ \A c \in {"total", "failed", "used"} : records[c] = recorded[c]
                   /\ records.failed <= records.total

\* However many requests of a batch failed, HEALTHY says that one was answered
\* in the last batch, unless batches crossed.
HealthyWasAnswered == records.status = "HEALTHY" /\ ~crossed => lastGood

\* Every batch ends: batches that wait for each other's rows are told apart.
BatchesEnd == \A b \in Batch : batch[b].stage \notin {"waiting", "done"} ~> batch[b].stage = "done"

=============================================================================
