------------------------- MODULE CandidateLifecycle -------------------------
(***************************************************************************)
(* Opportunity candidates and manual verification requests.  A discovery   *)
(* cycle (a Celery task, every two minutes) reads the active candidates,   *)
(* ranks the market, supersedes what it read and inserts one candidate per *)
(* ranked entry, some with a request that a person look at the market.  An  *)
(* answer (an API call) resolves the request and passes a verdict on its   *)
(* candidate.  Both read and write in one database transaction at READ     *)
(* COMMITTED without locking what they read, so cycles overlap cycles,     *)
(* answers overlap answers and each overlaps the other.                    *)
(*                                                                         *)
(* A cycle ranks the reference rows its query finds, of which there may be *)
(* several of one card: a candidate row is named by its cycle and the      *)
(* entry of the market it comes from, and its request, if it has one, with *)
(* it.  Scores, ranks and texts are left out: what a cycle ranks is any    *)
(* set of entries with any verdict of the scoring on each.                 *)
(***************************************************************************)
EXTENDS Integers, FiniteSets

CONSTANTS
  Entry,         \* entries of the observable market
  Price,         \* lowest BIN a person may report, positive
  Limit,         \* attractive_at_or_below of a candidate: prices or None
  Worker,        \* Celery processes that may run a discovery cycle
  Responder,     \* API threads that may serve an answer
  MaxCycles      \* bound on the number of discovery cycles

None == 0

ASSUME CandidateAssumption ==
  /\ Price \subseteq Nat \ {None}
  /\ Limit \subseteq Price \cup {None}
  /\ IsFiniteSet(Entry)
  /\ MaxCycles \in Nat

VARIABLES
  candidate,   \* cycle -> entry -> opportunity_candidates row
  request,     \* cycle -> entry -> manual_verification_requests.status
  last,        \* the cycle that committed last
  started,     \* number of cycles started
  discovery,   \* worker -> the cycle it runs
  answer,      \* responder -> the answer it serves
  contested,   \* history: requests with two answers in flight at once
  excused      \* history: candidates a later cycle could not have superseded

vars == <<candidate, request, last, started, discovery, answer, contested, excused>>

Cycle == 1..MaxCycles
Id == Cycle \X Entry

Verified == {"execution_verified_actionable", "execution_verified_not_actionable",
             "execution_verified_needs_model_reevaluation"}
Status == {"absent", "ranked", "needs_verification", "superseded"} \cup Verified

Unobserved == -1   \* no execution observation linked; None is one without a price

Absent == [status |-> "absent", limit |-> None, evidence |-> Unobserved]

StatusOf(id) == candidate[id[1]][id[2]].status
RequestOf(id) == request[id[1]][id[2]]

(* Faulty variant: the list of statuses misses the verdict without limit.  *)
ActiveButReevaluation ==
  {"ranked", "needs_verification", "execution_verified_actionable",
   "execution_verified_not_actionable"}

(* The statuses a cycle selects, and supersedes.                           *)
ActiveStatuses == {"ranked", "needs_verification"} \cup Verified

(* What opportunities, attention and the dashboard show.                   *)
Shown == {id \in Id : StatusOf(id) \notin {"absent", "superseded"}}

Init ==
  /\ candidate = [n \in Cycle |-> [e \in Entry |-> Absent]]
  /\ request = [n \in Cycle |-> [e \in Entry |-> "none"]]
  /\ last = 0
  /\ started = 0
  /\ discovery = [w \in Worker |-> [cycle |-> 0, previous |-> {}]]
  /\ answer = [r \in Responder |-> [step |-> "idle"]]
  /\ contested = {}
  /\ excused = {}

-----------------------------------------------------------------------------
(* Discovery.                                                              *)

Running == {w \in Worker : discovery[w].cycle # 0}

(* The scoring's word on a ranked entry: whether the reference is too weak  *)
(* to trade on and the action of the buy class, whether a check would be   *)
(* worth its interruption, and the price to buy at.                        *)
Opinion == [verify : BOOLEAN, worth : BOOLEAN, limit : Limit]

(* The SELECT of the active candidates.                                    *)
StartCycle(w) ==
  /\ discovery[w].cycle = 0
  /\ started < MaxCycles
  /\ started' = started + 1
  /\ discovery' = [discovery EXCEPT ![w] =
                     [cycle |-> started + 1,
                      previous |-> {id \in Id : StatusOf(id) \in ActiveStatuses}]]
  /\ UNCHANGED <<candidate, request, last, answer, contested, excused>>

(* Supersede what was read, insert what was ranked.                        *)
CommitCycle(w, ranked, opinion) ==
  LET n == discovery[w].cycle
      old == discovery[w].previous
  IN /\ n # 0
     /\ candidate' =
          [m \in Cycle |-> [e \in Entry |->
             IF m = n /\ e \in ranked
             THEN [status |-> IF opinion[e].verify THEN "needs_verification" ELSE "ranked",
                   limit |-> opinion[e].limit, evidence |-> Unobserved]
             ELSE IF <<m, e>> \in old
             THEN [candidate[m][e] EXCEPT !.status = "superseded"]
             ELSE candidate[m][e]]]
     /\ request' = [request EXCEPT ![n] =
                      [e \in Entry |-> IF e \in ranked /\ opinion[e].verify /\ opinion[e].worth
                                      THEN "pending" ELSE "none"]]
     /\ last' = n
     /\ discovery' = [discovery EXCEPT ![w] = [cycle |-> 0, previous |-> {}]]
     /\ excused' = excused \cup (IF Running = {w} THEN {} ELSE {n} \X ranked)
     /\ UNCHANGED <<started, answer, contested>>

(* The task raises or its process dies: nothing was committed, and Celery  *)
(* delivers the task again as another cycle.                               *)
AbandonCycle(w) ==
  /\ discovery[w].cycle # 0
  /\ discovery' = [discovery EXCEPT ![w] = [cycle |-> 0, previous |-> {}]]
  /\ UNCHANGED <<candidate, request, last, started, answer, contested, excused>>

-----------------------------------------------------------------------------
(* Answers.                                                                *)

(* The request is read and must be pending (409 otherwise); lowest is None *)
(* for a screenshot without numbers.                                       *)
ReadRequest(r, id, lowest) ==
  /\ answer[r].step = "idle"
  /\ RequestOf(id) = "pending"
  /\ answer' = [answer EXCEPT ![r] = [step |-> "request", id |-> id, lowest |-> lowest]]
  /\ contested' = contested \cup
       {i \in {id} : \E o \in Responder : answer[o].step # "idle" /\ answer[o].id = i}
  /\ UNCHANGED <<candidate, request, last, started, discovery, excused>>

(* The candidate is read after the observation has been inserted.          *)
ReadCandidate(r) ==
  /\ answer[r].step = "request"
  /\ answer' = [answer EXCEPT ![r] =
                  [step |-> "candidate", id |-> @.id, lowest |-> @.lowest,
                   read |-> StatusOf(@.id)]]
  /\ UNCHANGED <<candidate, request, last, started, discovery, contested, excused>>

(* Faulty variant: the word shown to the user is written as the status.    *)
VerdictWord(limit, lowest) ==
  IF lowest = None THEN "VERIFY"
  ELSE IF limit = None THEN "WATCH" ELSE IF lowest <= limit THEN "BUY" ELSE "PASS"

(* Faulty variant: strictly below the limit.                               *)
VerdictBelow(limit, lowest) ==
  CASE lowest = None  -> "needs_verification"
    [] lowest # None /\ limit = None -> "execution_verified_needs_model_reevaluation"
    [] lowest # None /\ limit # None /\ lowest < limit -> "execution_verified_actionable"
    [] OTHER -> "execution_verified_not_actionable"

(* What an answer makes of a candidate with the given limit.               *)
Verdict(limit, lowest) ==
  CASE lowest = None  -> "needs_verification"
    [] lowest # None /\ limit = None -> "execution_verified_needs_model_reevaluation"
    [] lowest # None /\ limit # None /\ lowest <= limit -> "execution_verified_actionable"
    [] OTHER -> "execution_verified_not_actionable"

(* Faulty variant: every attribute assigned is written.                    *)
WriteAlways(current, read, written) == written

(* An assigned column is written only when it differs from what was read.  *)
Write(current, read, written) == IF written = read THEN current ELSE written

CommitAnswer(r) ==
  LET a == answer[r]
      id == a.id
      n == id[1]
      e == id[2]
  IN /\ a.step = "candidate"
     /\ request' = [request EXCEPT ![n][e] =
                      Write(@, "pending", IF a.lowest # None THEN "resolved" ELSE "pending")]
     /\ candidate' = [candidate EXCEPT
                        ![n][e].status = Write(@, a.read, Verdict(candidate[n][e].limit, a.lowest)),
                        ![n][e].evidence = a.lowest]
     /\ answer' = [answer EXCEPT ![r] = [step |-> "idle"]]
     /\ excused' = excused \cup (IF StatusOf(id) = "superseded" THEN {id} ELSE {})
     /\ UNCHANGED <<last, started, discovery, contested>>

(* An exception or a lost connection before the commit.                    *)
AbandonAnswer(r) ==
  /\ answer[r].step # "idle"
  /\ answer' = [answer EXCEPT ![r] = [step |-> "idle"]]
  /\ UNCHANGED <<candidate, request, last, started, discovery, contested, excused>>

Next ==
  \/ \E w \in Worker :
       \/ StartCycle(w)
       \/ \E ranked \in SUBSET Entry : \E opinion \in [ranked -> Opinion] :
            CommitCycle(w, ranked, opinion)
       \/ AbandonCycle(w)
  \/ \E r \in Responder :
       \/ \E id \in Id, lowest \in Price \cup {None} : ReadRequest(r, id, lowest)
       \/ ReadCandidate(r)
       \/ CommitAnswer(r)
       \/ AbandonAnswer(r)

Spec == Init /\ [][Next]_vars

-----------------------------------------------------------------------------
(* Properties.                                                             *)

Candidate == [status : Status, limit : Limit \cup {None},
              evidence : Price \cup {None, Unobserved}]
Answer ==
  {[step |-> "idle"]}
    \cup [step : {"request"}, id : Id, lowest : Price \cup {None}]
    \cup [step : {"candidate"}, id : Id, lowest : Price \cup {None}, read : Status]

TypeOK ==
  /\ candidate \in [Cycle -> [Entry -> Candidate]]
  /\ request \in [Cycle -> [Entry -> {"none", "pending", "resolved"}]]
  /\ last \in 0..MaxCycles /\ started \in 0..MaxCycles
  /\ discovery \in [Worker -> [cycle : 0..MaxCycles, previous : SUBSET Id]]
  /\ answer \in [Responder -> Answer]
  /\ contested \subseteq Id /\ excused \subseteq Id

(* However answers overlap, a resolved request is never opened again: a    *)
(* screenshot that was read while it was pending does not reset its status *)
ResolvedStaysResolved ==
  [][\A id \in Id : RequestOf(id) = "resolved" => RequestOf(id)' = "resolved"]_vars

(* Unless two answers to one request overlapped, a resolved request has    *)
(* its candidate judged, or superseded, and the verdict is the one its     *)
(* linked evidence supports against its limit.                             *)
VerdictMatchesEvidence ==
  \A id \in Id \ contested :
    LET row == candidate[id[1]][id[2]]
    IN /\ RequestOf(id) = "resolved" => row.status \in Verified \cup {"superseded"}
       /\ row.status \in Verified => RequestOf(id) = "resolved"
       /\ row.status = "execution_verified_actionable" =>
            row.evidence \in 1..row.limit
       /\ row.status = "execution_verified_not_actionable" =>
            row.limit # None /\ row.evidence > row.limit

(* A candidate of an earlier cycle is still shown only if its cycle        *)
(* overlapped another or a late answer brought it back: discovery forgets  *)
(* no other.                                                               *)
NoOtherSurvivors == \A id \in Shown : id[1] # last => id \in excused
=============================================================================
