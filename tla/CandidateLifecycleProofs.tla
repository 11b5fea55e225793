---------------------- MODULE CandidateLifecycleProofs ----------------------
(***************************************************************************)
(* Proofs about candidates and verification requests, for every market,    *)
(* every set of prices and any number of workers and answering threads:    *)
(* type correctness, that a resolved request is never opened again, that   *)
(* only overlaps let a candidate survive the next cycle, and that verdicts *)
(* are what their evidence supports.                                       *)
(*                                                                         *)
(* A request is safe from discovery because a cycle inserts under a number *)
(* of its own, so no request exists under it before (CycleInv).  A         *)
(* candidate a running cycle has not read was inserted by a cycle that     *)
(* overlapped it, or brought back by an answer (UnreadExcused).  An answer *)
(* without a rival is the only one on its request, which stays pending,    *)
(* and has read the candidate unjudged (Alone), so that the columns it     *)
(* writes are all of the verdict (VerdictInv).                             *)
(***************************************************************************)
EXTENDS CandidateLifecycle, TLAPS

(* An answer leaves one of the four statuses a candidate can be shown in.  *)
LEMMA VerdictType ==
  ASSUME NEW limit, NEW lowest
  PROVE  Verdict(limit, lowest) \in {"needs_verification"} \cup Verified
  BY DEF Verdict, Verified

(* What an answer under way holds.                                         *)
LEMMA AnswerFields ==
  ASSUME TypeOK, NEW r \in Responder
  PROVE  /\ answer[r].step \in {"idle", "request", "candidate"}
         /\ answer[r].step # "idle" =>
              answer[r].id \in Id /\ answer[r].lowest \in Price \cup {None}
         /\ answer[r].step = "candidate" => answer[r].read \in Status
  BY DEF TypeOK, Answer

(* A candidate is named by a cycle and an entry.                           *)
LEMMA IdParts ==
  ASSUME NEW id \in Id
  PROVE  id[1] \in Cycle /\ id[2] \in Entry /\ id = <<id[1], id[2]>>
  BY DEF Id

-----------------------------------------------------------------------------
(* Type correctness.                                                       *)

LEMMA InitType == Init => TypeOK
<1> SUFFICES ASSUME Init PROVE TypeOK
  OBVIOUS
<1>1. Absent \in Candidate
  BY DEF Absent, Candidate, Status
<1>2. candidate \in [Cycle -> [Entry -> Candidate]]
  BY <1>1 DEF Init
<1>3. answer \in [Responder -> Answer]
  BY DEF Init, Answer
<1>4. request \in [Cycle -> [Entry -> {"none", "pending", "resolved"}]]
  BY DEF Init
<1>5. discovery \in [Worker -> [cycle : 0..MaxCycles, previous : SUBSET Id]]
  BY CandidateAssumption DEF Init
<1>6. last \in 0..MaxCycles /\ started \in 0..MaxCycles
  BY CandidateAssumption DEF Init
<1>7. contested \subseteq Id /\ excused \subseteq Id
  BY DEF Init
<1> QED
  BY <1>2, <1>3, <1>4, <1>5, <1>6, <1>7 DEF TypeOK

LEMMA CommitCycleType ==
  ASSUME TypeOK, NEW w \in Worker, NEW ranked \in SUBSET Entry,
         NEW opinion \in [ranked -> Opinion], CommitCycle(w, ranked, opinion)
  PROVE  TypeOK'
<1> DEFINE n == discovery[w].cycle
           old == discovery[w].previous
           Row(m, e) ==
             IF m = n /\ e \in ranked
             THEN [status |-> IF opinion[e].verify THEN "needs_verification" ELSE "ranked",
                   limit |-> opinion[e].limit, evidence |-> Unobserved]
             ELSE IF <<m, e>> \in old
             THEN [candidate[m][e] EXCEPT !.status = "superseded"]
             ELSE candidate[m][e]
<1>1. n \in Cycle
  BY CandidateAssumption DEF TypeOK, CommitCycle, Cycle
<1>2. ASSUME NEW m \in Cycle, NEW e \in Entry
      PROVE  Row(m, e) \in Candidate
  <2>1. CASE m = n /\ e \in ranked
    <3>1. opinion[e] \in Opinion
      BY <2>1
    <3>2. opinion[e].limit \in Limit
      BY <3>1 DEF Opinion
    <3>3. [status |-> IF opinion[e].verify THEN "needs_verification" ELSE "ranked",
           limit |-> opinion[e].limit, evidence |-> Unobserved] \in Candidate
      BY <3>2 DEF Candidate, Status
    <3> QED
      BY <2>1, <3>3
  <2>2. CASE ~(m = n /\ e \in ranked)
    <3>1. candidate[m][e] \in Candidate
      BY DEF TypeOK
    <3>2. [candidate[m][e] EXCEPT !.status = "superseded"] \in Candidate
      BY <3>1 DEF Candidate, Status
    <3> QED
      BY <2>2, <3>1, <3>2
  <2> QED
    BY <2>1, <2>2
<1>3. candidate' = [m \in Cycle |-> [e \in Entry |-> Row(m, e)]]
  BY DEF CommitCycle
<1> HIDE DEF Row
<1>4. candidate' \in [Cycle -> [Entry -> Candidate]]
  BY <1>2, <1>3
<1>5. request' \in [Cycle -> [Entry -> {"none", "pending", "resolved"}]]
  BY DEF TypeOK, CommitCycle
<1>6. discovery' \in [Worker -> [cycle : 0..MaxCycles, previous : SUBSET Id]]
  BY CandidateAssumption DEF TypeOK, CommitCycle
<1>7. excused' \subseteq Id
  BY <1>1 DEF TypeOK, CommitCycle, Id
<1>8. last' \in 0..MaxCycles /\ started' \in 0..MaxCycles
  BY <1>1 DEF TypeOK, CommitCycle, Cycle
<1> QED
  BY <1>4, <1>5, <1>6, <1>7, <1>8 DEF TypeOK, CommitCycle

LEMMA CommitAnswerType ==
  ASSUME TypeOK, NEW r \in Responder, CommitAnswer(r)
  PROVE  TypeOK'
<1> DEFINE a == answer[r]
           n == a.id[1]
           e == a.id[2]
           new == Write(candidate[n][e].status, a.read,
                        Verdict(candidate[n][e].limit, a.lowest))
           word == Write(request[n][e], "pending",
                         IF a.lowest # None THEN "resolved" ELSE "pending")
<1>1. a.id \in Id /\ a.lowest \in Price \cup {None} /\ a.read \in Status
  BY AnswerFields DEF CommitAnswer
<1>2. n \in Cycle /\ e \in Entry
  BY <1>1, IdParts
<1>3. candidate[n][e] \in Candidate
  BY <1>2 DEF TypeOK
<1>4. new \in Status
  BY <1>3, VerdictType DEF Write, Status, Candidate
<1>5. word \in {"none", "pending", "resolved"}
  BY <1>2 DEF TypeOK, Write
<1>6. /\ candidate' = [candidate EXCEPT ![n][e].status = new, ![n][e].evidence = a.lowest]
      /\ request' = [request EXCEPT ![n][e] = word]
  BY DEF CommitAnswer
<1> HIDE DEF new, word
<1>7. [[candidate[n][e] EXCEPT !.status = new] EXCEPT !.evidence = a.lowest] \in Candidate
  BY <1>1, <1>3, <1>4 DEF Candidate
<1>8. candidate' \in [Cycle -> [Entry -> Candidate]]
  <2>1. candidate \in [Cycle -> [Entry -> Candidate]] /\ candidate[n] \in [Entry -> Candidate]
    BY <1>2 DEF TypeOK
  <2>2. PICK row : row = [candidate[n] EXCEPT ![e] =
                            [[candidate[n][e] EXCEPT !.status = new] EXCEPT !.evidence = a.lowest]]
    OBVIOUS
  <2>3. row \in [Entry -> Candidate]
    BY <1>7, <2>1, <2>2, Zenon
  <2>4. candidate' = [candidate EXCEPT ![n] = row]
    BY <1>6, <2>2
  <2> QED
    BY <2>1, <2>3, <2>4
<1>9. request' \in [Cycle -> [Entry -> {"none", "pending", "resolved"}]]
  BY <1>2, <1>5, <1>6 DEF TypeOK
<1>10. answer' \in [Responder -> Answer]
  BY DEF TypeOK, CommitAnswer, Answer
<1>11. excused' \subseteq Id
  BY <1>1 DEF TypeOK, CommitAnswer
<1> QED
  BY <1>8, <1>9, <1>10, <1>11 DEF TypeOK, CommitAnswer

LEMMA StepType == TypeOK /\ [Next]_vars => TypeOK'
<1> SUFFICES ASSUME TypeOK, [Next]_vars PROVE TypeOK'
  OBVIOUS
<1>1. ASSUME NEW w \in Worker, StartCycle(w)
      PROVE  TypeOK'
  <2>1. started' \in 0..MaxCycles /\ last' \in 0..MaxCycles
    BY <1>1, CandidateAssumption DEF TypeOK, StartCycle
  <2>2. discovery' \in [Worker -> [cycle : 0..MaxCycles, previous : SUBSET Id]]
    BY <1>1, CandidateAssumption DEF TypeOK, StartCycle
  <2> QED
    BY <1>1, <2>1, <2>2 DEF TypeOK, StartCycle
<1>2. ASSUME NEW w \in Worker, AbandonCycle(w)
      PROVE  TypeOK'
  <2>1. discovery' \in [Worker -> [cycle : 0..MaxCycles, previous : SUBSET Id]]
    BY <1>2, CandidateAssumption DEF TypeOK, AbandonCycle
  <2> QED
    BY <1>2, <2>1 DEF TypeOK, AbandonCycle
<1>3. ASSUME NEW r \in Responder, NEW id \in Id, NEW lowest \in Price \cup {None},
             ReadRequest(r, id, lowest)
      PROVE  TypeOK'
  <2>1. answer' \in [Responder -> Answer]
    BY <1>3 DEF TypeOK, ReadRequest, Answer
  <2>2. contested' \subseteq Id
    BY <1>3 DEF TypeOK, ReadRequest
  <2> QED
    BY <1>3, <2>1, <2>2 DEF TypeOK, ReadRequest
<1>4. ASSUME NEW r \in Responder, ReadCandidate(r)
      PROVE  TypeOK'
  <2> DEFINE id == answer[r].id
             held == [step |-> "candidate", id |-> id, lowest |-> answer[r].lowest,
                      read |-> StatusOf(id)]
  <2>1. id \in Id /\ answer[r].lowest \in Price \cup {None}
    BY <1>4, AnswerFields DEF ReadCandidate
  <2>2. StatusOf(id) \in Status
    BY <2>1, IdParts DEF TypeOK, StatusOf, Candidate
  <2>3. answer' = [answer EXCEPT ![r] = held]
    BY <1>4 DEF ReadCandidate
  <2>4. held \in Answer
    BY <2>1, <2>2 DEF Answer
  <2>5. answer' \in [Responder -> Answer]
    BY <2>3, <2>4 DEF TypeOK
  <2> QED
    BY <1>4, <2>5 DEF TypeOK, ReadCandidate
<1>5. ASSUME NEW r \in Responder, AbandonAnswer(r)
      PROVE  TypeOK'
  <2>1. answer' \in [Responder -> Answer]
    BY <1>5 DEF TypeOK, AbandonAnswer, Answer
  <2> QED
    BY <1>5, <2>1 DEF TypeOK, AbandonAnswer
<1>6. CASE UNCHANGED vars
  BY <1>6 DEF TypeOK, vars
<1> QED
  BY <1>1, <1>2, <1>3, <1>4, <1>5, <1>6, CommitCycleType, CommitAnswerType DEF Next

(* Rows, requests and everything in flight keep their types.               *)
THEOREM TypeCorrect == Spec => []TypeOK
  BY InitType, StepType, PTL DEF Spec

-----------------------------------------------------------------------------
(* The numbers of cycles.                                                  *)

(* Cycles have numbers of their own and no row before they commit; only    *)
(* requests that exist are answered, and only of candidates that exist.    *)
CycleInv ==
  /\ \A w \in Worker : discovery[w].cycle <= started
  /\ \A w, v \in Worker : discovery[w].cycle = discovery[v].cycle =>
       w = v \/ discovery[w].cycle = 0
  /\ \A m \in Cycle : m > started \/ (\E w \in Worker : discovery[w].cycle = m) =>
       \A e \in Entry : request[m][e] = "none"
  /\ \A m \in Cycle, e \in Entry :
       request[m][e] # "none" => candidate[m][e].status # "absent"
  /\ \A r \in Responder : answer[r].step # "idle" => RequestOf(answer[r].id) # "none"

LEMMA InitCycle == Init => CycleInv
  BY DEF Init, CycleInv

(* A cycle that ends frees its number for good.                            *)
LEMMA CommitCycleRows ==
  ASSUME TypeOK, CycleInv, NEW w \in Worker, NEW ranked \in SUBSET Entry,
         NEW opinion \in [ranked -> Opinion], CommitCycle(w, ranked, opinion)
  PROVE  /\ discovery[w].cycle \in Cycle
         /\ \A e \in Entry : request[discovery[w].cycle][e] = "none"
         /\ \A m \in Cycle, e \in Entry :
              /\ m # discovery[w].cycle => request'[m][e] = request[m][e]
              /\ request'[m][e] # "none" /\ m = discovery[w].cycle => e \in ranked
              /\ m = discovery[w].cycle /\ e \in ranked =>
                   candidate'[m][e].status \in {"needs_verification", "ranked"}
              /\ ~(m = discovery[w].cycle /\ e \in ranked) =>
                   candidate'[m][e].status =
                     IF <<m, e>> \in discovery[w].previous THEN "superseded"
                     ELSE candidate[m][e].status
<1> DEFINE n == discovery[w].cycle
<1>1. n \in Cycle
  BY CandidateAssumption DEF TypeOK, CommitCycle, Cycle
<1>2. \A e \in Entry : request[n][e] = "none"
  BY <1>1 DEF CycleInv
<1>3. request' = [request EXCEPT ![n] =
                    [e \in Entry |-> IF e \in ranked /\ opinion[e].verify /\ opinion[e].worth
                                     THEN "pending" ELSE "none"]]
  BY DEF CommitCycle
<1>4. ASSUME NEW m \in Cycle, NEW e \in Entry
      PROVE  /\ m # n => request'[m][e] = request[m][e]
             /\ request'[m][e] # "none" /\ m = n => e \in ranked
  BY <1>1, <1>3 DEF TypeOK
<1>5. ASSUME NEW m \in Cycle, NEW e \in Entry
      PROVE  candidate'[m][e] =
               IF m = n /\ e \in ranked
               THEN [status |-> IF opinion[e].verify THEN "needs_verification" ELSE "ranked",
                     limit |-> opinion[e].limit, evidence |-> Unobserved]
               ELSE IF <<m, e>> \in discovery[w].previous
               THEN [candidate[m][e] EXCEPT !.status = "superseded"]
               ELSE candidate[m][e]
  BY DEF CommitCycle
<1>6. ASSUME NEW m \in Cycle, NEW e \in Entry
      PROVE  /\ m = n /\ e \in ranked =>
                  candidate'[m][e].status \in {"needs_verification", "ranked"}
             /\ ~(m = n /\ e \in ranked) =>
                  candidate'[m][e].status =
                    IF <<m, e>> \in discovery[w].previous THEN "superseded"
                    ELSE candidate[m][e].status
  <2>1. candidate[m][e] \in Candidate
    BY DEF TypeOK
  <2>2. [candidate[m][e] EXCEPT !.status = "superseded"].status = "superseded"
    BY <2>1 DEF Candidate
  <2>3. CASE m = n /\ e \in ranked
    <3> DEFINE word == IF opinion[e].verify THEN "needs_verification" ELSE "ranked"
    <3>1. word \in {"needs_verification", "ranked"}
      BY Zenon
    <3>2. candidate'[m][e] =
            [status |-> word, limit |-> opinion[e].limit, evidence |-> Unobserved]
      BY <1>5, <2>3, Zenon
    <3> HIDE DEF word
    <3> QED
      BY <2>3, <3>1, <3>2
  <2>4. CASE ~(m = n /\ e \in ranked)
    <3>1. candidate'[m][e] = IF <<m, e>> \in discovery[w].previous
                             THEN [candidate[m][e] EXCEPT !.status = "superseded"]
                             ELSE candidate[m][e]
      BY <1>5, <2>4
    <3> QED
      BY <2>2, <2>4, <3>1
  <2> QED
    BY <2>3, <2>4
<1> QED
  BY <1>1, <1>2, <1>4, <1>6

(* An answer only touches the rows of its own candidate, resolves its      *)
(* request or leaves it, and shows the candidate.                          *)
LEMMA CommitAnswerRows ==
  ASSUME TypeOK, NEW r \in Responder, CommitAnswer(r)
  PROVE  /\ answer[r].id \in Id
         /\ \A m \in Cycle, e \in Entry :
              IF <<m, e>> = answer[r].id
              THEN /\ request'[m][e] \in {request[m][e], "resolved"}
                   /\ \/ candidate'[m][e].status = candidate[m][e].status
                      \/ candidate'[m][e].status \in {"needs_verification"} \cup Verified
              ELSE /\ request'[m][e] = request[m][e]
                   /\ candidate'[m][e] = candidate[m][e]
<1> DEFINE a == answer[r]
           n == a.id[1]
           x == a.id[2]
           new == Write(candidate[n][x].status, a.read,
                        Verdict(candidate[n][x].limit, a.lowest))
           word == Write(request[n][x], "pending",
                         IF a.lowest # None THEN "resolved" ELSE "pending")
<1>1. a.id \in Id /\ a.id = <<n, x>> /\ n \in Cycle /\ x \in Entry
  BY AnswerFields, IdParts DEF CommitAnswer
<1>2. new = candidate[n][x].status \/ new \in {"needs_verification"} \cup Verified
  BY VerdictType DEF Write
<1>3. word \in {request[n][x], "resolved"}
  BY DEF Write
<1>4. /\ candidate' = [candidate EXCEPT ![n][x].status = new, ![n][x].evidence = a.lowest]
      /\ request' = [request EXCEPT ![n][x] = word]
  BY DEF CommitAnswer
<1> HIDE DEF new, word
<1>5. ASSUME NEW m \in Cycle, NEW e \in Entry, <<m, e>> # a.id
      PROVE  request'[m][e] = request[m][e] /\ candidate'[m][e] = candidate[m][e]
  <2>1. m # n \/ e # x
    BY <1>1, <1>5
  <2> QED
    BY <1>1, <1>4, <2>1 DEF TypeOK
<1>6. request'[n][x] = word
  BY <1>1, <1>4 DEF TypeOK
<1>7. candidate[n][x] \in Candidate
  BY <1>1 DEF TypeOK
<1>8. candidate'[n][x] =
        [[candidate[n][x] EXCEPT !.status = new] EXCEPT !.evidence = a.lowest]
  BY <1>1, <1>4 DEF TypeOK
<1>9. candidate'[n][x].status = new
  BY <1>7, <1>8 DEF Candidate
<1>10. ASSUME NEW m \in Cycle, NEW e \in Entry
       PROVE  IF <<m, e>> = a.id
              THEN /\ request'[m][e] \in {request[m][e], "resolved"}
                   /\ \/ candidate'[m][e].status = candidate[m][e].status
                      \/ candidate'[m][e].status \in {"needs_verification"} \cup Verified
              ELSE /\ request'[m][e] = request[m][e]
                   /\ candidate'[m][e] = candidate[m][e]
  <2>1. CASE <<m, e>> = a.id
    <3>1. m = n /\ e = x
      BY <2>1, <1>1
    <3> QED
      BY <2>1, <3>1, <1>2, <1>3, <1>6, <1>9
  <2> QED
    BY <2>1, <1>5
<1> QED
  BY <1>1, <1>10

LEMMA StepCycle == TypeOK /\ CycleInv /\ [Next]_vars => CycleInv'
<1> SUFFICES ASSUME TypeOK, CycleInv, [Next]_vars PROVE CycleInv'
  OBVIOUS
<1>1. ASSUME NEW w \in Worker, StartCycle(w)
      PROVE  CycleInv'
  <2>1. UNCHANGED <<candidate, request, answer>> /\ started' = started + 1
    BY <1>1 DEF StartCycle
  <2>2. /\ discovery'[w].cycle = started + 1
        /\ \A v \in Worker \ {w} : discovery'[v].cycle = discovery[v].cycle
    BY <1>1 DEF TypeOK, StartCycle
  <2>3. /\ started \in Nat /\ Cycle \subseteq Nat
        /\ \A v \in Worker : discovery[v].cycle \in Nat
    BY CandidateAssumption DEF TypeOK, Cycle
  <2>4. \A v \in Worker : discovery'[v].cycle <= started'
    BY <2>1, <2>2, <2>3 DEF CycleInv
  <2>5. \A u, v \in Worker : discovery'[u].cycle = discovery'[v].cycle =>
          u = v \/ discovery'[u].cycle = 0
    <3> TAKE u, v \in Worker
    <3>1. CASE u = w \/ v = w
      BY <2>2, <2>3, <3>1 DEF CycleInv
    <3>2. CASE u # w /\ v # w
      BY <2>2, <3>2 DEF CycleInv
    <3> QED
      BY <3>1, <3>2
  <2>6. ASSUME NEW m \in Cycle, m > started' \/ (\E v \in Worker : discovery'[v].cycle = m)
        PROVE  \A e \in Entry : request'[m][e] = "none"
    <3>1. m > started \/ (\E v \in Worker : discovery[v].cycle = m)
      BY <2>1, <2>2, <2>3, <2>6
    <3> QED
      BY <2>1, <3>1 DEF CycleInv
  <2>7. \A m \in Cycle, e \in Entry :
          request'[m][e] # "none" => candidate'[m][e].status # "absent"
    BY <2>1 DEF CycleInv
  <2>8. \A r \in Responder :
          answer'[r].step # "idle" => request'[answer'[r].id[1]][answer'[r].id[2]] # "none"
    BY <2>1 DEF CycleInv, RequestOf
  <2> QED
    BY <2>4, <2>5, <2>6, <2>7, <2>8 DEF CycleInv, RequestOf
<1>2. ASSUME NEW w \in Worker, NEW ranked \in SUBSET Entry,
             NEW opinion \in [ranked -> Opinion], CommitCycle(w, ranked, opinion)
      PROVE  CycleInv'
  <2> DEFINE n == discovery[w].cycle
  <2>1. /\ n \in Cycle
        /\ \A e \in Entry : request[n][e] = "none"
        /\ \A m \in Cycle, e \in Entry :
             /\ m # n => request'[m][e] = request[m][e]
             /\ request'[m][e] # "none" /\ m = n => e \in ranked
             /\ m = n /\ e \in ranked =>
                  candidate'[m][e].status \in {"needs_verification", "ranked"}
             /\ ~(m = n /\ e \in ranked) =>
                  candidate'[m][e].status =
                    IF <<m, e>> \in discovery[w].previous THEN "superseded"
                    ELSE candidate[m][e].status
    BY <1>2, CommitCycleRows
  <2>2. UNCHANGED <<started, answer>> /\ n # 0
    BY <1>2 DEF CommitCycle
  <2>3. /\ discovery'[w].cycle = 0
        /\ \A v \in Worker \ {w} : discovery'[v].cycle = discovery[v].cycle
    BY <1>2 DEF TypeOK, CommitCycle
  <2>4. \A v \in Worker : discovery'[v].cycle <= started'
    BY <2>2, <2>3 DEF CycleInv, TypeOK
  <2>5. \A u, v \in Worker : discovery'[u].cycle = discovery'[v].cycle =>
          u = v \/ discovery'[u].cycle = 0
    <3> TAKE u, v \in Worker
    <3>1. CASE u = w \/ v = w
      BY <2>3, <3>1
    <3>2. CASE u # w /\ v # w
      BY <2>3, <3>2 DEF CycleInv
    <3> QED
      BY <3>1, <3>2
  <2>6. ASSUME NEW m \in Cycle, m > started' \/ (\E v \in Worker : discovery'[v].cycle = m)
        PROVE  \A e \in Entry : request'[m][e] = "none"
    <3>1. n <= started /\ n \in Nat /\ started \in Nat /\ m \in Nat /\ m # 0
      BY <2>1, CandidateAssumption DEF CycleInv, TypeOK, Cycle
    <3>2. m # n
      <4>1. CASE m > started'
        BY <2>2, <3>1, <4>1
      <4>2. ASSUME NEW v \in Worker, discovery'[v].cycle = m
            PROVE  m # n
        <5>1. v # w /\ discovery[v].cycle = m
          BY <2>3, <3>1, <4>2
        <5> QED
          BY <2>2, <5>1 DEF CycleInv
      <4> QED
        BY <2>6, <4>1, <4>2
    <3>3. m > started \/ (\E v \in Worker : discovery[v].cycle = m)
      BY <2>2, <2>3, <2>6, <3>1
    <3>4. \A e \in Entry : request[m][e] = "none"
      BY <3>3 DEF CycleInv
    <3>5. \A e \in Entry : request'[m][e] = request[m][e]
      BY <2>1, <3>2
    <3> QED
      BY <3>4, <3>5
  <2>7. ASSUME NEW m \in Cycle, NEW e \in Entry, request'[m][e] # "none"
        PROVE  candidate'[m][e].status # "absent"
    <3>1. CASE m = n /\ e \in ranked
      BY <2>1, <3>1
    <3>2. CASE ~(m = n /\ e \in ranked)
      <4>1. request[m][e] # "none"
        BY <2>1, <2>7, <3>2
      <4>2. candidate[m][e].status # "absent"
        BY <4>1 DEF CycleInv
      <4>3. candidate'[m][e].status =
              IF <<m, e>> \in discovery[w].previous THEN "superseded"
              ELSE candidate[m][e].status
        BY <2>1, <3>2
      <4> QED
        BY <4>2, <4>3
    <3> QED
      BY <3>1, <3>2
  <2>8. ASSUME NEW r \in Responder, answer[r].step # "idle"
        PROVE  request'[answer[r].id[1]][answer[r].id[2]] # "none"
    <3>1. answer[r].id[1] \in Cycle /\ answer[r].id[2] \in Entry
      BY <2>8, AnswerFields, IdParts
    <3>2. request[answer[r].id[1]][answer[r].id[2]] # "none"
      BY <2>8 DEF CycleInv, RequestOf
    <3>3. answer[r].id[1] # n
      BY <2>1, <3>1, <3>2
    <3>4. \A m \in Cycle, e \in Entry : m # n => request'[m][e] = request[m][e]
      BY <2>1
    <3> QED
      BY <3>1, <3>2, <3>3, <3>4
  <2> QED
    BY <2>2, <2>4, <2>5, <2>6, <2>7, <2>8 DEF CycleInv, RequestOf
<1>3. ASSUME NEW w \in Worker, AbandonCycle(w)
      PROVE  CycleInv'
  <2>1. UNCHANGED <<candidate, request, answer, started>>
    BY <1>3 DEF AbandonCycle
  <2>2. /\ discovery'[w].cycle = 0
        /\ \A v \in Worker \ {w} : discovery'[v].cycle = discovery[v].cycle
    BY <1>3 DEF TypeOK, AbandonCycle
  <2>3. \A v \in Worker : discovery'[v].cycle <= started'
    BY <2>1, <2>2 DEF CycleInv, TypeOK
  <2>4. \A u, v \in Worker : discovery'[u].cycle = discovery'[v].cycle =>
          u = v \/ discovery'[u].cycle = 0
    <3> TAKE u, v \in Worker
    <3>1. CASE u = w \/ v = w
      BY <2>2, <3>1
    <3>2. CASE u # w /\ v # w
      BY <2>2, <3>2 DEF CycleInv
    <3> QED
      BY <3>1, <3>2
  <2>5. ASSUME NEW m \in Cycle, m > started' \/ (\E v \in Worker : discovery'[v].cycle = m)
        PROVE  \A e \in Entry : request'[m][e] = "none"
    <3>1. m # 0
      BY CandidateAssumption DEF Cycle
    <3>2. m > started \/ (\E v \in Worker : discovery[v].cycle = m)
      BY <2>1, <2>2, <2>5, <3>1
    <3> QED
      BY <2>1, <3>2 DEF CycleInv
  <2>6. \A m \in Cycle, e \in Entry :
          request'[m][e] # "none" => candidate'[m][e].status # "absent"
    BY <2>1 DEF CycleInv
  <2>7. \A r \in Responder :
          answer'[r].step # "idle" => request'[answer'[r].id[1]][answer'[r].id[2]] # "none"
    BY <2>1 DEF CycleInv, RequestOf
  <2> QED
    BY <2>3, <2>4, <2>5, <2>6, <2>7 DEF CycleInv, RequestOf
<1>4. ASSUME NEW r \in Responder, NEW id \in Id, NEW lowest \in Price \cup {None},
             ReadRequest(r, id, lowest)
      PROVE  CycleInv'
  <2>1. UNCHANGED <<candidate, request, started, discovery>> /\ RequestOf(id) = "pending"
    BY <1>4 DEF ReadRequest
  <2>2. answer' = [answer EXCEPT ![r] = [step |-> "request", id |-> id, lowest |-> lowest]]
    BY <1>4 DEF ReadRequest
  <2>3. \A o \in Responder : answer'[o].step # "idle" => RequestOf(answer'[o].id) # "none"
    BY <2>1, <2>2 DEF TypeOK, CycleInv
  <2> QED
    BY <2>1, <2>3 DEF CycleInv, RequestOf
<1>5. ASSUME NEW r \in Responder, ReadCandidate(r)
      PROVE  CycleInv'
  <2>1. UNCHANGED <<candidate, request, started, discovery>> /\ answer[r].step = "request"
    BY <1>5 DEF ReadCandidate
  <2>2. \A o \in Responder : answer'[o].step # "idle" =>
          answer[o].step # "idle" /\ answer'[o].id = answer[o].id
    BY <1>5, <2>1 DEF TypeOK, ReadCandidate
  <2>3. \A o \in Responder : answer'[o].step # "idle" => RequestOf(answer'[o].id) # "none"
    BY <2>2 DEF CycleInv
  <2> QED
    BY <2>1, <2>3 DEF CycleInv, RequestOf
<1>6. ASSUME NEW r \in Responder, CommitAnswer(r)
      PROVE  CycleInv'
  <2>1. /\ answer[r].id \in Id
        /\ \A m \in Cycle, e \in Entry :
             IF <<m, e>> = answer[r].id
             THEN /\ request'[m][e] \in {request[m][e], "resolved"}
                  /\ \/ candidate'[m][e].status = candidate[m][e].status
                     \/ candidate'[m][e].status \in {"needs_verification"} \cup Verified
             ELSE /\ request'[m][e] = request[m][e]
                  /\ candidate'[m][e] = candidate[m][e]
    BY <1>6, CommitAnswerRows
  <2>2. UNCHANGED <<started, discovery>> /\ answer[r].step = "candidate"
    BY <1>6 DEF CommitAnswer
  <2>3. \A m \in Cycle, e \in Entry : request'[m][e] = "none" <=> request[m][e] = "none"
    BY <2>1, <2>2 DEF CycleInv, RequestOf
  <2>4. \A m \in Cycle, e \in Entry :
          candidate[m][e].status # "absent" => candidate'[m][e].status # "absent"
    BY <2>1 DEF Verified
  <2>5. \A o \in Responder : answer'[o].step # "idle" => answer'[o] = answer[o]
    BY <1>6 DEF TypeOK, CommitAnswer
  <2>6. \A o \in Responder : answer'[o].step # "idle" =>
          request'[answer'[o].id[1]][answer'[o].id[2]] # "none"
    BY <2>3, <2>5, AnswerFields, IdParts DEF CycleInv, RequestOf
  <2> QED
    BY <2>2, <2>3, <2>4, <2>6 DEF CycleInv, RequestOf
<1>7. ASSUME NEW r \in Responder, AbandonAnswer(r)
      PROVE  CycleInv'
  <2>1. UNCHANGED <<candidate, request, started, discovery>>
    BY <1>7 DEF AbandonAnswer
  <2>2. \A o \in Responder : answer'[o].step # "idle" => answer'[o] = answer[o]
    BY <1>7 DEF TypeOK, AbandonAnswer
  <2> QED
    BY <2>1, <2>2 DEF CycleInv, RequestOf
<1>8. CASE UNCHANGED vars
  BY <1>8 DEF CycleInv, RequestOf, vars
<1> QED
  BY <1>1, <1>2, <1>3, <1>4, <1>5, <1>6, <1>7, <1>8 DEF Next

(* A resolved request stays resolved whatever cycles and answers overlap:  *)
(* an answer writes the request's status only when it changed what it read *)
(* (_record_response), and a cycle only writes requests of its own.        *)
THEOREM ResolvedCorrect == Spec => ResolvedStaysResolved
<1>1. ASSUME TypeOK, CycleInv, Next, NEW id \in Id, RequestOf(id) = "resolved"
      PROVE  RequestOf(id)' = "resolved"
  <2>1. id[1] \in Cycle /\ id[2] \in Entry
    BY IdParts
  <2>2. ASSUME NEW w \in Worker, NEW ranked \in SUBSET Entry,
               NEW opinion \in [ranked -> Opinion], CommitCycle(w, ranked, opinion)
        PROVE  RequestOf(id)' = "resolved"
    <3>1. \A e \in Entry : request[discovery[w].cycle][e] = "none"
      BY <1>1, <2>2, CommitCycleRows
    <3>2. \A m \in Cycle, e \in Entry :
            m # discovery[w].cycle => request'[m][e] = request[m][e]
      <4>1. discovery[w].cycle \in Cycle
        BY <1>1, <2>2, CommitCycleRows
      <4>2. request' = [request EXCEPT ![discovery[w].cycle] =
                          [e \in Entry |->
                             IF e \in ranked /\ opinion[e].verify /\ opinion[e].worth
                             THEN "pending" ELSE "none"]]
        BY <2>2 DEF CommitCycle
      <4> QED
        BY <1>1, <4>1, <4>2 DEF TypeOK
    <3>3. id[1] # discovery[w].cycle
      BY <1>1, <2>1, <3>1 DEF RequestOf
    <3>4. request'[id[1]][id[2]] = request[id[1]][id[2]]
      BY <2>1, <3>2, <3>3
    <3> QED
      BY <1>1, <3>4 DEF RequestOf
  <2>3. ASSUME NEW r \in Responder, CommitAnswer(r)
        PROVE  RequestOf(id)' = "resolved"
    <3>1. request'[id[1]][id[2]] \in {request[id[1]][id[2]], "resolved"}
      BY <1>1, <2>1, <2>3, CommitAnswerRows
    <3> QED
      BY <1>1, <3>1 DEF RequestOf
  <2>4. CASE UNCHANGED request
    BY <1>1, <2>4 DEF RequestOf
  <2> QED
    BY <1>1, <2>2, <2>3, <2>4
       DEF Next, StartCycle, AbandonCycle, ReadRequest, ReadCandidate, AbandonAnswer
<1>2. TypeOK /\ CycleInv /\ [Next]_vars =>
        [\A id \in Id : RequestOf(id) = "resolved" => RequestOf(id)' = "resolved"]_vars
  BY <1>1
<1> QED
  BY <1>2, InitType, StepType, InitCycle, StepCycle, PTL DEF Spec, ResolvedStaysResolved

-----------------------------------------------------------------------------
(* The candidates that survive.                                            *)

(* A shown candidate that a running cycle has not read, and so will not    *)
(* supersede, came from an overlap.                                        *)
UnreadExcused ==
  \A w \in Worker : discovery[w].cycle # 0 =>
    \A id \in Shown \ discovery[w].previous : id \in excused

SurvivorInv == NoOtherSurvivors /\ UnreadExcused

(* The statuses a cycle selects are the ones that are shown.               *)
LEMMA ShownIsActive ==
  ASSUME TypeOK, NEW id \in Id
  PROVE  id \in Shown <=> StatusOf(id) \in ActiveStatuses
<1>1. StatusOf(id) \in Status
  BY IdParts DEF TypeOK, StatusOf, Candidate
<1> QED
  BY <1>1 DEF Shown, Status, ActiveStatuses, Verified

(* A step that shows nothing new and starts nothing disturbs nothing.      *)
LEMMA QuietStep ==
  ASSUME SurvivorInv, UNCHANGED <<candidate, last>>, excused \subseteq excused',
         \A w \in Worker : discovery'[w].cycle # 0 => discovery'[w] = discovery[w]
  PROVE  SurvivorInv'
<1>1. Shown' = Shown
  BY DEF Shown, StatusOf
<1> QED
  BY <1>1 DEF SurvivorInv, NoOtherSurvivors, UnreadExcused

LEMMA InitSurvivor == Init => SurvivorInv
<1> SUFFICES ASSUME Init PROVE SurvivorInv
  OBVIOUS
<1>1. ASSUME NEW id \in Id
      PROVE  StatusOf(id) = "absent"
  BY IdParts DEF Init, StatusOf, Absent
<1> QED
  BY <1>1 DEF Init, SurvivorInv, NoOtherSurvivors, UnreadExcused, Shown

LEMMA CommitCycleSurvivor ==
  ASSUME TypeOK, CycleInv, SurvivorInv, NEW w \in Worker, NEW ranked \in SUBSET Entry,
         NEW opinion \in [ranked -> Opinion], CommitCycle(w, ranked, opinion)
  PROVE  SurvivorInv'
<1> DEFINE n == discovery[w].cycle
<1>1. /\ n \in Cycle
      /\ \A m \in Cycle, e \in Entry :
           ~(m = n /\ e \in ranked) =>
             candidate'[m][e].status =
               IF <<m, e>> \in discovery[w].previous THEN "superseded"
               ELSE candidate[m][e].status
  BY CommitCycleRows
<1>2. /\ n # 0 /\ last' = n
      /\ excused' = excused \cup (IF Running = {w} THEN {} ELSE {n} \X ranked)
      /\ discovery' = [discovery EXCEPT ![w] = [cycle |-> 0, previous |-> {}]]
  BY DEF CommitCycle
(* Whatever is shown afterwards was inserted now, or shown and unread.     *)
<1>3. ASSUME NEW id \in Id, id \in Shown'
      PROVE  id \in {n} \X ranked \/ id \in Shown \ discovery[w].previous
  <2>1. id[1] \in Cycle /\ id[2] \in Entry /\ id = <<id[1], id[2]>>
    BY IdParts
  <2>2. CASE id[1] = n /\ id[2] \in ranked
    BY <2>1, <2>2
  <2>3. CASE ~(id[1] = n /\ id[2] \in ranked)
    <3>1. candidate'[id[1]][id[2]].status =
            IF id \in discovery[w].previous THEN "superseded" ELSE StatusOf(id)
      BY <1>1, <2>1, <2>3 DEF StatusOf
    <3>2. candidate'[id[1]][id[2]].status \notin {"absent", "superseded"}
      BY <1>3 DEF Shown, StatusOf
    <3> QED
      BY <3>1, <3>2 DEF Shown
  <2> QED
    BY <2>2, <2>3
<1>4. \A id \in Shown \ discovery[w].previous : id \in excused
  BY <1>2 DEF SurvivorInv, UnreadExcused
<1>5. NoOtherSurvivors'
  <2>1. ASSUME NEW id \in Id, id \in Shown', id[1] # n
        PROVE  id \in excused
    <3>1. id \notin {n} \X ranked
      BY <2>1
    <3> QED
      BY <1>3, <1>4, <2>1, <3>1
  <2>2. Shown' \subseteq Id
    BY DEF Shown, Id, Cycle
  <2> QED
    BY <1>2, <2>1, <2>2 DEF NoOtherSurvivors
<1>6. UnreadExcused'
  <2>1. ASSUME NEW v \in Worker, discovery'[v].cycle # 0,
               NEW id \in Shown', id \notin discovery'[v].previous
        PROVE  id \in excused'
    <3>1. v # w /\ discovery'[v] = discovery[v]
      BY <1>2, <2>1 DEF TypeOK
    <3>2. v \in Running /\ Running # {w}
      BY <2>1, <3>1 DEF Running
    <3>3. id \in Id
      BY DEF Shown, Id, Cycle
    <3>4. CASE id \in {n} \X ranked
      BY <1>2, <3>2, <3>4
    <3>5. CASE id \in Shown \ discovery[w].previous
      BY <1>2, <1>4, <3>5
    <3> QED
      BY <1>3, <3>3, <3>4, <3>5
  <2> QED
    BY <2>1 DEF UnreadExcused
<1> QED
  BY <1>5, <1>6 DEF SurvivorInv

LEMMA CommitAnswerSurvivor ==
  ASSUME TypeOK, CycleInv, SurvivorInv, NEW r \in Responder, CommitAnswer(r)
  PROVE  SurvivorInv'
<1> DEFINE a == answer[r]
<1>1. /\ a.id \in Id
      /\ \A m \in Cycle, e \in Entry :
           <<m, e>> # a.id => candidate'[m][e] = candidate[m][e]
  BY CommitAnswerRows
<1>2. /\ UNCHANGED <<last, discovery>> /\ a.step = "candidate"
      /\ excused' = excused \cup (IF StatusOf(a.id) = "superseded" THEN {a.id} ELSE {})
  BY DEF CommitAnswer
<1>3. StatusOf(a.id) # "absent"
  BY <1>1, <1>2, IdParts DEF CycleInv, RequestOf, StatusOf
<1>4. ASSUME NEW id \in Id, id \in Shown'
      PROVE  id \in Shown \/ id \in excused'
  <2>1. CASE id = a.id
    BY <1>2, <1>3, <2>1, <1>1 DEF Shown
  <2>2. CASE id # a.id
    <3>1. candidate'[id[1]][id[2]] = candidate[id[1]][id[2]]
      BY <1>1, <2>2, IdParts
    <3> QED
      BY <1>4, <3>1 DEF Shown, StatusOf
  <2> QED
    BY <2>1, <2>2
<1>5. Shown' \subseteq Id
  BY DEF Shown, Id, Cycle
<1>6. excused \subseteq excused'
  BY <1>2
<1> QED
  BY <1>2, <1>4, <1>5, <1>6 DEF SurvivorInv, NoOtherSurvivors, UnreadExcused

LEMMA StepSurvivor == TypeOK /\ CycleInv /\ SurvivorInv /\ [Next]_vars => SurvivorInv'
<1> SUFFICES ASSUME TypeOK, CycleInv, SurvivorInv, [Next]_vars PROVE SurvivorInv'
  OBVIOUS
<1>1. ASSUME NEW w \in Worker, StartCycle(w)
      PROVE  SurvivorInv'
  <2>1. UNCHANGED <<candidate, last, excused>>
    BY <1>1 DEF StartCycle
  <2>2. /\ discovery'[w].previous = {id \in Id : StatusOf(id) \in ActiveStatuses}
        /\ \A v \in Worker \ {w} : discovery'[v] = discovery[v]
    BY <1>1 DEF TypeOK, StartCycle
  <2>3. Shown' = Shown
    BY <2>1 DEF Shown, StatusOf
  <2>4. Shown \ discovery'[w].previous = {}
    BY <2>2, ShownIsActive DEF Shown
  <2>5. UnreadExcused'
    BY <2>1, <2>2, <2>3, <2>4 DEF SurvivorInv, UnreadExcused
  <2> QED
    BY <2>1, <2>3, <2>5 DEF SurvivorInv, NoOtherSurvivors
<1>2. ASSUME NEW w \in Worker, AbandonCycle(w)
      PROVE  SurvivorInv'
  <2>1. \A v \in Worker : discovery'[v].cycle # 0 => discovery'[v] = discovery[v]
    BY <1>2 DEF TypeOK, AbandonCycle
  <2> QED
    BY <1>2, <2>1, QuietStep DEF AbandonCycle
<1>3. ASSUME NEW r \in Responder,
             \/ \E id \in Id, lowest \in Price \cup {None} : ReadRequest(r, id, lowest)
             \/ ReadCandidate(r)
             \/ AbandonAnswer(r)
      PROVE  SurvivorInv'
  <2>1. UNCHANGED <<candidate, last, excused, discovery>>
    BY <1>3 DEF ReadRequest, ReadCandidate, AbandonAnswer
  <2> QED
    BY <2>1, QuietStep
<1>4. CASE UNCHANGED vars
  BY <1>4, QuietStep DEF vars
<1> QED
  BY <1>1, <1>2, <1>3, <1>4, CommitCycleSurvivor, CommitAnswerSurvivor DEF Next

(* Discovery forgets no candidate of its own accord: one of an earlier     *)
(* cycle is shown only after an overlap of cycles or an answer that came   *)
(* too late (persist_discovery_cycle, _record_response).                   *)
THEOREM SurvivorsCorrect == Spec => []NoOtherSurvivors
<1>1. Spec => [](TypeOK /\ CycleInv /\ SurvivorInv)
  BY InitType, StepType, InitCycle, StepCycle, InitSurvivor, StepSurvivor, PTL DEF Spec
<1>2. TypeOK /\ CycleInv /\ SurvivorInv => NoOtherSurvivors
  BY DEF SurvivorInv
<1> QED
  BY <1>1, <1>2, PTL

-----------------------------------------------------------------------------
(* Verdicts and their evidence.                                            *)

Judged(row, word) ==
  /\ word = "none" => row.status \notin Verified
  /\ word = "pending" => row.status \in {"needs_verification", "superseded"}
  /\ word = "resolved" => row.status \in Verified \cup {"superseded"}
  /\ row.status = "execution_verified_actionable" => row.evidence \in 1..row.limit
  /\ row.status = "execution_verified_not_actionable" =>
       row.limit # None /\ row.evidence > row.limit

RowOf(id) == candidate[id[1]][id[2]]

(* The only answer to a request, while it is under way: the request is     *)
(* still pending, and its candidate was read unjudged.                     *)
Alone(r) ==
  /\ RequestOf(answer[r].id) = "pending"
  /\ \A o \in Responder \ {r} : answer[o].step # "idle" => answer[o].id # answer[r].id
  /\ answer[r].step = "candidate" => answer[r].read \in {"needs_verification", "superseded"}

VerdictInv ==
  /\ \A id \in Id \ contested : Judged(RowOf(id), RequestOf(id))
  /\ \A r \in Responder :
       answer[r].step # "idle" /\ answer[r].id \notin contested => Alone(r)

LEMMA InitVerdict == Init => VerdictInv
<1> SUFFICES ASSUME Init PROVE VerdictInv
  OBVIOUS
<1>1. \A id \in Id : RowOf(id) = Absent /\ RequestOf(id) = "none"
  BY IdParts DEF Init, RowOf, RequestOf
<1>2. Absent.status = "absent"
  BY DEF Absent
<1> QED
  BY <1>1, <1>2 DEF Init, VerdictInv, Judged, Verified

(* A superseded candidate is judged whatever its evidence.                 *)
LEMMA SupersededJudged ==
  ASSUME NEW row, NEW old, NEW word, Judged(old, word), row.status = "superseded"
  PROVE  Judged(row, word)
BY DEF Judged, Verified

(* What a verdict says is what Judged asks of it.                          *)
LEMMA VerdictJudged ==
  ASSUME NEW row, NEW lowest \in Price, row.limit \in Limit \cup {None},
         row.evidence = lowest, row.status = Verdict(row.limit, lowest)
  PROVE  Judged(row, "resolved")
<1>1. lowest \in Nat \ {None} /\ row.limit \in Nat
  <2>1. /\ \A p \in Price : p \in Nat \ {None}
        /\ \A l \in Limit : l \in Price \/ l = None
    BY CandidateAssumption
  <2>2. PICK l : l = row.limit
    OBVIOUS
  <2>3. l \in Nat
    BY <2>1, <2>2 DEF None
  <2> QED
    BY <2>1, <2>2, <2>3
<1>2. CASE row.limit = None
  <2>1. row.status = "execution_verified_needs_model_reevaluation"
    BY <1>1, <1>2 DEF Verdict
  <2> QED
    BY <2>1 DEF Judged, Verified
<1>3. CASE row.limit # None /\ lowest <= row.limit
  <2>1. row.status = "execution_verified_actionable"
    BY <1>1, <1>3 DEF Verdict
  <2>2. row.evidence \in 1..row.limit
    BY <1>1, <1>3 DEF None
  <2> QED
    BY <2>1, <2>2 DEF Judged, Verified
<1>4. CASE row.limit # None /\ ~(lowest <= row.limit)
  <2>1. row.status = "execution_verified_not_actionable"
    BY <1>1, <1>4 DEF Verdict
  <2>2. row.evidence > row.limit
    BY <1>1, <1>4
  <2> QED
    BY <1>4, <2>1, <2>2 DEF Judged, Verified
<1> QED
  BY <1>2, <1>3, <1>4

LEMMA CommitCycleVerdict ==
  ASSUME TypeOK, CycleInv, VerdictInv, NEW w \in Worker, NEW ranked \in SUBSET Entry,
         NEW opinion \in [ranked -> Opinion], CommitCycle(w, ranked, opinion)
  PROVE  VerdictInv'
<1>1. PICK n : n = discovery[w].cycle
  OBVIOUS
<1>2. /\ n \in Cycle
      /\ \A e \in Entry : request[n][e] = "none"
  BY <1>1, CommitCycleRows
<1>3. UNCHANGED <<answer, contested>>
  BY DEF CommitCycle
<1>4. request' = [request EXCEPT ![n] =
                    [e \in Entry |-> IF e \in ranked /\ opinion[e].verify /\ opinion[e].worth
                                     THEN "pending" ELSE "none"]]
  BY <1>1 DEF CommitCycle
<1>5. ASSUME NEW m \in Cycle, NEW e \in Entry
      PROVE  /\ m # n => request'[m][e] = request[m][e]
             /\ m = n => request'[m][e] = IF e \in ranked /\ opinion[e].verify /\ opinion[e].worth
                                         THEN "pending" ELSE "none"
  BY <1>2, <1>4 DEF TypeOK
<1>6. ASSUME NEW m \in Cycle, NEW e \in Entry
      PROVE  candidate'[m][e] =
               IF m = n /\ e \in ranked
               THEN [status |-> IF opinion[e].verify THEN "needs_verification" ELSE "ranked",
                     limit |-> opinion[e].limit, evidence |-> Unobserved]
               ELSE IF <<m, e>> \in discovery[w].previous
               THEN [candidate[m][e] EXCEPT !.status = "superseded"]
               ELSE candidate[m][e]
  BY <1>1 DEF CommitCycle
<1>7. ASSUME NEW id \in Id, id \notin contested
      PROVE  Judged(RowOf(id), RequestOf(id))'
  <2>1. PICK m \in Cycle, e \in Entry : id[1] = m /\ id[2] = e
    BY IdParts
  <2>2. PICK row : row = candidate'[m][e]
    OBVIOUS
  <2>3. PICK word : word = request'[m][e]
    OBVIOUS
  <2>4. PICK old : old = candidate[m][e]
    OBVIOUS
  <2>5. Judged(old, request[m][e]) /\ old \in Candidate
    BY <1>7, <2>1, <2>4 DEF VerdictInv, RowOf, RequestOf, TypeOK
  <2>6. Judged(row, word)
    <3>1. CASE m = n /\ e \in ranked
      <4>1. row.status = IF opinion[e].verify THEN "needs_verification" ELSE "ranked"
        <5>1. PICK s : s = IF opinion[e].verify THEN "needs_verification" ELSE "ranked"
          BY Zenon
        <5>2. row = [status |-> s, limit |-> opinion[e].limit, evidence |-> Unobserved]
          BY <1>6, <2>2, <3>1, <5>1, Zenon
        <5> QED
          BY <5>1, <5>2, Zenon
      <4>2. word = IF opinion[e].verify /\ opinion[e].worth THEN "pending" ELSE "none"
        BY <1>5, <2>3, <3>1, Zenon
      <4>3. CASE opinion[e].verify
        <5>1. row.status = "needs_verification" /\ word \in {"pending", "none"}
          BY <4>1, <4>2, <4>3, Zenon
        <5> QED
          BY <5>1 DEF Judged, Verified
      <4>4. CASE ~opinion[e].verify
        <5>1. row.status = "ranked" /\ word = "none"
          BY <4>1, <4>2, <4>4, Zenon
        <5> QED
          BY <5>1 DEF Judged, Verified
      <4> QED
        BY <4>3, <4>4
    <3>2. CASE ~(m = n /\ e \in ranked)
      <4>1. word = request[m][e]
        <5>1. CASE m = n
          <6>1. word = "none"
            BY <1>5, <2>3, <3>2, <5>1, Zenon
          <6> QED
            BY <6>1, <5>1, <1>2
        <5>2. CASE m # n
          BY <1>5, <2>3, <5>2
        <5> QED
          BY <5>1, <5>2
      <4>2. CASE <<m, e>> \in discovery[w].previous
        <5>1. row = [old EXCEPT !.status = "superseded"]
          BY <1>6, <2>2, <2>4, <3>2, <4>2
        <5>2. row.status = "superseded"
          BY <5>1, <2>5 DEF Candidate
        <5> QED
          BY <5>2, <4>1, <2>5, SupersededJudged
      <4>3. CASE <<m, e>> \notin discovery[w].previous
        <5>1. row = old
          BY <1>6, <2>2, <2>4, <3>2, <4>3
        <5> QED
          BY <5>1, <4>1, <2>5
      <4> QED
        BY <4>2, <4>3
    <3> QED
      BY <3>1, <3>2
  <2> QED
    BY <2>1, <2>2, <2>3, <2>6 DEF RowOf, RequestOf
<1>8. ASSUME NEW r \in Responder, answer[r].step # "idle", answer[r].id \notin contested
      PROVE  Alone(r)'
  <2>1. Alone(r)
    BY <1>8 DEF VerdictInv
  <2>2. answer[r].id[1] \in Cycle /\ answer[r].id[2] \in Entry
    BY <1>8, AnswerFields, IdParts
  <2>3. RequestOf(answer[r].id)' = "pending"
    BY <2>1, <2>2, <1>2, <1>3, <1>5 DEF Alone, RequestOf
  <2> QED
    BY <2>1, <2>3, <1>3 DEF Alone
<1> QED
  BY <1>3, <1>7, <1>8 DEF VerdictInv

LEMMA CommitAnswerVerdict ==
  ASSUME TypeOK, CycleInv, VerdictInv, NEW r \in Responder, CommitAnswer(r)
  PROVE  VerdictInv'
<1>1. PICK a : a = answer[r]
  OBVIOUS
<1>2. /\ a.step = "candidate" /\ a.id \in Id /\ a.lowest \in Price \cup {None}
      /\ UNCHANGED contested
      /\ answer' = [answer EXCEPT ![r] = [step |-> "idle"]]
  BY <1>1, AnswerFields DEF CommitAnswer
<1>3. PICK n \in Cycle, x \in Entry : a.id[1] = n /\ a.id[2] = x /\ a.id = <<n, x>>
  BY <1>2, IdParts
<1>4. PICK old : old = candidate[n][x]
  OBVIOUS
<1>5. PICK new : new = Write(old.status, a.read, Verdict(old.limit, a.lowest))
  OBVIOUS
<1>6. PICK word : word = Write(request[n][x], "pending",
                               IF a.lowest # None THEN "resolved" ELSE "pending")
  OBVIOUS
<1>7. /\ candidate' = [candidate EXCEPT ![n][x].status = new, ![n][x].evidence = a.lowest]
      /\ request' = [request EXCEPT ![n][x] = word]
  BY <1>1, <1>3, <1>4, <1>5, <1>6 DEF CommitAnswer
<1>8. old \in Candidate
  BY <1>4 DEF TypeOK
<1>9. PICK row : row = candidate'[n][x]
  OBVIOUS
<1>10. row.status = new /\ row.evidence = a.lowest /\ row.limit = old.limit
  <2>1. row = [[old EXCEPT !.status = new] EXCEPT !.evidence = a.lowest]
    BY <1>4, <1>7, <1>9 DEF TypeOK
  <2> QED
    BY <2>1, <1>8 DEF Candidate
<1>11. request'[n][x] = word
  BY <1>7 DEF TypeOK
<1>12. \A id \in Id : id # a.id =>
          RowOf(id)' = RowOf(id) /\ RequestOf(id)' = RequestOf(id)
  <2> TAKE id \in Id
  <2>1. id[1] \in Cycle /\ id[2] \in Entry /\ id = <<id[1], id[2]>>
    BY IdParts
  <2> QED
    BY <2>1, <1>3, <1>7 DEF TypeOK, RowOf, RequestOf
<1>13. ASSUME a.id \notin contested
       PROVE  Judged(row, word)
  <2>1. Alone(r) /\ Judged(old, "pending") /\ request[n][x] = "pending"
    BY <1>1, <1>2, <1>3, <1>4, <1>13 DEF VerdictInv, Alone, RowOf, RequestOf
  <2>2. a.read \in {"needs_verification", "superseded"}
    BY <2>1, <1>1, <1>2 DEF Alone
  <2>3. old.status \in {"needs_verification", "superseded"}
    BY <2>1 DEF Judged
  <2>4. CASE a.lowest = None
    <3>1. word = "pending"
      BY <2>1, <2>4, <1>6 DEF Write
    <3>2. new \in {"needs_verification", "superseded"}
      BY <2>2, <2>3, <2>4, <1>5 DEF Write, Verdict
    <3> QED
      BY <3>1, <3>2, <1>10 DEF Judged, Verified
  <2>5. CASE a.lowest # None
    <3>1. word = "resolved" /\ a.lowest \in Price
      BY <2>1, <2>5, <1>2, <1>6 DEF Write
    <3>2. Verdict(old.limit, a.lowest) \in Verified
      BY <2>5 DEF Verdict, Verified
    <3>3. new = Verdict(old.limit, a.lowest)
      BY <2>2, <3>2, <1>5 DEF Write, Verified
    <3>4. old.limit \in Limit \cup {None}
      BY <1>8 DEF Candidate
    <3> QED
      BY <3>1, <3>3, <3>4, <1>10, VerdictJudged
  <2> QED
    BY <2>4, <2>5
<1>14. ASSUME NEW id \in Id, id \notin contested
       PROVE  Judged(RowOf(id), RequestOf(id))'
  <2>1. CASE id = a.id
    BY <2>1, <1>3, <1>9, <1>11, <1>13, <1>14 DEF RowOf, RequestOf
  <2>2. CASE id # a.id
    BY <2>2, <1>12, <1>14 DEF VerdictInv
  <2> QED
    BY <2>1, <2>2
<1>15. \A o \in Responder : answer'[o] = IF o = r THEN [step |-> "idle"] ELSE answer[o]
  BY <1>2 DEF TypeOK
<1>16. ASSUME NEW o \in Responder, answer'[o].step # "idle", answer'[o].id \notin contested
       PROVE  Alone(o)'
  <2>1. o # r /\ answer'[o] = answer[o]
    BY <1>15, <1>16
  <2>2. Alone(o)
    BY <2>1, <1>16 DEF VerdictInv
  <2>3. answer[o].id # a.id
    BY <2>1, <2>2, <1>1, <1>2 DEF Alone
  <2>4. answer[o].id \in Id
    BY <2>1, <1>16, AnswerFields
  <2>5. PICK i : i = answer[o].id
    OBVIOUS
  <2>6. RequestOf(i)' = "pending"
    BY <2>2, <2>3, <2>4, <2>5, <1>12 DEF Alone
  <2>7. \A v \in Responder \ {o} : answer'[v].step # "idle" => answer'[v].id # i
    BY <2>2, <2>5, <1>15 DEF Alone
  <2> QED
    BY <2>1, <2>2, <2>5, <2>6, <2>7 DEF Alone, RequestOf
<1> QED
  BY <1>2, <1>14, <1>16 DEF VerdictInv

LEMMA ReadRequestVerdict ==
  ASSUME TypeOK, VerdictInv, NEW r \in Responder, NEW id \in Id,
         NEW lowest \in Price \cup {None}, ReadRequest(r, id, lowest)
  PROVE  VerdictInv'
<1>1. /\ answer[r].step = "idle" /\ RequestOf(id) = "pending"
      /\ contested' = contested \cup
           {i \in {id} : \E o \in Responder : answer[o].step # "idle" /\ answer[o].id = i}
      /\ UNCHANGED <<candidate, request>>
  BY DEF ReadRequest
<1>2. PICK x : x = [step |-> "request", id |-> id, lowest |-> lowest]
  OBVIOUS
<1>3. \A o \in Responder : answer'[o] = IF o = r THEN x ELSE answer[o]
  BY <1>2 DEF ReadRequest, TypeOK
<1>4. x.step = "request" /\ x.id = id
  BY <1>2
<1>5. ASSUME NEW o \in Responder, answer'[o].step # "idle", answer'[o].id \notin contested'
      PROVE  Alone(o)'
  <2>1. CASE o = r
    <3>1. \A v \in Responder : answer[v].step # "idle" => answer[v].id # id
      BY <1>1, <1>3, <1>4, <1>5, <2>1
    <3>2. answer'[r].id = id /\ answer'[r].step = "request"
      BY <1>3, <1>4
    <3>3. RequestOf(id)' = "pending"
      BY <1>1 DEF RequestOf
    <3>4. \A v \in Responder \ {r} : answer'[v].step # "idle" => answer'[v].id # id
      BY <3>1, <1>3
    <3> QED
      BY <2>1, <3>2, <3>3, <3>4 DEF Alone, RequestOf
  <2>2. CASE o # r
    <3>1. answer'[o] = answer[o] /\ answer[o].step # "idle" /\ answer[o].id \notin contested
      BY <1>1, <1>3, <1>5, <2>2
    <3>2. Alone(o)
      BY <3>1 DEF VerdictInv
    <3>3. answer[o].id # id
      BY <1>1, <1>5, <3>1
    <3>4. \A v \in Responder \ {o} : answer'[v].step # "idle" => answer'[v].id # answer[o].id
      BY <3>2, <3>3, <1>3, <1>4 DEF Alone
    <3> QED
      BY <3>1, <3>2, <3>4, <1>1 DEF Alone, RequestOf
  <2> QED
    BY <2>1, <2>2
<1>6. ASSUME NEW i \in Id, i \notin contested'
      PROVE  Judged(RowOf(i), RequestOf(i))'
  BY <1>1, <1>6 DEF VerdictInv, RowOf, RequestOf
<1> QED
  BY <1>5, <1>6 DEF VerdictInv

LEMMA ReadCandidateVerdict ==
  ASSUME TypeOK, VerdictInv, NEW r \in Responder, ReadCandidate(r)
  PROVE  VerdictInv'
<1>1. answer[r].step = "request" /\ UNCHANGED <<candidate, request, contested>>
  BY DEF ReadCandidate
<1>2. PICK id : id = answer[r].id
  OBVIOUS
<1>3. PICK x : x = [step |-> "candidate", id |-> id, lowest |-> answer[r].lowest,
                    read |-> StatusOf(id)]
  OBVIOUS
<1>4. \A o \in Responder : answer'[o] = IF o = r THEN x ELSE answer[o]
  BY <1>2, <1>3 DEF ReadCandidate, TypeOK
<1>5. x.step = "candidate" /\ x.id = id /\ x.read = StatusOf(id)
  BY <1>3
<1>6. id \in Id
  BY <1>1, <1>2, AnswerFields
<1>7. ASSUME NEW o \in Responder, answer'[o].step # "idle", answer'[o].id \notin contested
      PROVE  Alone(o)'
  <2>1. answer'[o].id = answer[o].id /\ answer[o].step # "idle"
    BY <1>1, <1>2, <1>4, <1>5, <1>7
  <2>2. Alone(o)
    BY <2>1, <1>7 DEF VerdictInv
  <2>3. \A v \in Responder : answer'[v].step # "idle" =>
           answer[v].step # "idle" /\ answer'[v].id = answer[v].id
    BY <1>1, <1>2, <1>4, <1>5
  <2>4. answer'[o].step = "candidate" => answer'[o].read \in {"needs_verification", "superseded"}
    <3>1. CASE o = r
      <4>1. Judged(RowOf(id), "pending")
        BY <2>1, <2>2, <1>2, <1>6, <1>7, <3>1 DEF VerdictInv, Alone
      <4>2. StatusOf(id) \in {"needs_verification", "superseded"}
        BY <4>1 DEF Judged, RowOf, StatusOf
      <4> QED
        BY <3>1, <4>2, <1>4, <1>5
    <3>2. CASE o # r
      BY <3>2, <2>2, <1>4 DEF Alone
    <3> QED
      BY <3>1, <3>2
  <2> QED
    BY <2>1, <2>2, <2>3, <2>4, <1>1 DEF Alone, RequestOf
<1>8. \A i \in Id \ contested : Judged(RowOf(i), RequestOf(i))'
  BY <1>1 DEF VerdictInv, RowOf, RequestOf
<1> QED
  BY <1>1, <1>7, <1>8 DEF VerdictInv

LEMMA QuietVerdict ==
  ASSUME VerdictInv, UNCHANGED <<candidate, request, contested>>,
         \A o \in Responder : answer'[o].step # "idle" => answer'[o] = answer[o]
  PROVE  VerdictInv'
<1>1. \A i \in Id \ contested : Judged(RowOf(i), RequestOf(i))'
  BY DEF VerdictInv, RowOf, RequestOf
<1>2. ASSUME NEW o \in Responder, answer'[o].step # "idle", answer'[o].id \notin contested
      PROVE  Alone(o)'
  BY <1>2 DEF VerdictInv, Alone, RequestOf
<1> QED
  BY <1>1, <1>2 DEF VerdictInv

LEMMA StepVerdict == TypeOK /\ CycleInv /\ VerdictInv /\ [Next]_vars => VerdictInv'
<1> SUFFICES ASSUME TypeOK, CycleInv, VerdictInv, [Next]_vars PROVE VerdictInv'
  OBVIOUS
<1>1. ASSUME NEW w \in Worker, StartCycle(w) \/ AbandonCycle(w)
      PROVE  VerdictInv'
  BY <1>1, QuietVerdict DEF StartCycle, AbandonCycle
<1>2. ASSUME NEW r \in Responder, AbandonAnswer(r)
      PROVE  VerdictInv'
  <2>1. \A o \in Responder : answer'[o].step # "idle" => answer'[o] = answer[o]
    BY <1>2 DEF TypeOK, AbandonAnswer
  <2> QED
    BY <1>2, <2>1, QuietVerdict DEF AbandonAnswer
<1>3. CASE UNCHANGED vars
  BY <1>3, QuietVerdict DEF vars
<1> QED
  BY <1>1, <1>2, <1>3, CommitCycleVerdict, CommitAnswerVerdict, ReadRequestVerdict,
     ReadCandidateVerdict DEF Next

(* Cycles and answers may overlap as they like: unless two answers met, a  *)
(* resolved request has its candidate judged or superseded, on the linked  *)
(* evidence and by its own limit (_record_response).                       *)
THEOREM VerdictCorrect == Spec => []VerdictMatchesEvidence
<1>1. Spec => [](TypeOK /\ CycleInv /\ VerdictInv)
  BY InitType, StepType, InitCycle, StepCycle, InitVerdict, StepVerdict, PTL DEF Spec
<1>2. TypeOK /\ VerdictInv => VerdictMatchesEvidence
  <2> SUFFICES ASSUME TypeOK, VerdictInv, NEW id \in Id \ contested
               PROVE  /\ RequestOf(id) = "resolved" => RowOf(id).status \in Verified \cup {"superseded"}
                      /\ RowOf(id).status \in Verified => RequestOf(id) = "resolved"
                      /\ RowOf(id).status = "execution_verified_actionable" =>
                           RowOf(id).evidence \in 1..RowOf(id).limit
                      /\ RowOf(id).status = "execution_verified_not_actionable" =>
                           RowOf(id).limit # None /\ RowOf(id).evidence > RowOf(id).limit
    BY DEF VerdictMatchesEvidence, RowOf
  <2>1. Judged(RowOf(id), RequestOf(id))
    BY DEF VerdictInv
  <2>2. RequestOf(id) \in {"none", "pending", "resolved"}
    BY IdParts DEF TypeOK, RequestOf
  <2> QED
    BY <2>1, <2>2 DEF Judged, Verified
<1> QED
  BY <1>1, <1>2, PTL
=============================================================================
