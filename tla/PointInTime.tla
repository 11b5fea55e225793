----------------------------- MODULE PointInTime -----------------------------
(***************************************************************************)
(* What features/point_in_time.py promises of the reads that backtests,    *)
(* the consensus and the features build on: "only observations actually    *)
(* inserted/retrieved by cutoff may participate".  A question is a cutoff  *)
(* (and what is asked of it).  Its answer may still grow while the         *)
(* question is open; once it is settled the answer is the same for ever.   *)
(*                                                                         *)
(* This is the promise alone.  Whether the tables keep it, and when a      *)
(* question about the past is settled, is up to the module that implements *)
(* it (ReferencePrices).                                                   *)
(***************************************************************************)
CONSTANT Question

VARIABLES
  answer,    \* the <<question, row>> such that a reader who asks gets the row
  settled    \* the questions whose answer is final

Init ==
  /\ answer = {}
  /\ settled \subseteq Question

(* Rows are added, to the answers of open questions only; nothing that was *)
(* settled is opened again.                                                *)
Learn ==
  /\ settled \subseteq settled'
  /\ answer \subseteq answer'
  /\ \A learned \in answer' \ answer : learned[1] \notin settled

Spec == Init /\ [][Learn]_<<answer, settled>>
=============================================================================
