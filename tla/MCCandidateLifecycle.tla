------------------------ MODULE MCCandidateLifecycle ------------------------
(* A price on the limit, one above it, and no limit.                       *)
EXTENDS CandidateLifecycle, TLC

MCPrice == {2, 3}
MCLimit == {None, 2}
Symmetry == Permutations(Worker) \cup Permutations(Responder)
=============================================================================
