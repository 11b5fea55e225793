----------------------------- MODULE MCAttention -----------------------------
(* Two cards of which one may be ranked twice; a signal just above what    *)
(* discovery keeps and one near the highest score there is, which with a   *)
(* position leaves the range of priorities.                                *)
EXTENDS Attention

CONSTANTS Twice, Once

MCPlace == {<<Twice, 1>>, <<Twice, 2>>, <<Once, 1>>}
MCSignal == {[score |-> 40, gain |-> 0], [score |-> 800, gain |-> 170]}
=============================================================================
