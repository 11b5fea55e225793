--------------------------- MODULE MCCardIdentity ---------------------------
(***************************************************************************)
(* Three versions of one player: gold and special look alike and play for  *)
(* one club, other for another one.                                        *)
(***************************************************************************)
EXTENDS CardIdentity

CONSTANTS gold, special, other

MCFaceOf == [v \in Version |-> "vini90"]
MCSideOf == [v \in Version |-> IF v = other THEN "away" ELSE "home"]
MCPage   == {{gold}, {gold, special}, {gold, other}}
=============================================================================
