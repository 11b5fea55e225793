-------------------------- MODULE MCPortfolioLedger --------------------------
(* One card, prices 20 and 21: their average is a tie (20.5), a single copy *)
(* pays 1 coin of tax and two pay 2.                                        *)
EXTENDS PortfolioLedger

MCPrice == {20, 21}
MCBooks == {[p \in MCPrice |-> 0],
            [p \in MCPrice |-> IF p = 20 THEN 1 ELSE 2],
            [p \in MCPrice |-> IF p = 20 THEN 2 ELSE 0]}
=============================================================================
