----------------------- MODULE MCPortfolioConcurrent -----------------------
EXTENDS PortfolioConcurrent

MCPrice == {20}
MCBooks == {[p \in MCPrice |-> 2]}
=============================================================================
