-------------------------- MODULE MCFeedCollection --------------------------
(* The pollers are interchangeable.                                        *)
EXTENDS FeedCollection, TLC

Symmetry == Permutations(Poller)
=============================================================================
